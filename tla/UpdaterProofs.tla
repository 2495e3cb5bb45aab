--------------------------- MODULE UpdaterProofs ---------------------------
(***************************************************************************)
(* Proofs about Updater for any threads, whatever fails and whenever the   *)
(* game is closed.  What is proved of the CIA assumes that fclose does not *)
(* lose the end of the download (CloseMayFail); without that it is false.  *)
(* The second part is about UpdateReleases.                                *)
(***************************************************************************)
EXTENDS UpdateReleases, TLAPS

\* What holds while the worker is where it is.
WorkerInv(t) ==
  /\ worker[t].at = "end" => ~ sNetUp
  /\ worker[t].at = "raise" => sState = "AVAILABLE" /\ worker[t].job = "AUTO_CHECK"
  /\ sPrompt = "ASK_INSTALL" => worker[t].at \in LastPlaces /\ worker[t].job = "AUTO_CHECK"
  /\ sPrompt = "PROGRESS" /\ worker[t].job # "INSTALL" =>
       worker[t].at \in LastPlaces /\ sState = "AVAILABLE"
  /\ worker[t].at \in InstallPlaces \ {"install"} => ~ sKeptCia
  /\ ~ CloseMayFail /\ worker[t].at \in {"am", "overwrite", "delete", "fresh", "keep"} => cia = "whole"

\* The inductive invariant.
IInv ==
  /\ TypeOK /\ OneJobAtATime /\ AskMeansAvailable
  /\ ~ CloseMayFail => KeptCiaIsThere
  /\ \A t \in Thread : worker[t] # None => WorkerInv(t)

LEMMA WorkNotNone ==
  ASSUME NEW w \in Work
  PROVE  w # None
  BY UpdaterAssumption

\* A worker that goes on to a place of its job keeps to its type.
LEMMA GoesType ==
  ASSUME TypeOK, NEW t \in Thread, NEW here, NEW next, At(t, here), Goes(t, next),
         \/ next \in LastPlaces
         \/ here \in CheckPlaces /\ next \in CheckPlaces
         \/ here \in InstallPlaces /\ next \in InstallPlaces
  PROVE  /\ worker' \in [Thread -> Work \cup {None}]
         /\ worker'[t] # None /\ worker'[t].at = next /\ worker'[t].job = worker[t].job
         /\ \A u \in Thread : u # t => worker'[u] = worker[u]
  <1>1. worker[t] \in Work
    BY DEF At, TypeOK
  <1>2. [worker[t] EXCEPT !.at = next] \in Work
    BY <1>1 DEF At, Work, Places, CheckPlaces, InstallPlaces, LastPlaces, Jobs
  <1> QED BY <1>1, <1>2, WorkNotNone DEF Goes, TypeOK, Work

\* ... and stays the only one.
LEMMA Advance ==
  ASSUME IInv, NEW t \in Thread, NEW here, NEW next, At(t, here), Goes(t, next), UNCHANGED sBusy,
         \/ next \in LastPlaces
         \/ here \in CheckPlaces /\ next \in CheckPlaces
         \/ here \in InstallPlaces /\ next \in InstallPlaces
  PROVE  /\ worker' \in [Thread -> Work \cup {None}]
         /\ worker'[t] # None /\ worker'[t].at = next /\ worker'[t].job = worker[t].job
         /\ \A u \in Thread : worker'[u] # None => u = t
         /\ sBusy /\ WorkerInv(t) /\ worker[t].at = here /\ worker[t] \in Work
  <1>1. TypeOK /\ sBusy /\ worker[t] \in Work /\ \A u \in Thread : worker[u] # None => u = t
    BY DEF IInv, OneJobAtATime, At, TypeOK
  <1>2. WorkerInv(t) /\ worker[t].at = here
    BY DEF IInv, At
  <1> QED BY <1>1, <1>2, GoesType

LEMMA WorkerStep ==
  ASSUME IInv, NEW t \in Thread, WorkerMain(t)
  PROVE  IInv'
  <1> USE DEF CheckPlaces, InstallPlaces, LastPlaces, ui, disk
  <1> DEFINE Only(next) == /\ worker' \in [Thread -> Work \cup {None}]
                           /\ worker'[t] # None /\ worker'[t].at = next /\ worker'[t].job = worker[t].job
                           /\ \A u \in Thread : worker'[u] # None => u = t
                           /\ sBusy /\ WorkerInv(t)
  <1>0. TypeOK /\ OneJobAtATime /\ AskMeansAvailable /\ (~ CloseMayFail => KeptCiaIsThere)
    BY DEF IInv
  <1>1. CASE DoCheck(t)
    <2>1. ASSUME Goes(t, "checkNet") PROVE Only("checkNet") /\ worker[t].at = "check"
      BY <1>1, <2>1, Advance DEF DoCheck
    <2>2. ASSUME Goes(t, "report") PROVE Only("report") /\ worker[t].at = "check"
      BY <1>1, <2>2, Advance DEF DoCheck
    <2>3. TypeOK'
      BY <1>0, <1>1, <2>1, <2>2 DEF DoCheck, TypeOK, States, Prompts
    <2>4. OneJobAtATime'
      BY <1>0, <1>1, <2>1, <2>2 DEF DoCheck, OneJobAtATime, WorkerInv
    <2>5. AskMeansAvailable' /\ (~ CloseMayFail => KeptCiaIsThere')
      BY <1>0, <1>1, <2>1, <2>2 DEF DoCheck, AskMeansAvailable, KeptCiaIsThere, WorkerInv
    <2>6. \A u \in Thread : worker'[u] # None => WorkerInv(u)'
      BY <1>0, <1>1, <2>1, <2>2 DEF DoCheck, WorkerInv
    <2> QED BY <2>3, <2>4, <2>5, <2>6 DEF IInv
  <1>2. CASE CheckConnects(t)
    <2>1. ASSUME Goes(t, "checkAnswer") PROVE Only("checkAnswer") /\ worker[t].at = "checkNet"
      BY <1>2, <2>1, Advance DEF CheckConnects
    <2>2. ASSUME Goes(t, "report") PROVE Only("report") /\ worker[t].at = "checkNet"
      BY <1>2, <2>2, Advance DEF CheckConnects
    <2>3. TypeOK'
      BY <1>0, <1>2, <2>1, <2>2 DEF CheckConnects, SocketsUp, TypeOK, States, Prompts
    <2>4. OneJobAtATime'
      BY <1>0, <1>2, <2>1, <2>2 DEF CheckConnects, SocketsUp, OneJobAtATime, WorkerInv
    <2>5. AskMeansAvailable' /\ (~ CloseMayFail => KeptCiaIsThere')
      BY <1>0, <1>2, <2>1, <2>2 DEF CheckConnects, SocketsUp, AskMeansAvailable, KeptCiaIsThere, WorkerInv
    <2>6. \A u \in Thread : worker'[u] # None => WorkerInv(u)'
      BY <1>0, <1>2, <2>1, <2>2 DEF CheckConnects, SocketsUp, WorkerInv
    <2> QED BY <2>3, <2>4, <2>5, <2>6 DEF IInv
  <1>3. CASE CheckAnswered(t)
    <2>1. ASSUME Goes(t, "report") PROVE Only("report") /\ worker[t].at = "checkAnswer"
      BY <1>3, <2>1, Advance DEF CheckAnswered
    <2>2. ASSUME Goes(t, "raise") PROVE Only("raise") /\ worker[t].at = "checkAnswer"
      BY <1>3, <2>2, Advance DEF CheckAnswered
    <2>3. TypeOK'
      BY <1>0, <1>3, <2>1, <2>2 DEF CheckAnswered, TypeOK, States, Prompts
    <2>4. OneJobAtATime'
      BY <1>0, <1>3, <2>1, <2>2 DEF CheckAnswered, OneJobAtATime, WorkerInv
    <2>5. AskMeansAvailable' /\ (~ CloseMayFail => KeptCiaIsThere')
      BY <1>0, <1>3, <2>1, <2>2 DEF CheckAnswered, AskMeansAvailable, KeptCiaIsThere, WorkerInv
    <2>6. \A u \in Thread : worker'[u] # None => WorkerInv(u)'
      BY <1>0, <1>3, <2>1, <2>2 DEF CheckAnswered, WorkerInv
    <2> QED BY <2>3, <2>4, <2>5, <2>6 DEF IInv
  <1>4. CASE RaisePrompt(t)
    <2>1. ASSUME Goes(t, "report") PROVE Only("report") /\ worker[t].at = "raise"
      BY <1>4, <2>1, Advance DEF RaisePrompt
    <2>2. TypeOK'
      BY <1>0, <1>4, <2>1 DEF RaisePrompt, TypeOK, States, Prompts
    <2>3. OneJobAtATime'
      BY <1>0, <1>4, <2>1 DEF RaisePrompt, OneJobAtATime, WorkerInv
    <2>4. AskMeansAvailable' /\ (~ CloseMayFail => KeptCiaIsThere')
      BY <1>0, <1>4, <2>1 DEF RaisePrompt, AskMeansAvailable, KeptCiaIsThere, WorkerInv
    <2>5. \A u \in Thread : worker'[u] # None => WorkerInv(u)'
      BY <1>0, <1>4, <2>1 DEF RaisePrompt, WorkerInv
    <2> QED BY <2>2, <2>3, <2>4, <2>5 DEF IInv
  <1>5. CASE DoInstall(t)
    <2>1. ASSUME Goes(t, "getNet") PROVE Only("getNet") /\ worker[t].at = "install"
      BY <1>5, <2>1, Advance DEF DoInstall
    <2>2. TypeOK'
      BY <1>0, <1>5, <2>1 DEF DoInstall, TypeOK, States, Prompts
    <2>3. OneJobAtATime'
      BY <1>0, <1>5, <2>1 DEF DoInstall, OneJobAtATime, WorkerInv
    <2>4. AskMeansAvailable' /\ (~ CloseMayFail => KeptCiaIsThere')
      BY <1>0, <1>5, <2>1 DEF DoInstall, AskMeansAvailable, KeptCiaIsThere, WorkerInv
    <2>5. \A u \in Thread : worker'[u] # None => WorkerInv(u)'
      BY <1>0, <1>5, <2>1 DEF DoInstall, WorkerInv
    <2> QED BY <2>2, <2>3, <2>4, <2>5 DEF IInv
  <1>6. CASE InstallConnects(t)
    <2>1. ASSUME Goes(t, "download") PROVE Only("download") /\ worker[t].at = "getNet"
      BY <1>6, <2>1, Advance DEF InstallConnects
    <2>2. ASSUME Goes(t, "discard") PROVE Only("discard") /\ worker[t].at = "getNet"
      BY <1>6, <2>2, Advance DEF InstallConnects
    <2>3. TypeOK'
      BY <1>0, <1>6, <2>1, <2>2 DEF InstallConnects, SocketsUp, TypeOK, States, Prompts
    <2>4. OneJobAtATime'
      BY <1>0, <1>6, <2>1, <2>2 DEF InstallConnects, SocketsUp, OneJobAtATime, WorkerInv
    <2>5. AskMeansAvailable' /\ (~ CloseMayFail => KeptCiaIsThere')
      BY <1>0, <1>6, <2>1, <2>2 DEF InstallConnects, SocketsUp, AskMeansAvailable, KeptCiaIsThere, WorkerInv
    <2>6. \A u \in Thread : worker'[u] # None => WorkerInv(u)'
      BY <1>0, <1>6, <2>1, <2>2 DEF InstallConnects, SocketsUp, WorkerInv
    <2> QED BY <2>3, <2>4, <2>5, <2>6 DEF IInv
  <1>7. CASE DownloadBegins(t)
    <2>1. ASSUME Goes(t, "close") PROVE Only("close") /\ worker[t].at = "download"
      BY <1>7, <2>1, Advance DEF DownloadBegins
    <2>2. ASSUME Goes(t, "discard") PROVE Only("discard") /\ worker[t].at = "download"
      BY <1>7, <2>2, Advance DEF DownloadBegins
    <2>3. TypeOK'
      BY <1>0, <1>7, <2>1, <2>2 DEF DownloadBegins, TypeOK, States, Prompts
    <2>4. OneJobAtATime'
      BY <1>0, <1>7, <2>1, <2>2 DEF DownloadBegins, OneJobAtATime, WorkerInv
    <2>5. AskMeansAvailable' /\ (~ CloseMayFail => KeptCiaIsThere')
      BY <1>0, <1>7, <2>1, <2>2 DEF DownloadBegins, AskMeansAvailable, KeptCiaIsThere, WorkerInv
    <2>6. \A u \in Thread : worker'[u] # None => WorkerInv(u)'
      BY <1>0, <1>7, <2>1, <2>2 DEF DownloadBegins, WorkerInv
    <2> QED BY <2>3, <2>4, <2>5, <2>6 DEF IInv
  <1>8. CASE DownloadEnds(t)
    <2>1. ASSUME Goes(t, "am") PROVE Only("am") /\ worker[t].at = "close"
      BY <1>8, <2>1, Advance DEF DownloadEnds
    <2>2. ASSUME Goes(t, "discard") PROVE Only("discard") /\ worker[t].at = "close"
      BY <1>8, <2>2, Advance DEF DownloadEnds
    <2>3. TypeOK'
      BY <1>0, <1>8, <2>1, <2>2 DEF DownloadEnds, TypeOK, States, Prompts
    <2>4. OneJobAtATime'
      BY <1>0, <1>8, <2>1, <2>2 DEF DownloadEnds, OneJobAtATime, WorkerInv
    <2>5. AskMeansAvailable' /\ (~ CloseMayFail => KeptCiaIsThere')
      BY <1>0, <1>8, <2>1, <2>2 DEF DownloadEnds, AskMeansAvailable, KeptCiaIsThere, WorkerInv
    <2>6. \A u \in Thread : worker'[u] # None => WorkerInv(u)'
      BY <1>0, <1>8, <2>1, <2>2 DEF DownloadEnds, WorkerInv
    <2> QED BY <2>3, <2>4, <2>5, <2>6 DEF IInv
  <1>9. CASE DiscardDownload(t)
    <2>1. ASSUME Goes(t, "report") PROVE Only("report") /\ worker[t].at = "discard"
      BY <1>9, <2>1, Advance DEF DiscardDownload
    <2>2. TypeOK'
      BY <1>0, <1>9, <2>1 DEF DiscardDownload, TypeOK, States, Prompts
    <2>3. OneJobAtATime'
      BY <1>0, <1>9, <2>1 DEF DiscardDownload, OneJobAtATime, WorkerInv
    <2>4. AskMeansAvailable' /\ (~ CloseMayFail => KeptCiaIsThere')
      BY <1>0, <1>9, <2>1 DEF DiscardDownload, AskMeansAvailable, KeptCiaIsThere, WorkerInv
    <2>5. \A u \in Thread : worker'[u] # None => WorkerInv(u)'
      BY <1>0, <1>9, <2>1 DEF DiscardDownload, WorkerInv
    <2> QED BY <2>2, <2>3, <2>4, <2>5 DEF IInv
  <1>10. CASE AmInit(t)
    <2>1. ASSUME Goes(t, "overwrite") PROVE Only("overwrite") /\ worker[t].at = "am"
      BY <1>10, <2>1, Advance DEF AmInit
    <2>2. ASSUME Goes(t, "report") PROVE Only("report") /\ worker[t].at = "am"
      BY <1>10, <2>2, Advance DEF AmInit
    <2>3. TypeOK'
      BY <1>0, <1>10, <2>1, <2>2 DEF AmInit, TypeOK, States, Prompts
    <2>4. OneJobAtATime'
      BY <1>0, <1>10, <2>1, <2>2 DEF AmInit, OneJobAtATime, WorkerInv
    <2>5. AskMeansAvailable' /\ (~ CloseMayFail => KeptCiaIsThere')
      BY <1>0, <1>10, <2>1, <2>2 DEF AmInit, AskMeansAvailable, KeptCiaIsThere, WorkerInv
    <2>6. \A u \in Thread : worker'[u] # None => WorkerInv(u)'
      BY <1>0, <1>10, <2>1, <2>2 DEF AmInit, WorkerInv
    <2> QED BY <2>3, <2>4, <2>5, <2>6 DEF IInv
  <1>11. CASE InstallOverwrite(t)
    <2>1. ASSUME Goes(t, "installed") PROVE Only("installed") /\ worker[t].at = "overwrite"
      BY <1>11, <2>1, Advance DEF InstallOverwrite
    <2>2. ASSUME Goes(t, "delete") PROVE Only("delete") /\ worker[t].at = "overwrite"
      BY <1>11, <2>2, Advance DEF InstallOverwrite
    <2>3. TypeOK'
      BY <1>0, <1>11, <2>1, <2>2 DEF InstallOverwrite, InstallFromFile, TypeOK, States, Prompts
    <2>4. OneJobAtATime'
      BY <1>0, <1>11, <2>1, <2>2 DEF InstallOverwrite, InstallFromFile, OneJobAtATime, WorkerInv
    <2>5. AskMeansAvailable' /\ (~ CloseMayFail => KeptCiaIsThere')
      BY <1>0, <1>11, <2>1, <2>2 DEF InstallOverwrite, InstallFromFile, AskMeansAvailable, KeptCiaIsThere, WorkerInv
    <2>6. \A u \in Thread : worker'[u] # None => WorkerInv(u)'
      BY <1>0, <1>11, <2>1, <2>2 DEF InstallOverwrite, InstallFromFile, WorkerInv
    <2> QED BY <2>3, <2>4, <2>5, <2>6 DEF IInv
  <1>12. CASE DeleteTitle(t)
    <2>1. ASSUME Goes(t, "fresh") PROVE Only("fresh") /\ worker[t].at = "delete"
      BY <1>12, <2>1, Advance DEF DeleteTitle
    <2>2. ASSUME Goes(t, "keep") PROVE Only("keep") /\ worker[t].at = "delete"
      BY <1>12, <2>2, Advance DEF DeleteTitle
    <2>3. TypeOK'
      BY <1>0, <1>12, <2>1, <2>2 DEF DeleteTitle, TypeOK, States, Prompts
    <2>4. OneJobAtATime'
      BY <1>0, <1>12, <2>1, <2>2 DEF DeleteTitle, OneJobAtATime, WorkerInv
    <2>5. AskMeansAvailable' /\ (~ CloseMayFail => KeptCiaIsThere')
      BY <1>0, <1>12, <2>1, <2>2 DEF DeleteTitle, AskMeansAvailable, KeptCiaIsThere, WorkerInv
    <2>6. \A u \in Thread : worker'[u] # None => WorkerInv(u)'
      BY <1>0, <1>12, <2>1, <2>2 DEF DeleteTitle, WorkerInv
    <2> QED BY <2>3, <2>4, <2>5, <2>6 DEF IInv
  <1>13. CASE InstallFresh(t)
    <2>1. ASSUME Goes(t, "installed") PROVE Only("installed") /\ worker[t].at = "fresh"
      BY <1>13, <2>1, Advance DEF InstallFresh
    <2>2. ASSUME Goes(t, "keep") PROVE Only("keep") /\ worker[t].at = "fresh"
      BY <1>13, <2>2, Advance DEF InstallFresh
    <2>3. TypeOK'
      BY <1>0, <1>13, <2>1, <2>2 DEF InstallFresh, InstallFromFile, TypeOK, States, Prompts
    <2>4. OneJobAtATime'
      BY <1>0, <1>13, <2>1, <2>2 DEF InstallFresh, InstallFromFile, OneJobAtATime, WorkerInv
    <2>5. AskMeansAvailable' /\ (~ CloseMayFail => KeptCiaIsThere')
      BY <1>0, <1>13, <2>1, <2>2 DEF InstallFresh, InstallFromFile, AskMeansAvailable, KeptCiaIsThere, WorkerInv
    <2>6. \A u \in Thread : worker'[u] # None => WorkerInv(u)'
      BY <1>0, <1>13, <2>1, <2>2 DEF InstallFresh, InstallFromFile, WorkerInv
    <2> QED BY <2>3, <2>4, <2>5, <2>6 DEF IInv
  <1>14. CASE KeepCia(t)
    <2>1. ASSUME Goes(t, "report") PROVE Only("report") /\ worker[t].at = "keep"
      BY <1>14, <2>1, Advance DEF KeepCia
    <2>2. TypeOK'
      BY <1>0, <1>14, <2>1 DEF KeepCia, TypeOK, States, Prompts
    <2>3. OneJobAtATime'
      BY <1>0, <1>14, <2>1 DEF KeepCia, OneJobAtATime, WorkerInv
    <2>4. AskMeansAvailable' /\ (~ CloseMayFail => KeptCiaIsThere')
      BY <1>0, <1>14, <2>1 DEF KeepCia, AskMeansAvailable, KeptCiaIsThere, WorkerInv
    <2>5. \A u \in Thread : worker'[u] # None => WorkerInv(u)'
      BY <1>0, <1>14, <2>1 DEF KeepCia, WorkerInv
    <2> QED BY <2>2, <2>3, <2>4, <2>5 DEF IInv
  <1>15. CASE InstallDone(t)
    <2>1. ASSUME Goes(t, "askRestart") PROVE Only("askRestart") /\ worker[t].at = "installed"
      BY <1>15, <2>1, Advance DEF InstallDone
    <2>2. TypeOK'
      BY <1>0, <1>15, <2>1 DEF InstallDone, TypeOK, States, Prompts
    <2>3. OneJobAtATime'
      BY <1>0, <1>15, <2>1 DEF InstallDone, OneJobAtATime, WorkerInv
    <2>4. AskMeansAvailable' /\ (~ CloseMayFail => KeptCiaIsThere')
      BY <1>0, <1>15, <2>1 DEF InstallDone, AskMeansAvailable, KeptCiaIsThere, WorkerInv
    <2>5. \A u \in Thread : worker'[u] # None => WorkerInv(u)'
      BY <1>0, <1>15, <2>1 DEF InstallDone, WorkerInv
    <2> QED BY <2>2, <2>3, <2>4, <2>5 DEF IInv
  <1>16. CASE AskRestart(t)
    <2>1. ASSUME Goes(t, "report") PROVE Only("report") /\ worker[t].at = "askRestart"
      BY <1>16, <2>1, Advance DEF AskRestart
    <2>2. TypeOK'
      BY <1>0, <1>16, <2>1 DEF AskRestart, TypeOK, States, Prompts
    <2>3. OneJobAtATime'
      BY <1>0, <1>16, <2>1 DEF AskRestart, OneJobAtATime, WorkerInv
    <2>4. AskMeansAvailable' /\ (~ CloseMayFail => KeptCiaIsThere')
      BY <1>0, <1>16, <2>1 DEF AskRestart, AskMeansAvailable, KeptCiaIsThere, WorkerInv
    <2>5. \A u \in Thread : worker'[u] # None => WorkerInv(u)'
      BY <1>0, <1>16, <2>1 DEF AskRestart, WorkerInv
    <2> QED BY <2>2, <2>3, <2>4, <2>5 DEF IInv
  <1>17. CASE Report(t)
    <2>1. ASSUME Goes(t, "down") PROVE Only("down") /\ worker[t].at = "report"
      BY <1>17, <2>1, Advance DEF Report
    <2>2. TypeOK'
      BY <1>0, <1>17, <2>1 DEF Report, TypeOK, States, Prompts
    <2>3. OneJobAtATime'
      BY <1>0, <1>17, <2>1 DEF Report, OneJobAtATime, WorkerInv
    <2>4. AskMeansAvailable' /\ (~ CloseMayFail => KeptCiaIsThere')
      BY <1>0, <1>17, <2>1 DEF Report, AskMeansAvailable, KeptCiaIsThere, WorkerInv
    <2>5. \A u \in Thread : worker'[u] # None => WorkerInv(u)'
      BY <1>0, <1>17, <2>1 DEF Report, WorkerInv
    <2> QED BY <2>2, <2>3, <2>4, <2>5 DEF IInv
  <1>18. CASE SocketsDown(t)
    <2>1. ASSUME Goes(t, "end") PROVE Only("end") /\ worker[t].at = "down"
      BY <1>18, <2>1, Advance DEF SocketsDown
    <2>2. TypeOK'
      BY <1>0, <1>18, <2>1 DEF SocketsDown, TypeOK, States, Prompts
    <2>3. OneJobAtATime'
      BY <1>0, <1>18, <2>1 DEF SocketsDown, OneJobAtATime, WorkerInv
    <2>4. AskMeansAvailable' /\ (~ CloseMayFail => KeptCiaIsThere')
      BY <1>0, <1>18, <2>1 DEF SocketsDown, AskMeansAvailable, KeptCiaIsThere, WorkerInv
    <2>5. \A u \in Thread : worker'[u] # None => WorkerInv(u)'
      BY <1>0, <1>18, <2>1 DEF SocketsDown, WorkerInv
    <2> QED BY <2>2, <2>3, <2>4, <2>5 DEF IInv
  <1>19. CASE WorkerEnds(t)
    <2>1. /\ At(t, "end") /\ sBusy' = FALSE /\ worker' = [worker EXCEPT ![t] = None]
          /\ UNCHANGED <<sState, sPrompt, quit, sKeptCia, sNetUp, cia, title>>
      BY <1>19 DEF WorkerEnds
    <2>2. worker[t] # None /\ WorkerInv(t) /\ worker[t].at = "end"
      BY <2>1 DEF At, IInv
    <2>3. \A u \in Thread : worker'[u] = None
      BY <1>0, <2>1, <2>2 DEF OneJobAtATime, TypeOK
    <2>4. ~ sNetUp
      BY <2>2 DEF WorkerInv
    <2> QED
      BY <1>0, <2>1, <2>3, <2>4 DEF IInv, TypeOK, OneJobAtATime, AskMeansAvailable, KeptCiaIsThere
  <1> QED
    BY <1>1, <1>2, <1>3, <1>4, <1>5, <1>6, <1>7, <1>8, <1>9, <1>10, <1>11, <1>12, <1>13, <1>14,
       <1>15, <1>16, <1>17, <1>18, <1>19 DEF WorkerMain

\* A touch answers a prompt or, with none up, starts a job when there is no worker.
LEMMA StartStep ==
  ASSUME IInv, NEW job \in Jobs, StartJob(job), UNCHANGED <<sKeptCia, sNetUp, cia, title>>,
         quit' \in BOOLEAN, sPrompt' \in Prompts \ {"ASK_INSTALL"}, sPrompt' = "PROGRESS" => job = "INSTALL",
         sBusy => \/ sPrompt' = "NONE"
                  \/ /\ sState = "AVAILABLE"
                     /\ \A t \in Thread : worker[t] # None => worker[t].at \in LastPlaces
  PROVE  IInv'
  <1> USE DEF IInv, WorkerInv, TypeOK, OneJobAtATime, AskMeansAvailable, KeptCiaIsThere,
              States, Prompts, CheckPlaces, InstallPlaces, LastPlaces
  <1>1. CASE sBusy
    BY <1>1 DEF StartJob
  <1>2. CASE ~ sBusy /\ sState' = "ERROR" /\ UNCHANGED <<sBusy, worker>>
    BY <1>2
  <1>3. CASE ~ sBusy /\ sBusy' = TRUE /\ UNCHANGED sState
    <2>1. PICK t \in Thread : worker[t] = None /\ worker' = [worker EXCEPT ![t] = Running(job, First(job))]
      BY <1>3 DEF StartJob
    <2>2. Running(job, First(job)) \in Work /\ First(job) \in {"install", "check"}
          /\ (First(job) = "install" <=> job = "INSTALL")
      BY DEF Running, First, Work, Places, Jobs
    <2>3. /\ worker'[t] # None /\ worker'[t].at = First(job) /\ worker'[t].job = job
          /\ \A u \in Thread : u # t => worker'[u] = None
          /\ worker' \in [Thread -> Work \cup {None}]
      BY <1>3, <2>1, <2>2, WorkNotNone DEF Running
    <2> QED BY <1>3, <2>2, <2>3
  <1> QED BY <1>1, <1>2, <1>3 DEF StartJob

LEMMA TouchStep ==
  ASSUME IInv, Touch
  PROVE  IInv'
  <1> DEFINE Kept == UNCHANGED <<sKeptCia, sNetUp, cia, title>>
             Calm == UNCHANGED <<sState, sBusy, worker>>
  <1>1. ASSUME Kept, Calm, quit' \in BOOLEAN, sPrompt' \in {sPrompt, "NONE"}
        PROVE  IInv'
    BY <1>1 DEF IInv, WorkerInv, TypeOK, OneJobAtATime, AskMeansAvailable, KeptCiaIsThere, Prompts
  <1>2. TypeOK /\ quit \in BOOLEAN /\ sPrompt \in Prompts
    BY DEF IInv, TypeOK
  <1>3. ASSUME sPrompt = "ASK_INSTALL", sPrompt' = "PROGRESS", Port_Updater_Install, UNCHANGED quit, Kept
        PROVE  IInv'
    <2>1. sState = "AVAILABLE" /\ \A t \in Thread : worker[t] # None => worker[t].at \in LastPlaces
      BY <1>3 DEF IInv, WorkerInv, AskMeansAvailable
    <2> QED BY <1>2, <1>3, <2>1, StartStep DEF Port_Updater_Install, Prompts, Jobs
  <1>4. CASE \E yes \in BOOLEAN : AnswerPrompt(yes)
    BY <1>1, <1>2, <1>3, <1>4 DEF AnswerPrompt, disk
  <1>5. CASE UpdateButton
    <2>1. sPrompt = "NONE" /\ sPrompt' = "NONE" /\ Kept
      BY <1>5 DEF UpdateButton, disk
    <2>2. CASE StartJob("CHECK") /\ UNCHANGED quit
      <3>1. quit' \in BOOLEAN /\ sPrompt' \in Prompts \ {"ASK_INSTALL"} /\ "CHECK" \in Jobs
        BY <1>2, <2>1, <2>2 DEF Prompts, Jobs
      <3> QED BY <2>1, <2>2, <3>1, StartStep
    <2>3. CASE Port_Updater_Install /\ UNCHANGED quit
      BY <1>1, <1>2, <2>1, <2>3, StartStep DEF Port_Updater_Install, Prompts, Jobs
    <2> QED BY <1>1, <1>5, <2>1, <2>2, <2>3 DEF UpdateButton
  <1> QED BY <1>4, <1>5 DEF Touch

LEMMA FirstJobs ==
  ASSUME NEW w \in FirstJob
  PROVE  /\ w \in [Thread -> Work \cup {None}]
         /\ \A t, u \in Thread : w[t] # None /\ w[u] # None => t = u
         /\ \A t \in Thread : w[t] # None => w[t].job = "AUTO_CHECK" /\ w[t].at = "check"
  <1>1. PICK first \in Thread, sAuto \in BOOLEAN :
          w = [t \in Thread |-> IF sAuto /\ t = first THEN Running("AUTO_CHECK", "check") ELSE None]
    BY DEF FirstJob
  <1>2. Running("AUTO_CHECK", "check") \in Work
    BY DEF Running, Work, Places, CheckPlaces, InstallPlaces, LastPlaces, Jobs
  <1>3. Running("AUTO_CHECK", "check") # None
    BY <1>2, WorkNotNone
  <1> QED BY <1>1, <1>2, <1>3 DEF Running

LEMMA BootStep ==
  ASSUME IInv, Restart
  PROVE  IInv'
  <1>1. worker' \in FirstJob
    BY DEF Restart
  <1> QED
    BY <1>1, FirstJobs, UpdaterAssumption
    DEF Restart, IInv, WorkerInv, TypeOK, OneJobAtATime, AskMeansAvailable, KeptCiaIsThere, States,
        Prompts, CheckPlaces, InstallPlaces, LastPlaces

LEMMA InvStep ==
  ASSUME IInv, [Next]_vars
  PROVE  IInv'
  <1>1. ASSUME UNCHANGED vars PROVE IInv'
    BY <1>1 DEF vars, IInv, WorkerInv, TypeOK, OneJobAtATime, AskMeansAvailable, KeptCiaIsThere
  <1> QED BY <1>1, WorkerStep, TouchStep, BootStep DEF Next

LEMMA FirstInv ==
  ASSUME Init
  PROVE  IInv
  <1>1. TypeOK
    BY FirstJobs, UpdaterAssumption DEF Init, TypeOK, States, Prompts
  <1>2. OneJobAtATime /\ AskMeansAvailable /\ KeptCiaIsThere
    BY <1>1, FirstJobs DEF Init, OneJobAtATime, AskMeansAvailable, KeptCiaIsThere
  <1>3. ASSUME NEW t \in Thread, worker[t] # None PROVE WorkerInv(t)
    BY <1>3, FirstJobs DEF Init, WorkerInv, InstallPlaces
  <1> QED BY <1>1, <1>2, <1>3 DEF IInv

\* The updater's state stays in order whatever fails and whenever it is closed.
THEOREM InOrder == Spec => []IInv
  BY FirstInv, InvStep, PTL DEF Spec

\* Every variable keeps to its type.
THEOREM Typed == Spec => []TypeOK
  BY InOrder, PTL DEF IInv

\* There is never a second worker, and none holds the sockets after its job.
THEOREM OneJob == Spec => []OneJobAtATime
  BY InOrder, PTL DEF IInv

\* An install question that is on the screen finds the state for YES, and nothing in its way but
\* the end of the thread that asked it (WorkerMain).
THEOREM AskAvailable == Spec => [](AskMeansAvailable /\ AskIsRefusedByItsCheckOnly)
  <1>1. IInv => AskMeansAvailable /\ AskIsRefusedByItsCheckOnly
    BY DEF IInv, WorkerInv, AskIsRefusedByItsCheckOnly
  <1> QED BY <1>1, InOrder, PTL

\* ... and the prompt names the kept CIA only when it is on the card, whole.
THEOREM PromptTrue ==
  ASSUME CloseMayFail = FALSE
  PROVE  Spec => []PromptIsTrue
  <1>1. IInv => PromptIsTrue
    BY DEF IInv, WorkerInv, AskIsRefusedByItsCheckOnly, PromptIsTrue
  <1> QED BY <1>1, InOrder, PTL

\* The installed title is deleted only with its replacement whole on the card.
THEOREM TitleDeleted ==
  ASSUME CloseMayFail = FALSE
  PROVE  Spec => TitleDeletedOnlyWithCia
  <1> DEFINE Safe == title # "none" /\ title' = "none" => cia = "whole"
  <1>1. IInv /\ [Next]_vars => Safe
    <2>1. ASSUME IInv, NEW t \in Thread, DeleteTitle(t) PROVE cia = "whole"
      BY <2>1 DEF IInv, WorkerInv, DeleteTitle, At
    <2>2. ASSUME NEW t \in Thread, WorkerMain(t) PROVE DeleteTitle(t) \/ title' \in {title, "new"}
      <3> USE DEF ui, disk
      <3>1. CASE DoCheck(t) \/ CheckConnects(t) \/ CheckAnswered(t) \/ RaisePrompt(t) \/ DoInstall(t)
        BY <3>1 DEF DoCheck, CheckConnects, CheckAnswered, RaisePrompt, DoInstall
      <3>2. CASE \/ InstallConnects(t) \/ DownloadBegins(t) \/ DownloadEnds(t) \/ DiscardDownload(t)
                 \/ AmInit(t) \/ KeepCia(t) \/ InstallDone(t)
        BY <3>2 DEF InstallConnects, DownloadBegins, DownloadEnds, DiscardDownload, AmInit, KeepCia, InstallDone
      <3>3. CASE InstallOverwrite(t) \/ InstallFresh(t)
        BY <3>3 DEF InstallOverwrite, InstallFresh, InstallFromFile
      <3>4. CASE AskRestart(t) \/ Report(t) \/ SocketsDown(t) \/ WorkerEnds(t)
        BY <3>4 DEF AskRestart, Report, SocketsDown, WorkerEnds
      <3> QED BY <2>2, <3>1, <3>2, <3>3, <3>4 DEF WorkerMain
    <2>3. ASSUME Touch \/ Restart \/ UNCHANGED vars PROVE title' # "none" \/ title' = title
      BY <2>3 DEF Touch, UpdateButton, AnswerPrompt, Restart, vars, disk
    <2> QED BY <2>1, <2>2, <2>3 DEF Next
  <1>2. IInv /\ [Next]_vars => [Safe]_vars
    BY <1>1
  <1> QED BY <1>2, InOrder, PTL DEF Spec, TitleDeletedOnlyWithCia

(***************************************************************************)
(* Releases and UpdateReleases, for all version numbers, all lists the     *)
(* server may answer and all builds to begin with.                         *)
(***************************************************************************)

LEMMA NumberParts ==
  ASSUME NEW m \in Number
  PROVE  m[1] \in Nat /\ m[2] \in Nat /\ m[3] \in Nat /\ m = <<m[1], m[2], m[3]>>
  BY DEF Number

\* The loop over the three numbers is the lexicographic order.
LEMMA BelowIsLexicographic ==
  ASSUME NEW m \in Number, NEW n \in Number
  PROVE  Below(m, n) <=> \/ m[1] < n[1]
                         \/ m[1] = n[1] /\ m[2] < n[2]
                         \/ m[1] = n[1] /\ m[2] = n[2] /\ m[3] < n[3]
  <1> DEFINE DiffersAt(i) == m[i] < n[i] /\ \A j \in 1 .. 3 : j < i => m[j] = n[j]
  <1>1. Below(m, n) <=> DiffersAt(1) \/ DiffersAt(2) \/ DiffersAt(3)
    BY 1 .. 3 = {1, 2, 3} DEF Below
  <1>2. DiffersAt(1) <=> m[1] < n[1]
    BY 1 .. 3 = {1, 2, 3}
  <1>3. DiffersAt(2) <=> m[1] = n[1] /\ m[2] < n[2]
    BY 1 .. 3 = {1, 2, 3}
  <1>4. DiffersAt(3) <=> m[1] = n[1] /\ m[2] = n[2] /\ m[3] < n[3]
    BY 1 .. 3 = {1, 2, 3}
  <1> QED BY <1>1, <1>2, <1>3, <1>4

LEMMA Stages ==
  ASSUME NEW build \in Build, NEW release \in Release
  PROVE  BuildStage(build) \in {0, 1, 2} /\ ReleaseStage(release) \in {0, 1, 2}
  BY DEF BuildStage, ReleaseStage

\* Updater_IsNewerBuild is the order it is meant to be.
THEOREM NewerIsAfter ==
  ASSUME NEW build \in Build, NEW release \in Release
  PROVE  IsNewerBuild(build, release) <=> ReleaseAfter(build, release)
  <1>1. CASE ~ Parses(release)
    BY <1>1 DEF IsNewerBuild, IsNewer, ReleaseAfter
  <1>2. CASE Parses(release)
    <2>1. build.number \in Number /\ release.number \in Number /\ Parses(build)
      BY <1>2, ReleasesAssumption DEF Parses, Build, Release
    <2>2. build.dev \in BOOLEAN /\ build.beta \in BOOLEAN
          /\ release.dev \in BOOLEAN /\ release.prerelease \in BOOLEAN
      BY DEF Build, Release
    <2> DEFINE same == build.number = release.number
               below == Below(build.number, release.number)
    <2>3. IsNewerBuild(build, release) <=>
            \/ below
            \/ same /\ (\/ build.dev /\ ~ release.dev
                        \/ build.beta /\ ~ release.prerelease /\ ~ build.dev /\ ~ release.dev)
      BY <1>2, <2>1 DEF IsNewerBuild, IsNewer
    <2>4. (BuildStage(build) < ReleaseStage(release)) <=>
            \/ build.dev /\ ~ release.dev
            \/ build.beta /\ ~ release.prerelease /\ ~ build.dev /\ ~ release.dev
      BY <2>2 DEF BuildStage, ReleaseStage
    <2>5. ReleaseAfter(build, release) <=> below \/ (same /\ BuildStage(build) < ReleaseStage(release))
      BY <1>2, <2>1, BelowIsLexicographic DEF ReleaseAfter, Before
    <2> QED BY <2>3, <2>4, <2>5
  <1> QED BY <1>1, <1>2

\* The line the builds stand in is one: no build comes before itself, and what comes before
\* the one before comes before.  So updates end: no build is ever met again.
THEOREM BuildsAreInLine ==
  ASSUME NEW a \in Build, NEW b \in Build, NEW c \in Build
  PROVE  /\ ~ BuildBefore(a, a)
         /\ BuildBefore(a, b) /\ BuildBefore(b, c) => BuildBefore(a, c)
  <1>1. a.number \in Number /\ b.number \in Number /\ c.number \in Number
    BY DEF Build
  <1>2. BuildStage(a) \in {0, 1, 2} /\ BuildStage(b) \in {0, 1, 2} /\ BuildStage(c) \in {0, 1, 2}
    BY DEF BuildStage
  <1>3. ~ BuildBefore(a, a)
    BY <1>1, <1>2, NumberParts DEF BuildBefore, Before
  <1>4. ASSUME BuildBefore(a, b), BuildBefore(b, c) PROVE BuildBefore(a, c)
    BY <1>1, <1>2, <1>4, NumberParts DEF BuildBefore, Before
  <1> QED BY <1>3, <1>4

\* A build that is made for a release comes after whatever the release comes after.
LEMMA BuiltForComesAfter ==
  ASSUME NEW build \in Build, NEW release \in Release, ReleaseAfter(build, release),
         NEW b \in BuiltFor(release)
  PROVE  b \in Build /\ BuildBefore(build, b)
  <1>1. PICK beta \in {release.prerelease, FALSE} :
          b = [number |-> release.number, dev |-> release.dev, beta |-> beta]
    BY DEF BuiltFor
  <1>2. release.number \in Number /\ release.dev \in BOOLEAN /\ release.prerelease \in BOOLEAN
    BY DEF Release, ReleaseAfter, Parses
  <1>3. b \in Build
    BY <1>1, <1>2 DEF Build
  <1>4. b.number = release.number /\ ReleaseStage(release) <= BuildStage(b)
    <2>1. b.number = release.number /\ b.dev = release.dev /\ b.beta = beta
      BY <1>1
    <2>2. beta \in BOOLEAN /\ (beta => release.prerelease)
      BY <1>1, <1>2
    <2>3. CASE release.dev
      BY <2>1, <2>3 DEF BuildStage, ReleaseStage
    <2>4. CASE ~ release.dev /\ beta
      BY <2>1, <2>2, <2>4 DEF BuildStage, ReleaseStage
    <2>5. CASE ~ release.dev /\ ~ beta
      BY <2>1, <2>5 DEF BuildStage, ReleaseStage
    <2> QED BY <1>2, <2>1, <2>2, <2>3, <2>4, <2>5
  <1>5. BuildStage(build) \in {0, 1, 2} /\ ReleaseStage(release) \in {0, 1, 2} /\ BuildStage(b) \in {0, 1, 2}
    BY DEF BuildStage, ReleaseStage
  <1> QED BY <1>3, <1>4, <1>5 DEF ReleaseAfter, BuildBefore, Before

\* What is picked of a list is a release of it, and eligible.
LEMMA Picked ==
  ASSUME NEW list \in Seq(Release), NEW allowBeta, NEW release \in PickRelease(list, allowBeta)
  PROVE  /\ release \in Release
         /\ \E k \in 1 .. Len(list) : /\ release = list[k] /\ Eligible(list[k], allowBeta)
                                      /\ \A j \in 1 .. k - 1 : ~ Eligible(list[j], allowBeta)
  BY DEF PickRelease

\* Places in the line: what is before one place is before every place that is not.
LEMMA PlacesAreInLine ==
  ASSUME NEW m \in Number, NEW n \in Number, NEW o \in Number,
         NEW i \in {0, 1, 2}, NEW j \in {0, 1, 2}, NEW k \in {0, 1, 2},
         Before(m, i, o, k), ~ Before(n, j, o, k)
  PROVE  Before(m, i, n, j)
  <1>1. m[1] \in Nat /\ m[2] \in Nat /\ m[3] \in Nat /\ m = <<m[1], m[2], m[3]>>
    BY NumberParts
  <1>2. n[1] \in Nat /\ n[2] \in Nat /\ n[3] \in Nat /\ n = <<n[1], n[2], n[3]>>
    BY NumberParts
  <1>3. o[1] \in Nat /\ o[2] \in Nat /\ o[3] \in Nat /\ o = <<o[1], o[2], o[3]>>
    BY NumberParts
  <1>4. /\ m = n <=> m[1] = n[1] /\ m[2] = n[2] /\ m[3] = n[3]
        /\ m = o <=> m[1] = o[1] /\ m[2] = o[2] /\ m[3] = o[3]
        /\ n = o <=> n[1] = o[1] /\ n[2] = o[2] /\ n[3] = o[3]
    BY <1>1, <1>2, <1>3
  <1> QED BY <1>1, <1>2, <1>3, <1>4 DEF Before

\* If the first eligible release of a list that is newest first is not newer, none is.
THEOREM FirstIsNewest ==
  ASSUME NEW list \in Seq(Release), NewestFirst(list), NEW allowBeta, NEW build \in Build,
         NEW release \in PickRelease(list, allowBeta), ~ IsNewerBuild(build, release)
  PROVE  \A i \in 1 .. Len(list) : Eligible(list[i], allowBeta) => ~ ReleaseAfter(build, list[i])
  <1> SUFFICES ASSUME NEW i \in 1 .. Len(list), Eligible(list[i], allowBeta), ReleaseAfter(build, list[i])
               PROVE  FALSE
    OBVIOUS
  <1>1. PICK k \in 1 .. Len(list) : /\ release = list[k]
                                    /\ \A j \in 1 .. k - 1 : ~ Eligible(list[j], allowBeta)
    BY Picked
  <1>2. list[i] \in Release /\ list[k] \in Release
    OBVIOUS
  <1>3. ~ ReleaseAfter(build, list[k])
    BY <1>1, <1>2, NewerIsAfter
  <1>4. k < i
    <2>1. k # i
      BY <1>3
    <2>2. ~ i \in 1 .. k - 1
      BY <1>1
    <2>3. k \in Nat /\ i \in Nat /\ 1 <= i
      OBVIOUS
    <2> QED BY <2>1, <2>2, <2>3
  <1>5. ~ Before(list[k].number, ReleaseStage(list[k]), list[i].number, ReleaseStage(list[i]))
        /\ Parses(list[i]) /\ Parses(list[k])
    BY <1>4 DEF NewestFirst
  <1>6. list[i].number \in Number /\ list[k].number \in Number /\ build.number \in Number
    BY <1>2, <1>5 DEF Parses, Release, Build
  <1>7. BuildStage(build) \in {0, 1, 2} /\ ReleaseStage(list[i]) \in {0, 1, 2} /\ ReleaseStage(list[k]) \in {0, 1, 2}
    BY DEF BuildStage, ReleaseStage
  <1> QED BY <1>3, <1>5, <1>6, <1>7, PlacesAreInLine DEF ReleaseAfter
-----------------------------------------------------------------------------
(* The updater with its releases. *)

\* The inductive invariant: an install has an offer that is newer, its download brings such a
\* build, and what stands in the title comes after what runs.
Offered == sRelease \in Release /\ ReleaseAfter(running, sRelease) /\ sRemoteTag = sRelease
Loaded == {"close", "am", "overwrite", "delete", "fresh"}
RInv ==
  /\ IInv /\ ReleasesTypeOK
  /\ sState = "AVAILABLE" => Offered
  /\ \A t \in Thread : worker[t] # None /\ worker[t].job = "INSTALL" =>
       /\ Offered
       /\ worker[t].at \in Loaded => BuildBefore(running, ciaBuild)
  /\ title = "new" => BuildBefore(running, newBuild)

\* Every step is a step of Updater, or of what it does not see.
LEMMA StepsOfUpdater ==
  ASSUME [ReleasesNext]_allVars
  PROVE  [Next]_vars
  <1>1. ASSUME NEW t \in Thread, Works(t) PROVE WorkerMain(t)
    BY <1>1 DEF Works, WorkerMain, ListComes, ReleaseIsPicked, CiaComes, TitleIsInstalled, OtherWork
  <1>2. TouchAnswers => Touch
    BY DEF TouchAnswers
  <1>3. StartsAgain => Restart
    BY DEF StartsAgain
  <1>4. SetBeta \/ UNCHANGED allVars => UNCHANGED vars
    BY DEF SetBeta, allVars
  <1> QED BY <1>1, <1>2, <1>3, <1>4 DEF ReleasesNext, Next

\* With its releases the updater is still one in the sense of Updater.
THEOREM ImplementsUpdater == ReleasesSpec => Spec
  <1>1. ReleasesInit => Init
    BY DEF ReleasesInit
  <1> QED BY <1>1, StepsOfUpdater, PTL DEF ReleasesSpec, Spec

\* Nobody else works, the job stays the same, and a download that is there stays there.
GoesOn(t) ==
  \A u \in Thread : worker'[u] # None =>
    /\ u = t /\ worker[t] # None /\ worker'[t].job = worker[t].job
    /\ worker'[t].at \in Loaded => worker[t].at \in Loaded

LEMMA StepGoesOn ==
  ASSUME IInv, NEW t \in Thread, NEW here, NEW next, At(t, here), Goes(t, next), UNCHANGED sBusy,
         \/ next \in LastPlaces
         \/ here \in CheckPlaces /\ next \in CheckPlaces
         \/ here \in InstallPlaces /\ next \in InstallPlaces,
         next \in Loaded => here \in Loaded
  PROVE  GoesOn(t) /\ worker[t] # None
  BY Advance DEF GoesOn, At

LEMMA OtherWorkGoesOn ==
  ASSUME IInv, NEW t \in Thread, OtherWork(t)
  PROVE  /\ GoesOn(t)
         /\ sState' = "AVAILABLE" => sState = "AVAILABLE"
         /\ title' = "new" => title = "new"
  <1> USE DEF CheckPlaces, InstallPlaces, LastPlaces, Loaded, ui, disk
  <1>1. CASE DoCheck(t) \/ RaisePrompt(t)
    BY <1>1, StepGoesOn DEF DoCheck, RaisePrompt
  <1>2. CASE DoInstall(t) \/ InstallConnects(t)
    BY <1>2, StepGoesOn DEF DoInstall, InstallConnects, SocketsUp
  <1>3. CASE DownloadEnds(t) \/ DiscardDownload(t)
    BY <1>3, StepGoesOn DEF DownloadEnds, DiscardDownload
  <1>4. CASE AmInit(t) \/ DeleteTitle(t)
    BY <1>4, StepGoesOn DEF AmInit, DeleteTitle
  <1>5. CASE KeepCia(t) \/ InstallDone(t) \/ AskRestart(t)
    BY <1>5, StepGoesOn DEF KeepCia, InstallDone, AskRestart
  <1>6. CASE Report(t) \/ SocketsDown(t)
    BY <1>6, StepGoesOn DEF Report, SocketsDown
  <1>7. CASE WorkerEnds(t)
    BY <1>7 DEF WorkerEnds, GoesOn, At, IInv, TypeOK, OneJobAtATime
  <1> QED BY <1>1, <1>2, <1>3, <1>4, <1>5, <1>6, <1>7 DEF OtherWork

LEMMA WorksStep ==
  ASSUME RInv, NEW t \in Thread, Works(t), IInv'
  PROVE  RInv'
  <1> USE DEF offer, builds
  <1>0. IInv /\ ReleasesTypeOK
    BY DEF RInv
  <1>1. CASE OtherWork(t)
    <2>1. UNCHANGED <<sBeta, offer, builds>>
      BY <1>1 DEF OtherWork
    <2> QED BY <1>0, <1>1, <2>1, OtherWorkGoesOn DEF RInv, ReleasesTypeOK, Offered, GoesOn
  <1>2. CASE ListComes(t)
    <2>1. GoesOn(t) /\ sState' \in {sState, "ERROR"} /\ UNCHANGED title
      BY <1>0, <1>2, StepGoesOn
      DEF ListComes, CheckConnects, SocketsUp, disk, CheckPlaces, LastPlaces, Loaded
    <2>2. ReleasesTypeOK' /\ UNCHANGED <<sRelease, sRemoteTag, builds>>
      BY <1>0, <1>2, UpdateReleasesAssumption DEF ListComes, ReleasesTypeOK
    <2> QED BY <2>1, <2>2 DEF RInv, Offered, GoesOn
  <1>3. CASE ReleaseIsPicked(t)
    <2>1. GoesOn(t) /\ UNCHANGED title /\ worker[t] # None /\ worker[t].at = "checkAnswer"
      BY <1>0, <1>3, StepGoesOn
      DEF ReleaseIsPicked, CheckAnswered, At, disk, CheckPlaces, LastPlaces, Loaded
    <2>2. worker[t].job # "INSTALL"
      BY <1>0, <2>1 DEF IInv, TypeOK, Work, InstallPlaces, CheckPlaces, LastPlaces
    <2>3. \A release \in PickRelease(releases, sBeta) :
            release \in Release /\ (IsNewerBuild(running, release) => ReleaseAfter(running, release))
      BY <1>0, Picked, NewerIsAfter DEF ReleasesTypeOK
    <2>4. UNCHANGED <<sBeta, builds>> /\ ReleasesTypeOK'
      BY <1>0, <1>3, <2>3 DEF ReleaseIsPicked, ReleasesTypeOK
    <2>5. sState' = "AVAILABLE" => Offered'
      BY <1>3, <2>3, <2>4 DEF ReleaseIsPicked, Offered
    <2> QED BY <2>1, <2>2, <2>4, <2>5 DEF RInv, GoesOn
  <1>4. CASE CiaComes(t)
    <2>1. /\ worker'[t] # None /\ worker'[t].job = worker[t].job
          /\ \A u \in Thread : worker'[u] # None => u = t
          /\ worker[t].job = "INSTALL" /\ worker[t] # None
      BY <1>0, <1>4, Advance
      DEF CiaComes, DownloadBegins, At, IInv, TypeOK, Work, InstallPlaces, CheckPlaces, LastPlaces
    <2>2. Offered /\ UNCHANGED <<offer, running, newBuild, title>> /\ sState' \in {sState, "ERROR"}
      BY <1>4, <2>1 DEF RInv, CiaComes, DownloadBegins
    <2>3. ciaBuild' \in Build /\ (worker'[t].at = "close" => BuildBefore(running, ciaBuild'))
      <3>1. CASE ciaBuild' \in BuiltFor(sRelease)
        BY <1>0, <2>2, <3>1, BuiltForComesAfter DEF Offered, ReleasesTypeOK
      <3>2. CASE worker'[t].at # "close" /\ UNCHANGED ciaBuild
        BY <1>0, <3>2 DEF ReleasesTypeOK
      <3> QED BY <1>4, <3>1, <3>2 DEF CiaComes
    <2>4. worker'[t].at \in Loaded => worker'[t].at = "close"
      BY <1>0, <1>4, Advance
      DEF CiaComes, DownloadBegins, At, InstallPlaces, CheckPlaces, LastPlaces, Loaded
    <2>5. ReleasesTypeOK' /\ Offered'
      BY <1>0, <1>4, <2>2, <2>3 DEF ReleasesTypeOK, Offered, CiaComes
    <2>6. BuildBefore(running, ciaBuild') <=> BuildBefore(running', ciaBuild')
      BY <2>2
    <2>7. title' = "new" => BuildBefore(running, newBuild)'
      BY <2>2 DEF RInv
    <2> QED BY <2>1, <2>3, <2>4, <2>5, <2>6, <2>7 DEF RInv
  <1>5. CASE TitleIsInstalled(t)
    <2>1. GoesOn(t) /\ worker[t] # None /\ worker[t].at \in {"overwrite", "fresh"}
          /\ sState' \in {sState, "ERROR"} /\ title' \in {title, "new"}
      BY <1>0, <1>5, StepGoesOn
      DEF TitleIsInstalled, InstallOverwrite, InstallFresh, InstallFromFile, At, InstallPlaces,
          LastPlaces, Loaded
    <2>2. worker[t].job = "INSTALL"
      BY <1>0, <2>1 DEF IInv, TypeOK, Work, InstallPlaces, CheckPlaces, LastPlaces
    <2>3. BuildBefore(running, ciaBuild)
      BY <2>1, <2>2 DEF RInv, Loaded
    <2>4. UNCHANGED <<sBeta, offer, running, ciaBuild>>
          /\ newBuild' = (IF title' = "new" THEN ciaBuild ELSE newBuild)
      BY <1>5 DEF TitleIsInstalled
    <2> QED BY <1>0, <2>1, <2>3, <2>4 DEF RInv, ReleasesTypeOK, Offered, GoesOn
  <1> QED BY <1>1, <1>2, <1>3, <1>4, <1>5 DEF Works

\* A start finds no worker but that of a check, and no offer.
LEMMA StartsAgainStep ==
  ASSUME RInv, StartsAgain, IInv'
  PROVE  RInv'
  <1>1. ReleasesTypeOK' /\ sState' = "IDLE" /\ title' = "this"
    BY DEF RInv, StartsAgain, Restart, ReleasesTypeOK
  <1>2. \A t \in Thread : worker'[t] # None => worker'[t].job # "INSTALL"
    BY FirstJobs DEF StartsAgain, Restart
  <1> QED BY <1>1, <1>2 DEF RInv

\* An install starts where something is offered.
LEMMA TouchAnswersStep ==
  ASSUME RInv, TouchAnswers, IInv'
  PROVE  RInv'
  <1> USE DEF offer, builds
  <1>1. UNCHANGED <<sBeta, offer, builds, title>> /\ Touch
    BY DEF TouchAnswers, Touch, UpdateButton, AnswerPrompt, disk
  <1>2. ASSUME NEW job \in Jobs, StartJob(job), job = "INSTALL" => sState = "AVAILABLE"
        PROVE  /\ sState' = "AVAILABLE" => sState = "AVAILABLE"
               /\ \A t \in Thread : worker'[t] # None /\ worker'[t].job = "INSTALL" =>
                    \/ worker'[t] = worker[t]
                    \/ sState = "AVAILABLE" /\ worker'[t].at = "install"
    BY <1>2 DEF StartJob, Running, First, RInv, IInv, TypeOK
  <1>3. "CHECK" \in Jobs /\ "INSTALL" \in Jobs
    BY DEF Jobs
  <1>4. /\ sState' = "AVAILABLE" => sState = "AVAILABLE"
        /\ \A t \in Thread : worker'[t] # None /\ worker'[t].job = "INSTALL" =>
             \/ worker'[t] = worker[t]
             \/ sState = "AVAILABLE" /\ worker'[t].at = "install"
    <2>1. CASE UNCHANGED <<sState, worker>>
      BY <2>1
    <2>2. CASE Port_Updater_Install
      BY <1>2, <1>3, <2>2 DEF Port_Updater_Install
    <2>3. CASE StartJob("CHECK")
      BY <1>2, <1>3, <2>3
    <2> QED BY <1>1, <2>1, <2>2, <2>3 DEF Touch, UpdateButton, AnswerPrompt
  <1> QED BY <1>1, <1>4 DEF RInv, ReleasesTypeOK, Offered, Loaded

LEMMA RInvStep ==
  ASSUME RInv, [ReleasesNext]_allVars
  PROVE  RInv'
  <1>1. IInv'
    BY StepsOfUpdater, InvStep DEF RInv
  <1>2. CASE SetBeta \/ UNCHANGED allVars
    BY <1>1, <1>2 DEF RInv, ReleasesTypeOK, Offered, SetBeta, allVars, vars, offer, builds
  <1> QED BY <1>1, <1>2, WorksStep, StartsAgainStep, TouchAnswersStep DEF ReleasesNext

\* What is offered and what is in the title always comes after what runs.
THEOREM OffersInOrder == ReleasesSpec => []RInv
  <1>1. ReleasesInit => RInv
    <2>1. ReleasesInit => IInv
      BY FirstInv DEF ReleasesInit
    <2>2. ReleasesInit => ReleasesTypeOK
      BY UpdateReleasesAssumption DEF ReleasesInit, ReleasesTypeOK
    <2>3. ASSUME ReleasesInit, NEW t \in Thread, worker[t] # None PROVE worker[t].job # "INSTALL"
      BY <2>3, FirstJobs DEF ReleasesInit, Init
    <2> QED BY <2>1, <2>2, <2>3 DEF RInv, ReleasesInit, Init
  <1> QED BY <1>1, RInvStep, PTL DEF ReleasesSpec

\* Only what is newer is offered, and the screen says what.
THEOREM OnlyNewerOffered == ReleasesSpec => []OfferedIsNewer
  <1>1. RInv => OfferedIsNewer
    BY DEF RInv, Offered, OfferedIsNewer
  <1> QED BY <1>1, OffersInOrder, PTL

\* From start to start the build that runs only moves on.
THEOREM OnlyForward == ReleasesSpec => NeverGoesBackwards
  <1> DEFINE Forward == running' # running => BuildBefore(running, running')
  <1>1. RInv /\ [ReleasesNext]_allVars => [Forward]_allVars
    <2> SUFFICES ASSUME RInv, ReleasesNext, running' # running PROVE StartsAgain
      BY DEF RInv, StartsAgain
    <2>1. ASSUME NEW t \in Thread, Works(t) PROVE running' = running
      BY <2>1 DEF Works, ListComes, ReleaseIsPicked, CiaComes, TitleIsInstalled, OtherWork, builds
    <2> QED BY <2>1 DEF ReleasesNext, TouchAnswers, SetBeta, builds
  <1> QED BY <1>1, OffersInOrder, PTL DEF ReleasesSpec, NeverGoesBackwards

LEMMA OnlyAnswers ==
  ASSUME NEW t \in Thread, CheckConnects(t) \/ DownloadBegins(t) \/ InstallOverwrite(t) \/ InstallFresh(t)
                            \/ OtherWork(t)
  PROVE  sState' # "UP_TO_DATE" \/ sState' = sState
  <1>1. CASE CheckConnects(t) \/ DownloadBegins(t) \/ InstallOverwrite(t) \/ InstallFresh(t)
    BY <1>1 DEF CheckConnects, SocketsUp, DownloadBegins, InstallOverwrite, InstallFresh, InstallFromFile
  <1>2. CASE OtherWork(t)
    BY <1>2 DEF OtherWork, DoCheck, RaisePrompt, DoInstall, InstallConnects, SocketsUp, DownloadEnds,
       DiscardDownload, AmInit, DeleteTitle, KeepCia, InstallDone, AskRestart, Report, SocketsDown, WorkerEnds
  <1> QED BY <1>1, <1>2

LEMMA TouchIsNoAnswer ==
  ASSUME Touch
  PROVE  sState' # "UP_TO_DATE" \/ sState' = sState
  <1>1. ASSUME NEW job \in Jobs, StartJob(job) PROVE sState' \in {sState, "ERROR"}
    BY <1>1 DEF StartJob
  <1> QED BY <1>1 DEF Touch, UpdateButton, AnswerPrompt, Port_Updater_Install, Jobs

\* UP TO DATE is true of every list that is newest first.
THEOREM UpToDate == ReleasesSpec => UpToDateIsTrue
  <1> DEFINE Fresh == sState' = "UP_TO_DATE" /\ sState # "UP_TO_DATE" /\ NewestFirst(releases) =>
                        \A i \in 1 .. Len(releases) :
                          Eligible(releases[i], sBeta) => ~ ReleaseAfter(running, releases[i])
  <1>1. RInv /\ [ReleasesNext]_allVars => [Fresh]_allVars
    <2> SUFFICES ASSUME RInv, ReleasesNext, sState' = "UP_TO_DATE", sState # "UP_TO_DATE",
                        NewestFirst(releases)
                 PROVE  \A i \in 1 .. Len(releases) :
                          Eligible(releases[i], sBeta) => ~ ReleaseAfter(running, releases[i])
      OBVIOUS
    <2>1. ASSUME NEW t \in Thread, Works(t) PROVE ReleaseIsPicked(t)
      BY <2>1, OnlyAnswers DEF Works, ListComes, CiaComes, TitleIsInstalled
    <2>2. \E t \in Thread : ReleaseIsPicked(t)
      BY <2>1, TouchIsNoAnswer DEF ReleasesNext, TouchAnswers, SetBeta, StartsAgain, Restart, vars
    <2>3. PICK release \in PickRelease(releases, sBeta) : ~ IsNewerBuild(running, release)
      BY <2>2 DEF ReleaseIsPicked
    <2> QED BY <2>3, FirstIsNewest DEF RInv, ReleasesTypeOK
  <1> QED BY <1>1, OffersInOrder, PTL DEF ReleasesSpec, UpToDateIsTrue
=============================================================================
