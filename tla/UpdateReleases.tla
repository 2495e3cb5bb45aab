--------------------------- MODULE UpdateReleases ---------------------------
(***************************************************************************)
(* The updater with what it installs: Updater says in which order the      *)
(* worker and the player act, this module which release they act on        *)
(* (DoCheck, sRelease, sRemoteTag, sBeta in port_updater_3ds.c, and the    *)
(* comparison in Releases).                                                *)
(*                                                                         *)
(* The server answers with any list.  A release that was published as a    *)
(* beta can be built again as stable under the same tag                    *)
(* (.github/workflows/build-release.yml), so what a download brings is     *)
(* decided when it begins and not when it is offered.                      *)
(***************************************************************************)
EXTENDS Updater, Releases

CONSTANTS
  Lists,         \* what the server may answer
  Builds,        \* builds the player may begin with
  NoRelease

ASSUME UpdateReleasesAssumption ==
  Lists \subseteq Seq(Release) /\ Builds \subseteq Build /\ NoRelease \notin Release

VARIABLES
  sBeta,         \* "RELEASES + BETAS"
  releases,      \* the answer DoCheck has in its buffer
  sRelease, sRemoteTag,
  running,       \* the build that runs (MZM_PORT_VERSION, MZM_PORT_IS_BETA)
  ciaBuild, newBuild    \* what is in the CIA and, when title is "new", in the title

offer == <<releases, sRelease, sRemoteTag>>
builds == <<running, ciaBuild, newBuild>>
allVars == <<vars, sBeta, offer, builds>>

ReleasesInit ==
  /\ Init
  /\ sBeta \in BOOLEAN /\ running \in Builds /\ ciaBuild = running /\ newBuild = running
  /\ releases = <<>> /\ sRelease = NoRelease /\ sRemoteTag = NoRelease

-----------------------------------------------------------------------------
\* HttpGet brings the list, or breaks off.
ListComes(t) ==
  /\ CheckConnects(t)
  /\ \/ worker'[t].at = "checkAnswer" /\ releases' \in Lists
     \/ worker'[t].at # "checkAnswer" /\ UNCHANGED releases
  /\ UNCHANGED <<sBeta, sRelease, sRemoteTag, builds>>

\* The rest of DoCheck: its release, compared with this build.
ReleaseIsPicked(t) ==
  /\ CheckAnswered(t)
  /\ releases' = <<>>
  /\ \/ sState' = "ERROR" /\ UNCHANGED <<sRelease, sRemoteTag>>
     \/ \E release \in PickRelease(releases, sBeta) :
          /\ sRemoteTag' = release
          /\ \/ sState' = "UP_TO_DATE" /\ ~ IsNewerBuild(running, release) /\ UNCHANGED sRelease
             \/ sState' = "AVAILABLE" /\ IsNewerBuild(running, release) /\ sRelease' = release
  /\ UNCHANGED <<sBeta, builds>>

\* The builds there may be behind a release when its CIA is asked for.
BuiltFor(release) ==
  {[number |-> release.number, dev |-> release.dev, beta |-> beta] : beta \in {release.prerelease, FALSE}}

CiaComes(t) ==
  /\ DownloadBegins(t)
  /\ \/ worker'[t].at = "close" /\ ciaBuild' \in BuiltFor(sRelease)
     \/ worker'[t].at # "close" /\ UNCHANGED ciaBuild
  /\ UNCHANGED <<sBeta, offer, running, newBuild>>

TitleIsInstalled(t) ==
  /\ InstallOverwrite(t) \/ InstallFresh(t)
  /\ newBuild' = IF title' = "new" THEN ciaBuild ELSE newBuild
  /\ UNCHANGED <<sBeta, offer, running, ciaBuild>>

\* The rest of what the worker does has nothing to do with releases.
OtherWork(t) ==
  /\ \/ DoCheck(t) \/ RaisePrompt(t)
     \/ DoInstall(t) \/ InstallConnects(t) \/ DownloadEnds(t) \/ DiscardDownload(t)
     \/ AmInit(t) \/ DeleteTitle(t) \/ KeepCia(t) \/ InstallDone(t) \/ AskRestart(t)
     \/ Report(t) \/ SocketsDown(t) \/ WorkerEnds(t)
  /\ UNCHANGED <<sBeta, offer, builds>>

Works(t) == ListComes(t) \/ ReleaseIsPicked(t) \/ CiaComes(t) \/ TitleIsInstalled(t) \/ OtherWork(t)

TouchAnswers == Touch /\ UNCHANGED <<sBeta, offer, builds>>

\* Port_Updater_SetBeta, in the UPDATES modal: a list that is in the buffer is picked from
\* by the new setting; what is offered already stays so.
SetBeta ==
  /\ ~ quit /\ sPrompt = "NONE"
  /\ sBeta' = ~ sBeta
  /\ UNCHANGED <<vars, offer, builds>>

StartsAgain ==
  /\ Restart
  /\ running' = IF title = "new" THEN newBuild ELSE running
  /\ releases' = <<>> /\ sRelease' = NoRelease /\ sRemoteTag' = NoRelease
  /\ UNCHANGED <<sBeta, ciaBuild, newBuild>>

ReleasesNext == TouchAnswers \/ SetBeta \/ StartsAgain \/ \E t \in Thread : Works(t)

ReleasesSpec == ReleasesInit /\ [][ReleasesNext]_allVars

\* As Updater!FairSpec.
FairReleasesSpec == ReleasesSpec /\ \A t \in Thread : WF_allVars(Works(t))

-----------------------------------------------------------------------------
(* Properties. *)

\* Every variable keeps to its type.
ReleasesTypeOK ==
  /\ sBeta \in BOOLEAN /\ releases \in Seq(Release)
  /\ sRelease \in Release \cup {NoRelease} /\ sRemoteTag \in Release \cup {NoRelease}
  /\ running \in Build /\ ciaBuild \in Build /\ newBuild \in Build

\* What is offered, and what its download then brings, comes after the build that runs, and
\* is what the screen says (sRemoteTag): in particular no beta offers "to install itself"
\* (port_updater_parse.h).
OfferedIsNewer ==
  sState = "AVAILABLE" => ReleaseAfter(running, sRelease) /\ sRemoteTag = sRelease

\* The updater "never goes backwards" (updater_parse_test.c), also when the page it
\* offered becomes the stable release before it is downloaded: from start to start the
\* build that runs only moves on, so it never comes back to one it has left.
NeverGoesBackwards == [][running' # running => BuildBefore(running, running')]_allVars

\* YA ESTAS AL DIA / UP TO DATE is true: of a list that is newest first, as
\* Updater_PickRelease takes it to be, nothing the player may have is newer.
UpToDateIsTrue ==
  [][sState' = "UP_TO_DATE" /\ sState # "UP_TO_DATE" /\ NewestFirst(releases) =>
       \A i \in 1 .. Len(releases) :
         Eligible(releases[i], sBeta) => ~ ReleaseAfter(running, releases[i])]_allVars
=============================================================================
