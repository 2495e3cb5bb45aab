------------------------------ MODULE Releases ------------------------------
(***************************************************************************)
(* Which build is newer and which release of the list is taken             *)
(* (platform/3ds/source/port_updater_parse.c).                             *)
(*                                                                         *)
(* A version is X.Y.Z, with or without "-dev"; what else a tag says does   *)
(* not count.  A build also knows whether it is a beta, a release whether  *)
(* its page is a pre-release and whether it has a .cia.  The text of the   *)
(* JSON and the release notes are left out: a release the text breaks off  *)
(* in is one without a .cia.                                               *)
(***************************************************************************)
EXTENDS Naturals, Sequences

CONSTANT Garbage    \* a tag that is no version

Number == Nat \X Nat \X Nat

ASSUME ReleasesAssumption == Garbage \notin Number

Build == [number : Number, dev : BOOLEAN, beta : BOOLEAN]
Release == [number : Number \cup {Garbage}, dev : BOOLEAN, prerelease : BOOLEAN, cia : BOOLEAN]

Parses(x) == x.number # Garbage

\* Seeded defect: the numbers are compared one by one, each for itself.
DefectAnyNumber(m, n) == \E i \in 1 .. 3 : m[i] < n[i]

\* The first of the three numbers that differ decides.
Below(m, n) ==
  \E i \in 1 .. 3 : m[i] < n[i] /\ \A j \in 1 .. 3 : j < i => m[j] = n[j]

\* Updater_IsNewer: whether `remote` is newer than `current`, which may be a release too.
IsNewer(current, remote) ==
  /\ Parses(current) /\ Parses(remote)
  /\ \/ Below(current.number, remote.number)
     \/ current.number = remote.number /\ current.dev /\ ~ remote.dev

\* Updater_IsNewerBuild: the stable release of a beta's own number counts as newer.
IsNewerBuild(current, remote) ==
  \/ IsNewer(current, remote)
  \/ /\ current.beta /\ ~ remote.prerelease
     /\ Parses(current) /\ Parses(remote)
     /\ ~ current.dev /\ ~ remote.dev /\ current.number = remote.number

\* Seeded defect: the last one that will do is taken.
DefectTakesTheLast(list, allowBeta) ==
  {list[i] : i \in {k \in 1 .. Len(list) :
     /\ list[k].cia /\ (allowBeta \/ ~ list[k].prerelease)
     /\ \A j \in k + 1 .. Len(list) : ~ (list[j].cia /\ (allowBeta \/ ~ list[j].prerelease))}}

\* What Updater_PickRelease may pick of the list at all.
Eligible(release, allowBeta) == release.cia /\ (allowBeta \/ ~ release.prerelease)

\* Updater_PickRelease: the first eligible release, in a set, or the empty set.
PickRelease(list, allowBeta) ==
  {list[i] : i \in {k \in 1 .. Len(list) :
     Eligible(list[k], allowBeta) /\ \A j \in 1 .. k - 1 : ~ Eligible(list[j], allowBeta)}}

-----------------------------------------------------------------------------
(* What the comparison is meant to be, stated another way: builds stand in a line, and *)
(* at each number first the -dev builds, then the betas, then the stable release.      *)

BuildStage(build) == IF build.dev THEN 0 ELSE IF build.beta THEN 1 ELSE 2
ReleaseStage(release) == IF release.dev THEN 0 ELSE IF release.prerelease THEN 1 ELSE 2

\* The place of m and a stage in that line, before that of n and another stage.
Before(m, stage, n, other) ==
  \/ m[1] < n[1]
  \/ m[1] = n[1] /\ m[2] < n[2]
  \/ m[1] = n[1] /\ m[2] = n[2] /\ m[3] < n[3]
  \/ m = n /\ stage < other

BuildBefore(build, next) == Before(build.number, BuildStage(build), next.number, BuildStage(next))
ReleaseAfter(build, release) ==
  Parses(release) /\ Before(build.number, BuildStage(build), release.number, ReleaseStage(release))

\* "Newest first, like the GitHub API" (updater_parse_test.c): no release of the list is
\* above one that comes after it in the line, and all are in it.
NewestFirst(list) ==
  /\ \A i \in 1 .. Len(list) : Parses(list[i])
  /\ \A i, j \in 1 .. Len(list) : i < j =>
       ~ Before(list[i].number, ReleaseStage(list[i]), list[j].number, ReleaseStage(list[j]))
=============================================================================
