----------------------------- MODULE SaveStates -----------------------------
(***************************************************************************)
(* Save states of the 3DS port (platform/3ds/source/port_save_state.c): the*)
(* list in RAM, the one-job queue and the files on the SD card.            *)
(*                                                                         *)
(* One job at a time is queued by the STATE tab or the debug link and      *)
(* serviced at the top of the game's main loop.  A save goes to            *)
(* <state>.tmp, the old state file is removed, the new one is renamed in   *)
(* its place and the screenshot follows; the console can be switched off   *)
(* between any two of these SD card operations, and the FTP server can     *)
(* change the card.  The machine's contents are a snapshot name; the       *)
(* screenshot of a frame is the name of that snapshot.  The bottom screen's*)
(* modal and its screenshot buffer are left out.                           *)
(***************************************************************************)
EXTENDS Integers

CONSTANTS
  MaxId,        \* bound: state ids are 1..MaxId
  Snap,         \* contents the emulated machine can have
  Time,         \* readings of the console clock (time(NULL)); 0 is "unknown"
  OldFiles,     \* state files an earlier session may have left on the card
  SavedVersion, \* 5 when PortStateVars_Ready, else 3
  JobDelay,     \* SS_JOB_DELAY_FRAMES
  GiveUp,       \* SS_JOB_GIVE_UP_FRAMES
  ReadyFrames,  \* SS_READY_FRAMES
  CardMayFail,    \* writes, removals and deletions may fail
  RenameMayFail,  \* so may the rename that swaps a new state in
  CrashMayHappen, FtpWrites,   \* what else a run lets happen
  Torn,         \* what a failed save may leave: a screenshot cut short, which
                \* SsReadThumb refuses, or a .tmp, which nothing reads
  None

Id == 1 .. MaxId
Jobs == {"NONE", "SCAN", "SAVE", "OVERWRITE", "LOAD", "DELETE", "THUMB"}
\* "notLoaded" stands for the messages of every load that is refused.
Messages == {"", "saved", "saveFailed", "loaded", "notLoaded", "deleted", "deleteFailed", "onlyInGame"}

\* A state file as its header and body tell it: owner is what buildFingerprint
\* matches, regions is regionCount, sizes says regionSize agrees with this build,
\* whole says the body parses to its end mark.  Version 0 stands for a file that
\* is too short or has another magic, 6 for any version this build does not know.
File == [version : {0, 2, 3, 4, 5, 6}, owner : {"rom", "build", "other"},
         regions : {8, 10}, sizes : BOOLEAN, whole : BOOLEAN, snap : Snap, at : Time]
Info == [compatible : BOOLEAN, at : Time, hasThumb : BOOLEAN]
Swap == [id : Id, pic : Snap \cup {None}, new : File]

ASSUME SaveStatesAssumption ==
  /\ MaxId \in Nat \ {0} /\ JobDelay \in Nat /\ GiveUp \in Nat /\ ReadyFrames \in Nat \ {0}
  /\ 0 \in Time /\ SavedVersion \in {3, 5} /\ OldFiles \subseteq File
  /\ Torn \notin Snap \cup File /\ Torn # None /\ None \notin File /\ None \notin Info /\ None \notin Snap /\ None \notin Swap
  /\ {CardMayFail, RenameMayFail, CrashMayHappen, FtpWrites} \subseteq BOOLEAN

VARIABLES
  file, tmp, thm,                          \* the card: states/, the .tmp and .thm of each id
  sEntries, sScanned,                      \* the list in RAM
  sJob, sJobId, sJobDelay, sJobWaited, sReadyFrames, sMsg,
  avail, live,                             \* Port_SaveState_Available(), the machine's contents
  pc, swap                                 \* where the logic thread is inside a job

card == <<file, tmp, thm>>
list == <<sEntries, sScanned>>
jobVars == <<sJob, sJobId, sJobDelay, sJobWaited>>
game == <<avail, live>>
vars == <<card, list, jobVars, sReadyFrames, sMsg, game, pc, swap>>

-----------------------------------------------------------------------------
(* What a header says. *)

SsReadEntry(i) == file[i] # None /\ file[i].version # 0

\* Seeded defect: a version 3 file of any build is taken for loadable.
DefectNoFingerprint(f) ==
  \/ f.version \in {4, 5} /\ f.owner = "rom" /\ f.regions = 8 /\ f.sizes
  \/ f.version \in {2, 3} /\ f.regions = 10 /\ f.sizes

SsHeaderLoadable(f) ==
  \/ f.version \in {4, 5} /\ f.owner = "rom" /\ f.regions = 8 /\ f.sizes
  \/ f.version \in {2, 3} /\ f.owner = "build" /\ f.regions = 10 /\ f.sizes

SsInfoFromHeader(f, thumb) ==
  [compatible |-> SsHeaderLoadable(f),
   at |-> IF f.version < 3 THEN 0 ELSE f.at,    \* version 2 has no date
   hasThumb |-> thumb]

\* Seeded defect: the body is applied without the dry run.
DefectNoDryRun(f) ==
  IF f = None THEN "notFound" ELSE IF SsHeaderLoadable(f) THEN "loaded" ELSE "refused"

\* SsDoLoad and Ss4Load: the first check that fails names the outcome.
LoadOutcome(f) ==
  CASE f = None -> "notFound"
    [] f # None /\ f.version \in {4, 5} ->
         IF ~ SsHeaderLoadable(f) \/ ~ f.sizes THEN "refused"
         ELSE IF f.whole THEN "loaded" ELSE "corrupt"
    [] f # None /\ f.version \in {2, 3} ->
         IF f.regions # 10 \/ f.owner # "build" \/ ~ f.sizes THEN "refused"
         ELSE IF f.whole THEN "loaded" ELSE "corrupt"
    [] OTHER -> "refused"

\* SsScanNow: every *.bin whose header reads becomes an entry.
Scan == [i \in Id |-> IF SsReadEntry(i) THEN SsInfoFromHeader(file[i], thm[i] # None) ELSE None]

Listed(entries) == {i \in Id : entries[i] # None}

\* SsNextId: one more than the largest listed id.
IsNextId(n, entries) == /\ \A i \in Listed(entries) : i < n
                        /\ n = 1 \/ n - 1 \in Listed(entries)

NewFile(t) ==
  [version |-> SavedVersion, owner |-> IF SavedVersion = 5 THEN "rom" ELSE "build",
   regions |-> IF SavedVersion = 5 THEN 8 ELSE 10, sizes |-> TRUE, whole |-> TRUE,
   snap |-> live, at |-> t]

-----------------------------------------------------------------------------
\* An earlier session left states, each with its own screenshot or none, screenshots
\* of states that are gone, and (bound) no .tmp.
Init ==
  /\ file \in [Id -> OldFiles \cup {None}]
  /\ tmp = [i \in Id |-> None]
  /\ thm \in [Id -> Snap \cup {None}]
  /\ \A i \in Id : thm[i] # None /\ file[i] # None => thm[i] = file[i].snap
  /\ sEntries = [i \in Id |-> None] /\ sScanned = FALSE
  /\ sJob = "NONE" /\ sJobId = 0 /\ sJobDelay = 0 /\ sJobWaited = 0 /\ sReadyFrames = 0
  /\ sMsg = "" /\ pc = "frame" /\ swap = None
  /\ avail = FALSE /\ live \in Snap

-----------------------------------------------------------------------------
(* Requests: the bottom screen and the debug link, inside a game frame. *)

\* Seeded defect: a request replaces the job that is queued.
DefectRequestReplaces(job, id) ==
  sJob' = job /\ sJobId' = id /\ sJobDelay' = JobDelay /\ sJobWaited' = 0

\* SsRequest: ignored while a job is queued.
SsRequest(job, id) ==
  IF sJob # "NONE" THEN UNCHANGED jobVars
  ELSE sJob' = job /\ sJobId' = id /\ sJobDelay' = JobDelay /\ sJobWaited' = 0

\* Bound: a new state is only asked for while the list leaves an id for it.
IdLeft == IF sScanned THEN sEntries[MaxId] = None ELSE Scan[MaxId] = None

\* The game runs a frame: the mode or the machine's contents change.
GameFrame ==
  /\ pc = "frame"
  /\ avail' \in BOOLEAN /\ live' \in Snap
  /\ UNCHANGED <<card, list, jobVars, sReadyFrames, sMsg, pc, swap>>

\* What the STATE tab and the debug link may ask for.  The id is any: a modal
\* that has been open for a while may show a state that is gone by now.
Request ==
  /\ pc = "frame"
  /\ \/ ~ sScanned /\ SsRequest("SCAN", 0)
     \/ avail /\ IdLeft /\ SsRequest("SAVE", 0)
     \/ \E i \in Id : \/ avail /\ SsRequest("OVERWRITE", i)
                      \/ SsRequest("LOAD", i)
                      \/ SsRequest("DELETE", i)
                      \/ SsRequest("THUMB", i)   \* asked when the entry says hasThumb
  /\ UNCHANGED <<card, list, sReadyFrames, sMsg, game, pc, swap>>

-----------------------------------------------------------------------------
(* Port_SaveState_ServicePending *)

\* The debounce of the "in gameplay" gate.
Debounced == IF avail THEN IF sReadyFrames < ReadyFrames THEN sReadyFrames + 1 ELSE sReadyFrames
             ELSE 0
NeedsGameplay == sJob \in {"SAVE", "OVERWRITE"}

ServiceBegins == pc = "frame" /\ sReadyFrames' = Debounced

\* The job is due in this service call and may run.
Due == /\ ServiceBegins /\ sJob # "NONE" /\ sJobDelay = 0
       /\ NeedsGameplay => Debounced = ReadyFrames

JobEnds(message) ==
  sJob' = "NONE" /\ sMsg' = message /\ UNCHANGED <<sJobId, sJobDelay, sJobWaited>>

ServiceIdle ==
  /\ ServiceBegins /\ sJob = "NONE"
  /\ UNCHANGED <<card, list, jobVars, sMsg, game, pc, swap>>

ServiceDelay ==
  /\ ServiceBegins /\ sJob # "NONE" /\ sJobDelay > 0
  /\ sJobDelay' = sJobDelay - 1
  /\ UNCHANGED <<card, list, sJob, sJobId, sJobWaited, sMsg, game, pc, swap>>

\* Seeded defect: a save that cannot start is never given up.
DefectNeverGivesUp ==
  /\ ServiceBegins /\ NeedsGameplay /\ sJobDelay = 0 /\ Debounced < ReadyFrames
  /\ UNCHANGED <<card, list, jobVars, sMsg, game, pc, swap>>

ServiceHold ==
  /\ ServiceBegins /\ NeedsGameplay /\ sJobDelay = 0 /\ Debounced < ReadyFrames
  /\ sJobWaited' = sJobWaited + 1
  /\ IF sJobWaited' > GiveUp THEN sJob' = "NONE" /\ sMsg' = "onlyInGame"
                             ELSE UNCHANGED <<sJob, sMsg>>
  /\ UNCHANGED <<card, list, sJobId, sJobDelay, game, pc, swap>>

SsScanNow ==
  /\ Due /\ sJob = "SCAN"
  /\ sEntries' = Scan /\ sScanned' = TRUE
  /\ JobEnds(sMsg)
  /\ UNCHANGED <<card, game, pc, swap>>

SsDoLoad ==
  /\ Due /\ sJob = "LOAD"
  /\ LET outcome == LoadOutcome(file[sJobId]) IN
       \/ /\ outcome = "loaded" /\ live' = file[sJobId].snap
          /\ avail' \in BOOLEAN               \* the game mode is part of the state
          /\ JobEnds(outcome)
       \/ /\ outcome # "loaded" \/ CardMayFail    \* or there is no memory for the body
          /\ JobEnds("notLoaded") /\ UNCHANGED game
  /\ UNCHANGED <<card, list, pc, swap>>

\* SsDoThumb: only the screenshot buffer changes.
SsDoThumb ==
  /\ Due /\ sJob = "THUMB"
  /\ JobEnds(sMsg)
  /\ UNCHANGED <<card, list, game, pc, swap>>

\* SsDoDelete: the state file first (the card may refuse), ...
DeleteState ==
  /\ Due /\ sJob = "DELETE"
  /\ \/ file' = [file EXCEPT ![sJobId] = None]
     \/ CardMayFail /\ UNCHANGED file
  /\ pc' = "deleteThumb"
  /\ UNCHANGED <<tmp, thm, list, jobVars, sMsg, game, swap>>

\* remove(tpath) of a screenshot file that holds pic; its result is not looked at.
ThumbRemoved(id, pic) ==
  \/ thm' = [thm EXCEPT ![id] = None]
  \/ CardMayFail /\ thm' = [thm EXCEPT ![id] = pic]

\* Seeded defect: the entry goes although the card kept the file.
DefectForgetsAnyway ==
  /\ pc = "deleteThumb"
  /\ ThumbRemoved(sJobId, thm[sJobId])
  /\ sEntries' = [sEntries EXCEPT ![sJobId] = None] /\ JobEnds("deleted")
  /\ pc' = "frame"
  /\ UNCHANGED <<file, tmp, sScanned, sReadyFrames, game, swap>>

\* ... then the screenshot, whatever became of the state file, and the entry.
DeleteThumb ==
  /\ pc = "deleteThumb"
  /\ ThumbRemoved(sJobId, thm[sJobId])
  /\ IF file[sJobId] = None
     THEN sEntries' = [sEntries EXCEPT ![sJobId] = None] /\ JobEnds("deleted")
     ELSE UNCHANGED sEntries /\ JobEnds("deleteFailed")
  /\ pc' = "frame"
  /\ UNCHANGED <<file, tmp, sScanned, sReadyFrames, game, swap>>

\* SsDoSave: scan if that never happened, pick the id, take the screenshot.
SaveBegin ==
  /\ Due /\ NeedsGameplay
  /\ LET entries == IF sScanned THEN sEntries ELSE Scan IN
       /\ sEntries' = entries /\ sScanned' = TRUE
       /\ \E id \in Id, captured \in BOOLEAN, t \in Time :
            /\ IF sJob = "SAVE" THEN IsNextId(id, entries) ELSE id = sJobId
            /\ swap' = [id |-> id, pic |-> IF captured THEN live ELSE None, new |-> NewFile(t)]
  /\ pc' = "write"
  /\ UNCHANGED <<card, jobVars, sMsg, game>>

SaveFails ==
  /\ JobEnds("saveFailed")
  /\ pc' = "frame" /\ swap' = None
  /\ UNCHANGED <<file, thm, list, sReadyFrames, game>>

SaveGoesOn(next) ==
  /\ pc' = next
  /\ UNCHANGED <<list, jobVars, sReadyFrames, sMsg, game, swap>>

\* Seeded defect: a write that failed still goes on to the swap.
DefectSwapsAfterFailedWrite ==
  /\ pc = "write"
  /\ \/ tmp' = [tmp EXCEPT ![swap.id] = swap.new]
     \/ CardMayFail /\ UNCHANGED tmp
  /\ SaveGoesOn("remove") /\ UNCHANGED <<file, thm>>

\* remove(tmp), when a save has failed.
TmpRemoved == \/ tmp' = [tmp EXCEPT ![swap.id] = None]
              \/ CardMayFail /\ tmp' = [tmp EXCEPT ![swap.id] = Torn]

\* Header and body into <state>.tmp.  fopen may fail (tmp untouched), and so may
\* a write or the close.
SaveWrite ==
  /\ pc = "write"
  /\ \/ tmp' = [tmp EXCEPT ![swap.id] = swap.new] /\ SaveGoesOn("remove") /\ UNCHANGED <<file, thm>>
     \/ CardMayFail /\ (UNCHANGED tmp \/ TmpRemoved) /\ SaveFails

\* remove(path); its result is not looked at.
SaveRemoveOld ==
  /\ pc = "remove"
  /\ \/ file' = [file EXCEPT ![swap.id] = None]
     \/ CardMayFail /\ UNCHANGED file
  /\ SaveGoesOn("rename") /\ UNCHANGED <<tmp, thm>>

\* rename(tmp, path), which the card refuses when the old file is still there;
\* when it fails the .tmp is removed too.
SaveRename ==
  /\ pc = "rename"
  /\ \/ /\ file[swap.id] = None
        /\ file' = [file EXCEPT ![swap.id] = tmp[swap.id]] /\ tmp' = [tmp EXCEPT ![swap.id] = None]
        /\ SaveGoesOn("thumb") /\ UNCHANGED thm
     \/ (RenameMayFail \/ file[swap.id] # None) /\ TmpRemoved /\ SaveFails

SaveDone(thumb) ==
  /\ sEntries' = [sEntries EXCEPT ![swap.id] = SsInfoFromHeader(swap.new, thumb)]
  /\ JobEnds("saved")
  /\ pc' = "frame" /\ swap' = None
  /\ UNCHANGED <<file, tmp, sScanned, sReadyFrames, game>>

\* SsWriteThumb failed: the file was not opened, or it was and is cut short.
ThumbNotWritten ==
  \/ swap.pic = None /\ ThumbRemoved(swap.id, thm[swap.id])
  \/ swap.pic # None /\ CardMayFail /\ \E pic \in {thm[swap.id], Torn} : ThumbRemoved(swap.id, pic)

\* Seeded defect: the entry has a picture when one was captured, written or not.
DefectThumbNotChecked ==
  /\ pc = "thumb"
  /\ (swap.pic # None /\ thm' = [thm EXCEPT ![swap.id] = swap.pic]) \/ ThumbNotWritten
  /\ SaveDone(swap.pic # None)

\* The screenshot or none, and the entry, which says which.
SaveThumb ==
  /\ pc = "thumb"
  /\ \/ swap.pic # None /\ thm' = [thm EXCEPT ![swap.id] = swap.pic] /\ SaveDone(TRUE)
     \/ ThumbNotWritten /\ SaveDone(FALSE)

ServicePending ==
  \/ ServiceIdle \/ ServiceDelay \/ ServiceHold
  \/ SsScanNow \/ SsDoLoad \/ SsDoThumb
  \/ DeleteState \/ DeleteThumb
  \/ SaveBegin \/ SaveWrite \/ SaveRemoveOld \/ SaveRename \/ SaveThumb

-----------------------------------------------------------------------------
(* The surroundings. *)

\* The console is switched off and on: RAM is lost, the card is as it was.
PowerCycle ==
  /\ CrashMayHappen
  /\ sEntries' = [i \in Id |-> None] /\ sScanned' = FALSE
  /\ sJob' = "NONE" /\ sJobId' = 0 /\ sJobDelay' = 0 /\ sJobWaited' = 0 /\ sReadyFrames' = 0
  /\ sMsg' = "" /\ pc' = "frame" /\ swap' = None
  /\ avail' = FALSE /\ live' \in Snap
  /\ UNCHANGED card

\* A file copied into states/ over FTP: the list in RAM does not hear of it.
\* Bound: the last id is left for a new save that is queued and will scan first.
FtpStore(i) ==
  /\ FtpWrites /\ (sJob = "SAVE" /\ ~ sScanned => i < MaxId)
  /\ \E f \in OldFiles : file' = [file EXCEPT ![i] = f]
  /\ UNCHANGED <<tmp, thm, list, jobVars, sReadyFrames, sMsg, game, pc, swap>>

Next ==
  \/ GameFrame \/ Request \/ ServicePending
  \/ PowerCycle
  \/ \E i \in Id : FtpStore(i)

Spec == Init /\ [][Next]_vars

\* The game's main loop keeps calling the service function.
FairSpec == Spec /\ WF_vars(ServicePending)

-----------------------------------------------------------------------------
(* Properties. *)

\* Every variable keeps to its type.
TypeOK ==
  /\ file \in [Id -> File \cup {None}] /\ tmp \in [Id -> File \cup {Torn, None}]
  /\ thm \in [Id -> Snap \cup {Torn, None}]
  /\ sEntries \in [Id -> Info \cup {None}] /\ sScanned \in BOOLEAN
  /\ sJob \in Jobs /\ sJobId \in Id \cup {0}
  /\ sJobDelay \in 0 .. JobDelay /\ sJobWaited \in 0 .. GiveUp + 1
  /\ sReadyFrames \in 0 .. ReadyFrames /\ sMsg \in Messages
  /\ avail \in BOOLEAN /\ live \in Snap
  /\ pc \in {"frame", "write", "remove", "rename", "thumb", "deleteThumb"}
  /\ swap \in Swap \cup {None}

\* Where the logic thread may be: inside a save it holds the id and the contents
\* it is writing, a new save's id is one the list does not have, the .tmp is complete
\* from the moment the old file may go, and a job that waits has not waited past its
\* limit.
Saving == pc \in {"write", "remove", "rename", "thumb"}
ControlInv ==
  /\ sJob # "NONE" => sJobWaited <= GiveUp
  /\ sJob \in {"OVERWRITE", "LOAD", "DELETE", "THUMB"} => sJobId \in Id
  /\ pc = "deleteThumb" => sJob = "DELETE"
  /\ Saving => /\ swap # None /\ sScanned
               /\ \/ sJob = "SAVE" /\ sEntries[swap.id] = None
                  \/ sJob = "OVERWRITE" /\ swap.id = sJobId
               /\ swap.new.version # 0
  /\ pc \in {"remove", "rename"} => tmp[swap.id] = swap.new

\* Between jobs the list in RAM tells what is on the card, although it is read
\* once and then only patched (SsUpsert, SsRemove): every readable state is in
\* it, and what an entry says of a state that is there is what its header says.
\* (An entry may outlive its file; its picture is PictureIsOfItsState's.)
ListTellsTheCard ==
  pc = "frame" /\ sScanned =>
    \A i \in Id :
      /\ SsReadEntry(i) => sEntries[i] # None
      /\ sEntries[i] # None /\ file[i] # None =>
           \E thumb \in BOOLEAN : sEntries[i] = SsInfoFromHeader(file[i], thumb)

\* "ids [...] are never reused while the file exists" (port_save_state.h): a new
\* save never chooses, and then replaces, the id of a state that is on the card.
NewSaveTakesAFreeId ==
  [][pc = "frame" /\ pc' = "write" /\ sJob = "SAVE" => file[swap'.id] = None]_vars

\* A state leaves the card only when its deletion was asked for, or when its
\* complete replacement is on the card: that of an overwrite of this state, or of a
\* new save, and then only a state the player does not see in the list (one stored
\* over FTP since the scan, or one whose header does not read).
NoStateIsLost ==
  [][\A i \in Id : file[i] # None /\ file'[i] = None =>
       \/ sJob = "DELETE" /\ sJobId = i
       \/ /\ swap # None /\ swap.id = i /\ tmp[i] = swap.new
          /\ \/ sJob = "OVERWRITE" /\ sJobId = i
             \/ sJob = "SAVE" /\ sScanned /\ sEntries[i] = None]_vars

\* "never leave the previous picture next to new data" (SsDoSave): the picture that
\* the list offers of a state is of that state, or does not read as a picture.  The
\* card may refuse to write the new one and to remove the old one: then that one does
\* stay next to new data, but the list says that there is none.
PictureIsOfItsState ==
  pc = "frame" /\ sScanned =>
    \A i \in Id : sEntries[i] # None /\ sEntries[i].hasThumb /\ file[i] # None /\ thm[i] \in Snap =>
      thm[i] = file[i].snap

\* The LOAD button is offered (compatible) exactly for the states SsDoLoad would
\* not refuse by their header: two separate readings of it agree.
CompatibleMeansLoadable ==
  pc = "frame" /\ sScanned =>
    \A i \in Id : sEntries[i] # None /\ file[i] # None =>
      (sEntries[i].compatible <=> LoadOutcome(file[i]) \in {"loaded", "corrupt"})

\* A load applies a whole state of this ROM or build, or leaves the machine alone:
\* "a short file must not leave the machine half restored" (Ss4Load).  (A start
\* of the console also changes the machine; it leaves no message.)
LoadIsAllOrNothing ==
  [][pc = "frame" /\ sJob = "LOAD" /\ sJob' = "NONE" /\ live' # live /\ sMsg' # "" =>
       /\ file[sJobId] # None /\ file[sJobId].whole /\ SsHeaderLoadable(file[sJobId])
       /\ live' = file[sJobId].snap /\ sMsg' = "loaded"]_vars

\* No job stays queued for ever: the "wait" message always comes down.
JobEventuallyEnds == sJob # "NONE" ~> sJob = "NONE"

\* "a failed save leaves the state it was going to replace alone" (SsDoSave):
\* after a failed save every state of the list is still on the card.
FailedSaveLeavesOldAlone ==
  pc = "frame" /\ sMsg = "saveFailed" => \A i \in Id : sEntries[i] # None => file[i] # None

\* What the card holds as a client of the archive sees it: while the new file is
\* being renamed in the state already has its new contents.
Stored(i) == IF pc = "rename" /\ swap.id = i /\ file[i] = None THEN tmp[i] ELSE file[i]
Contents == [i \in Id |-> IF Stored(i) = None THEN None ELSE Stored(i).snap]
Operation == IF sJob \in {"SAVE", "OVERWRITE", "LOAD", "DELETE"} THEN sJob ELSE "NONE"
Target == IF sJob \in {"OVERWRITE", "LOAD", "DELETE"} THEN sJobId ELSE 0
Applied == pc \in {"deleteThumb", "thumb"} \/ (pc = "rename" /\ file[swap.id] = None)
Archive == INSTANCE StateArchive
             WITH archive <- Contents, machine <- live, op <- Operation, target <- Target, applied <- Applied

\* The job service implements the archive of snapshots.
ImplementsArchive == Archive!Spec
=============================================================================
