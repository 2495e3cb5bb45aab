------------------------------ MODULE SramFile ------------------------------
(***************************************************************************)
(* The game's save file (src/sram/sram.c).  SramWrite changes gSramMem, the *)
(* GBA's 64 KB of save memory; Port_FlushSramIfDirty, once a frame on the   *)
(* logic thread, copies it to one of two snapshot buffers and queues that;  *)
(* the save thread writes the snapshot to mzm.sav.tmp and swaps it in by    *)
(* hand, keeping the save before as mzm.sav.bak.                            *)
(*                                                                         *)
(* A version of gSramMem is a number: SramWrite makes the next one.  A save *)
(* of the game is CHUNKS writes, one a frame.  A file is absent, Cut (of a  *)
(* wrong size: ReadSramFile refuses it), a version, or Mixed (halves of two *)
(* versions, which no check would notice).  An operation of the file system *)
(* is atomic.                                                              *)
(***************************************************************************)
EXTENDS Integers

CONSTANTS
  CHUNKS,
  SRAM_FLUSH_IDLE_FRAMES, SRAM_FLUSH_MAX_FRAMES,
  MaxVersion,      \* bound: versions of the memory
  MaxFaults,       \* bound: writes cut short, and operations on the card that fail
  ThreadMayFail,   \* pthread_create can fail
  None, Cut, Mixed

Version == 0 .. MaxVersion    \* 0: the blank memory of a first run
File == Version \cup {None, Cut, Mixed}
Buffer == {0, 1}

ASSUME SramFileAssumption ==
  /\ CHUNKS \in Nat \ {0} /\ MaxVersion \in Nat /\ MaxFaults \in Nat
  /\ SRAM_FLUSH_IDLE_FRAMES \in Nat \ {0, 1} /\ SRAM_FLUSH_MAX_FRAMES \in Nat \ {0}
  /\ ThreadMayFail \in BOOLEAN
  /\ None \notin Int \cup {Cut, Mixed} /\ Cut \notin Int \cup {Mixed} /\ Mixed \notin Int

VARIABLES
  on,                                         \* the program runs
  gSramMem, saving,                           \* saving: between two chunks of a save
  sSramDirty, sDirtyIdleFrames, sDirtyAgeFrames,
  sSramSnapshot, sQueuedBuffer, sWritingBuffer,
  sSaveThreadStarted,
  sWriteFailed,       \* the version that could not be written, 0 for FALSE
  at, copyTo,         \* the logic thread: where in its frame, and the buffer it fills
  writer, held,       \* SramWriteAtomic: where, and the version it was given
  sav, tmp, bak,      \* mzm.sav, mzm.sav.tmp, mzm.sav.bak
  made,               \* the version that ends the last save begun
  written, loaded,    \* the last version written to the end; what the last boot loaded
  told,               \* the highest version the screen said could not be written, this session
  cuts, errors

memory == <<gSramMem, saving, made>>
dirty == <<sSramDirty, sDirtyIdleFrames, sDirtyAgeFrames>>
queue == <<sSramSnapshot, sQueuedBuffer, sWritingBuffer>>
frame == <<at, copyTo>>
write == <<writer, held>>
files == <<sav, tmp, bak>>
seen == <<written, loaded>>
vars == <<on, memory, dirty, queue, sSaveThreadStarted, sWriteFailed, frame, write,
          files, seen, told, cuts, errors>>

Larger(a, b) == IF a > b THEN a ELSE b

\* A file ReadSramFile takes.
Whole(file) == file \notin {None, Cut}

\* Seeded defect: the loader forgets the .bak.
DefectNoBak == IF Whole(sav) THEN sav ELSE IF Whole(tmp) THEN tmp ELSE 0

\* Seeded defect: the loader tries the new file first.
DefectTmpFirst == IF Whole(tmp) THEN tmp ELSE IF Whole(sav) THEN sav ELSE IF Whole(bak) THEN bak ELSE 0

\* What Port_LoadSram finds.
Loaded == IF Whole(sav) THEN sav ELSE IF Whole(tmp) THEN tmp ELSE IF Whole(bak) THEN bak ELSE 0

Init ==
  /\ on = FALSE /\ sav = None /\ tmp = None /\ bak = None
  /\ gSramMem = 0 /\ saving = FALSE /\ made = 0
  /\ sSramDirty = FALSE /\ sDirtyIdleFrames = 0 /\ sDirtyAgeFrames = 0
  /\ sSramSnapshot = [b \in Buffer |-> 0] /\ sQueuedBuffer = -1 /\ sWritingBuffer = -1
  /\ sSaveThreadStarted = FALSE /\ sWriteFailed = 0
  /\ at = "game" /\ copyTo = -1 /\ writer = "idle" /\ held = None
  /\ written = 0 /\ loaded = 0 /\ told = 0 /\ cuts = 0 /\ errors = 0

(***************************************************************************)
(* The program starts, and ends: RAM is gone.  It ends at any point by a    *)
(* power cut, and at the end of a frame by exit(0) in Port_Bios_Halt, when  *)
(* HOME closes it or it starts itself again after an update.  exit ends the *)
(* save thread wherever it is: only agbmain calls Port_FlushSramWait, after *)
(* a loop that has no way out, so it is left out.                           *)
(***************************************************************************)
Boot ==
  /\ ~ on /\ on' = TRUE
  /\ gSramMem' = Loaded /\ loaded' = Loaded
  /\ UNCHANGED <<saving, made, dirty, queue, sSaveThreadStarted, sWriteFailed, frame, write,
                 files, written, told, cuts, errors>>

Halfway == writer \notin {"idle", "end"}

Dies ==
  /\ on /\ on' = FALSE
  /\ IF Halfway THEN cuts + errors < MaxFaults /\ cuts' = cuts + 1 ELSE cuts' = cuts
  /\ gSramMem' = 0 /\ saving' = FALSE
  /\ sSramDirty' = FALSE /\ sDirtyIdleFrames' = 0 /\ sDirtyAgeFrames' = 0
  /\ sSramSnapshot' = [b \in Buffer |-> 0] /\ sQueuedBuffer' = -1 /\ sWritingBuffer' = -1
  /\ sSaveThreadStarted' = FALSE /\ sWriteFailed' = 0
  /\ at' = "game" /\ copyTo' = -1 /\ writer' = "idle" /\ held' = None /\ told' = 0
  /\ UNCHANGED <<made, files, seen, errors>>

PowerCut == Dies

Exit == at = "game" /\ Dies

(***************************************************************************)
(* A frame of the logic thread: the game writes a chunk or nothing, and     *)
(* Port_FlushSramIfDirty runs.                                              *)
(***************************************************************************)
\* The next chunk of the save, or the first of a new one.
NextChunk ==
  /\ IF saving THEN gSramMem' = gSramMem + 1 /\ made' = made
     ELSE gSramMem' = made + 1 /\ made' = made + CHUNKS
  /\ gSramMem' \in Version /\ made' \in Version /\ saving' = (gSramMem' # made')

\* Seeded defect: a chunk does not start the count of idle frames again.
DefectNoReset ==
  /\ on /\ at = "game" /\ NextChunk
  /\ sSramDirty' = TRUE /\ at' = "flush"
  /\ UNCHANGED <<on, sDirtyIdleFrames, sDirtyAgeFrames, queue, sSaveThreadStarted, sWriteFailed,
                 copyTo, write, files, seen, told, cuts, errors>>

SramWrite ==
  /\ on /\ at = "game" /\ NextChunk
  /\ sSramDirty' = TRUE /\ sDirtyIdleFrames' = 0 /\ at' = "flush"
  /\ UNCHANGED <<on, sDirtyAgeFrames, queue, sSaveThreadStarted, sWriteFailed, copyTo, write,
                 files, seen, told, cuts, errors>>

\* SramWriteUnchecked also reads: from gSramMem to EWRAM, and marks it dirty all the same.
SramReadBack ==
  /\ on /\ at = "game" /\ ~ saving
  /\ sSramDirty' = TRUE /\ sDirtyIdleFrames' = 0 /\ at' = "flush"
  /\ UNCHANGED <<on, memory, sDirtyAgeFrames, queue, sSaveThreadStarted, sWriteFailed, copyTo,
                 write, files, seen, told, cuts, errors>>

NoSramWrite ==
  /\ on /\ at = "game" /\ ~ saving /\ at' = "flush"
  /\ UNCHANGED <<on, memory, dirty, queue, sSaveThreadStarted, sWriteFailed, copyTo, write,
                 files, seen, told, cuts, errors>>

\* Enough frames without a write, or the most a stream of them may put the flush off.
Settled == sDirtyIdleFrames + 1 >= SRAM_FLUSH_IDLE_FRAMES
Capped == sDirtyAgeFrames + 1 >= SRAM_FLUSH_MAX_FRAMES

ShowFailed == sWriteFailed' = 0 /\ told' = Larger(told, sWriteFailed)

\* Nothing to write, or not yet: back to the frame.
FlushLater ==
  /\ on /\ at = "flush" /\ at' = "game" /\ ShowFailed
  /\ \/ ~ sSramDirty /\ UNCHANGED <<dirty, sSaveThreadStarted>>
     \/ /\ sSramDirty /\ ~ Settled /\ ~ Capped
        /\ sSaveThreadStarted' = TRUE
        /\ sDirtyIdleFrames' = sDirtyIdleFrames + 1
        /\ sDirtyAgeFrames' = sDirtyAgeFrames + 1 /\ UNCHANGED sSramDirty
  /\ UNCHANGED <<on, memory, queue, copyTo, write, files, seen, cuts, errors>>

\* Seeded defect: the buffer that is not queued, instead of the one that is not written.
DefectFreeBuffer == IF sQueuedBuffer = 0 THEN 1 ELSE 0

FreeBuffer == IF sWritingBuffer = 0 THEN 1 ELSE 0

\* QueueSnapshot takes sSaveMutex (it is held while at = "copy") and picks a buffer.
FlushNow ==
  /\ on /\ at = "flush" /\ ShowFailed /\ sSramDirty /\ (Settled \/ Capped)
  /\ sSaveThreadStarted' = TRUE
  /\ sSramDirty' = FALSE /\ sDirtyIdleFrames' = 0 /\ sDirtyAgeFrames' = 0
  /\ at' = "copy" /\ copyTo' = FreeBuffer
  /\ sSramSnapshot' = [sSramSnapshot EXCEPT ![FreeBuffer] = Mixed]
  /\ UNCHANGED <<on, memory, sQueuedBuffer, sWritingBuffer, write, files, seen, cuts, errors>>

QueueSnapshot ==
  /\ on /\ at = "copy" /\ at' = "game"
  /\ sSramSnapshot' = [sSramSnapshot EXCEPT ![copyTo] = gSramMem]
  /\ sQueuedBuffer' = copyTo /\ copyTo' = -1
  /\ UNCHANGED <<on, memory, dirty, sWritingBuffer, sSaveThreadStarted, sWriteFailed, write,
                 files, seen, told, cuts, errors>>

\* No thread: Port_SaveSram writes gSramMem itself, and the frame waits for it.
FlushHere ==
  /\ on /\ at = "flush" /\ ShowFailed /\ sSramDirty /\ ~ sSaveThreadStarted /\ ThreadMayFail
  /\ sSramDirty' = FALSE /\ at' = "sync" /\ writer' = "open" /\ held' = gSramMem
  /\ UNCHANGED <<on, memory, sDirtyIdleFrames, sDirtyAgeFrames, queue, sSaveThreadStarted,
                 copyTo, files, seen, cuts, errors>>

(***************************************************************************)
(* SramWriteAtomic, on the save thread or in FlushHere.  The thread takes   *)
(* the queued snapshot under the mutex and reads it without; a failure is   *)
(* told to the logic thread, and nothing tries that version again.          *)
(***************************************************************************)
TakeSnapshot ==
  /\ on /\ sSaveThreadStarted /\ writer = "idle" /\ at # "copy" /\ sQueuedBuffer # -1
  /\ sWritingBuffer' = sQueuedBuffer /\ sQueuedBuffer' = -1
  /\ writer' = "open" /\ held' = sSramSnapshot[sQueuedBuffer]
  /\ UNCHANGED <<on, memory, dirty, sSramSnapshot, sSaveThreadStarted, sWriteFailed, frame,
                 files, seen, told, cuts, errors>>

\* An operation that fails, and the end of a write that did.
CardError == cuts + errors < MaxFaults /\ errors' = errors + 1
GivesUp == writer' = "end" /\ sWriteFailed' = held /\ UNCHANGED <<sav, bak, written>>

WriteStep == UNCHANGED <<on, memory, dirty, queue, sSaveThreadStarted, frame, held, loaded, told, cuts>>

\* fopen "wb" empties the .tmp of before.
OpenTmp ==
  /\ on /\ writer = "open" /\ WriteStep
  /\ \/ tmp' = Cut /\ writer' = "write" /\ UNCHANGED <<sav, bak, written, sWriteFailed, errors>>
     \/ CardError /\ GivesUp /\ UNCHANGED tmp

\* Seeded defect: the results of fwrite and fclose are not looked at.
DefectUnchecked ==
  /\ on /\ writer = "write" /\ WriteStep
  /\ tmp' \in {held, Cut} /\ writer' = "removeBak"
  /\ UNCHANGED <<sav, bak, written, sWriteFailed, errors>>

\* A version never comes back to a buffer, so one look at the end of fwrite tells whether
\* the buffer changed under it.  A write that fails removes the .tmp, if it can.
WriteTmp ==
  LET source == IF at = "sync" THEN gSramMem ELSE sSramSnapshot[sWritingBuffer] IN
  /\ on /\ writer = "write" /\ WriteStep
  /\ \/ /\ tmp' = IF source = held THEN held ELSE Mixed
        /\ writer' = "removeBak" /\ UNCHANGED <<sav, bak, written, sWriteFailed, errors>>
     \/ CardError /\ GivesUp /\ tmp' \in {None, Cut}

RemoveBak ==
  /\ on /\ writer = "removeBak" /\ writer' = "renameSav" /\ WriteStep
  /\ \/ bak' = None /\ errors' = errors
     \/ bak # None /\ CardError /\ bak' = bak
  /\ UNCHANGED <<sav, tmp, written, sWriteFailed>>

\* A rename onto a file that exists fails, and so does one of a file that does not.
RenameSav ==
  /\ on /\ writer = "renameSav" /\ writer' = "renameTmp" /\ WriteStep
  /\ IF sav # None /\ bak = None
     THEN \/ sav' = None /\ bak' = sav /\ errors' = errors
          \/ CardError /\ UNCHANGED <<sav, bak>>
     ELSE UNCHANGED <<sav, bak, errors>>
  /\ UNCHANGED <<tmp, written, sWriteFailed>>

RenameTmp ==
  /\ on /\ writer = "renameTmp" /\ WriteStep
  /\ \/ /\ sav = None /\ sav' = tmp /\ tmp' = None
        /\ writer' = "end" /\ written' = held /\ UNCHANGED <<bak, sWriteFailed, errors>>
     \/ sav # None /\ GivesUp /\ UNCHANGED <<tmp, errors>>
     \/ sav = None /\ CardError /\ GivesUp /\ UNCHANGED tmp

\* Seeded defect: the queue is emptied when the write is over and not when it begins.
DefectEmptiesLate ==
  /\ on /\ writer = "end" /\ at # "copy" /\ writer' = "idle" /\ held' = None
  /\ at' = (IF at = "sync" THEN "game" ELSE at) /\ sWritingBuffer' = -1 /\ sQueuedBuffer' = -1
  /\ UNCHANGED <<on, memory, dirty, sSramSnapshot, sSaveThreadStarted,
                 sWriteFailed, copyTo, files, seen, told, cuts, errors>>

\* The thread under the mutex, or FlushHere back in its frame.
WriteEnds ==
  /\ on /\ writer = "end" /\ at # "copy" /\ writer' = "idle" /\ held' = None
  /\ at' = (IF at = "sync" THEN "game" ELSE at) /\ sWritingBuffer' = -1
  /\ UNCHANGED <<on, memory, dirty, sSramSnapshot, sQueuedBuffer, sSaveThreadStarted,
                 sWriteFailed, copyTo, files, seen, told, cuts, errors>>

Game == SramWrite \/ SramReadBack \/ NoSramWrite
Flush == FlushLater \/ FlushNow \/ QueueSnapshot \/ FlushHere
SaveThread == TakeSnapshot \/ OpenTmp \/ WriteTmp \/ RemoveBak \/ RenameSav \/ RenameTmp \/ WriteEnds

Next == Boot \/ PowerCut \/ Exit \/ Game \/ Flush \/ SaveThread

Spec == Init /\ [][Next]_vars

\* Frames follow one another while the program runs, and so do the thread's steps.  The two
\* that take the mutex get it in the end: the logic thread holds it for one copy in a frame and
\* then sleeps until the next.  Whether the game saves again, and whether the program ends, is
\* up to the player.
FairSpec ==
  /\ Spec /\ WF_vars(Game) /\ WF_vars(Flush)
  /\ WF_vars(SaveThread) /\ SF_vars(TakeSnapshot) /\ SF_vars(WriteEnds)

(***************************************************************************)
(* Properties.                                                             *)
(***************************************************************************)

IdleFrames == 0 .. SRAM_FLUSH_IDLE_FRAMES - 1
AgeFrames == 0 .. SRAM_FLUSH_MAX_FRAMES - 1
FramesOK == sDirtyIdleFrames \in IdleFrames /\ sDirtyAgeFrames \in AgeFrames

FaultsOK == cuts \in Nat /\ errors \in Nat /\ cuts + errors <= MaxFaults

\* Every variable has its type; a counter of frames stays below its limit after each flush.
TypeOK ==
  /\ on \in BOOLEAN /\ gSramMem \in Version /\ saving \in BOOLEAN /\ made \in Version
  /\ sSramDirty \in BOOLEAN
  /\ FramesOK
  /\ sSramSnapshot \in [Buffer -> Version \cup {Mixed}]
  /\ sQueuedBuffer \in Buffer \cup {-1} /\ sWritingBuffer \in Buffer \cup {-1}
  /\ sSaveThreadStarted \in BOOLEAN /\ sWriteFailed \in Version
  /\ at \in {"game", "flush", "copy", "sync"} /\ copyTo \in Buffer \cup {-1}
  /\ writer \in {"idle", "open", "write", "removeBak", "renameSav", "renameTmp", "end"}
  /\ held \in Version \cup {None} /\ sav \in File /\ tmp \in File /\ bak \in File
  /\ written \in Version /\ loaded \in Version /\ told \in Version
  /\ FaultsOK

\* "never touches this one until the write below is over" (lines 75-77): no file of the right
\* size is made of two versions, although the snapshots are read without the mutex.
FilesAreOneVersion == Mixed \notin {sav, tmp, bak}

\* When the card works and at most one write was ever cut short, a start finds the last save
\* that was written to the end, or a newer one, and never an older one than the start before;
\* two writes cut short still leave the last save written to the end.
CutsLoseLittle ==
  errors = 0 /\ ~ on => /\ cuts <= 1 => Loaded >= Larger(written, loaded)
                        /\ cuts <= 2 => Loaded >= written

\* As long as no write was ever cut short, two operations of the card that fail leave a save
\* to start from.  A third may not: renames that failed twice leave the save under .tmp alone,
\* and the next write empties that.
ErrorsLeaveASave == cuts = 0 /\ errors <= 2 /\ written # 0 /\ ~ on => Loaded # 0

\* The thread is given whole saves: only the cap on a stream of writes, or a frame without a
\* thread, writes a save the game has not finished.
WholeUnlessCapped ==
  [][FlushNow /\ saving => Capped]_vars

\* The snapshots under way: the one in the queue, unless it is being replaced, and the one that
\* is written.
Waiting ==
  (IF sQueuedBuffer \notin {-1, copyTo} THEN {sSramSnapshot[sQueuedBuffer]} ELSE {})
    \cup (IF Halfway THEN {held} ELSE {})

\* What a start would find.  After a fault that left no mzm.sav the write under way first
\* empties the only new file, and stands or falls with a second fault: it counts as done.
Found ==
  IF writer \in {"write", "removeBak", "renameSav", "renameTmp"} /\ cuts + errors = 1 /\ sav = None
  THEN held ELSE Loaded

Card == INSTANCE SaveCard WITH
  running <- on, memory <- gSramMem, pending <- Waiting, found <- Found, faults <- cuts + errors

\* The swap of three files, the two buffers and the threads are one card with one memory on it:
\* no stop shows a snapshot that was not taken or is older than one that was there before.
ImplementsSaveCard == Card!Spec

\* A version in memory is written, or the screen says it could not be, or the program ends.
WrittenOrTold ==
  \A v \in 1 .. MaxVersion :
    (on /\ gSramMem >= v /\ Larger(written, loaded) < v) ~> (written >= v \/ told >= v \/ ~ on)

\* "Port_FlushSramWait() blocks until everything is on disk (shutdown path)" (line 36): the
\* program that is closed between two saves leaves the last one on a card that works.
ExitKeepsTheSave ==
  [][Exit /\ ~ saving /\ errors = 0 => Larger(written, loaded) >= gSramMem]_vars
=============================================================================
