------------------------------ MODULE SaveSlots ------------------------------
(***************************************************************************)
(* The game's save slots (src/save_file.c, src/sram_misc.c, and the handler *)
(* of corrupted files of src/menus/file_select.c).  The save memory has a   *)
(* file and a backup of each slot, in this order, and the game works on a   *)
(* copy of it in EWRAM.  An operation is a state machine called once a      *)
(* frame; it moves a file a chunk a frame (unk_fbc), and mzm.sav is the     *)
(* save memory as it was when its writes had stopped (SramFile).            *)
(*                                                                         *)
(* An operation sets gDisableSoftReset, and the first call of one takes the *)
(* flag for the sign that it is the first.  The bottom screen's RESTART     *)
(* does not ask for it: it resets the game in the middle of an operation,   *)
(* and a COPY or DELETE after it goes on at the stage, or at the chunk, it  *)
(* finds (astray).                                                         *)
(*                                                                         *)
(* A chunk is the save it belongs to, 0 where it is blank (0xFF).  A file   *)
(* passes its checksum and its three texts when it is whole: chunks of one  *)
(* save.  The first texts are in chunk 0, the last in chunk 1, the world in *)
(* the last one.  unk_fbc moves 0x200 bytes also for the last 0x20 of a     *)
(* SaveFile (0x1220 bytes), and so most of the first chunk of what follows. *)
(***************************************************************************)
EXTENDS Integers

CONSTANTS
  N,          \* slots
  CHUNKS,     \* chunks of a file
  SRAM_FLUSH_IDLE_FRAMES, SRAM_FLUSH_MAX_FRAMES,
  MaxVersion,    \* bound: saves
  MaxRestarts,   \* bound: uses of the bottom screen's RESTART
  MaxMissed,     \* bound: snapshots in a row that do not become mzm.sav
  Ahead,         \* bound: frames of other writes just before an operation
  PlaysOn,       \* bound: operations follow one that went astray, before a start or reset
  Mixed          \* a file of two saves that was given a right checksum

Slots == 1 .. N
Region == 1 .. 2 * N      \* files[0..2], then filesCopy[0..2]
Chunk == 0 .. CHUNKS - 1
Last == CHUNKS - 1
Save == 1 .. MaxVersion \cup {Mixed}
Content == Save \cup {0}

ASSUME SaveSlotsAssumption ==
  /\ N \in Nat \ {0} /\ CHUNKS \in Nat \ {0, 1} /\ MaxVersion \in Nat /\ MaxVersion >= N
  /\ SRAM_FLUSH_IDLE_FRAMES \in Nat \ {0} /\ Ahead \in Nat
  /\ SRAM_FLUSH_MAX_FRAMES \in Nat /\ SRAM_FLUSH_MAX_FRAMES > Ahead + 2 * CHUNKS + 3
  /\ MaxRestarts \in Nat /\ MaxMissed \in Nat /\ PlaysOn \in BOOLEAN /\ Mixed \notin Int

VARIABLES
  ewram, flash, card,    \* gSram, the save memory and the one in mzm.sav
  corruptionFlag,
  repaired,              \* slots the handler went through since the last start
  kind, slot, dst,       \* the operation, and the slots it was called for
  gSramOperationStage, gDisableSoftReset,
  gUnk_3000C20,          \* the chunk unk_fbc moves next
  sSramDirty, sDirtyIdleFrames, sDirtyAgeFrames,
  missed,                \* snapshots since the last that became mzm.sav
  made, restarts,        \* saves made, uses of RESTART
  now,                   \* what each slot holds, to the player
  astray                 \* slots a COPY or DELETE that did not begin at its beginning worked on

regions == <<ewram, flash>>
slots == <<corruptionFlag, repaired>>
operation == <<kind, slot, dst>>
progress == <<gSramOperationStage, gUnk_3000C20, gDisableSoftReset>>
dirty == <<sSramDirty, sDirtyIdleFrames, sDirtyAgeFrames, missed>>
vars == <<regions, card, slots, operation, progress, dirty, made, restarts, now, astray>>

Copy(s) == N + s
File(v) == [c \in Chunk |-> v]
Blank == File(0)
Whole(f) == f[0] # 0 /\ f = File(f[0])

(***************************************************************************)
(* A start: SramRead_All copies the save memory to EWRAM, and unk_743a4     *)
(* checks each slot, takes the backup of a bad file and the file of a good  *)
(* one.  A bad file is put back on the save memory by the handler only.     *)
(***************************************************************************)
\* unk_74624: whole, bad, or with none of its texts (which blanks it in EWRAM).
Sanity(f) == IF Whole(f) THEN 0 ELSE IF f[0] = 0 /\ f[1] = 0 THEN 3 ELSE 1

\* unk_74574: 0 good, 1 its backup is, 2 neither is, 3 nothing there.
FlagOf(memory, s) ==
  LET check == Sanity(memory[s]) copy == Sanity(memory[Copy(s)])
  IN  CASE check = 0 -> 0
        [] check = 1 -> IF copy = 0 THEN 1 ELSE 2
        [] OTHER     -> IF copy = 0 THEN 1 ELSE IF copy = 1 THEN 2 ELSE 3

\* What a slot holds after a start from this memory.
Loaded(memory, s) ==
  IF Whole(memory[s]) THEN memory[s][0]
  ELSE IF Whole(memory[Copy(s)]) THEN memory[Copy(s)][0] ELSE 0

SlotOf(r) == IF r \in Slots THEN r ELSE r - N

BootFile(memory, s) ==
  CASE FlagOf(memory, s) = 0 -> memory[s]
    [] FlagOf(memory, s) = 1 -> memory[Copy(s)]
    [] OTHER                 -> Blank

BootFlash(memory, r) ==
  LET flag == FlagOf(memory, SlotOf(r))
  IN  CASE flag = 0 -> memory[SlotOf(r)]
        [] flag = 3 -> Blank
        [] OTHER    -> memory[r]

SramRead_All(memory) ==
  /\ ewram' = [r \in Region |-> BootFile(memory, SlotOf(r))]
  /\ flash' = [r \in Region |-> BootFlash(memory, r)]
  /\ corruptionFlag' = [s \in Slots |-> FlagOf(memory, s) % 3]
  /\ repaired' = {} /\ astray' = {}
  /\ kind' = "none" /\ slot' = 1 /\ dst' = 1
  /\ now' = [s \in Slots |-> Loaded(memory, s)]

(***************************************************************************)
(* The end of a frame: Port_FlushSramIfDirty.  A snapshot can be replaced,  *)
(* or cut short, before it is mzm.sav (SramFile).                           *)
(***************************************************************************)
Snapshot ==
  \/ card' = flash' /\ missed' = 0
  \/ missed < MaxMissed /\ missed' = missed + 1 /\ UNCHANGED card

\* Seeded defect: a write does not start the count of idle frames again.
DefectNoReset(wrote) ==
  IF ~ (sSramDirty \/ wrote) THEN UNCHANGED <<card, dirty>>
  ELSE IF sDirtyIdleFrames + 1 < SRAM_FLUSH_IDLE_FRAMES /\ sDirtyAgeFrames + 1 < SRAM_FLUSH_MAX_FRAMES
  THEN /\ sSramDirty' = TRUE /\ sDirtyIdleFrames' = sDirtyIdleFrames + 1
       /\ sDirtyAgeFrames' = sDirtyAgeFrames + 1 /\ UNCHANGED <<card, missed>>
  ELSE /\ sSramDirty' = FALSE /\ sDirtyIdleFrames' = 0 /\ sDirtyAgeFrames' = 0
       /\ Snapshot

EndFrame(wrote) ==
  LET idle == IF wrote THEN 1 ELSE sDirtyIdleFrames + 1 IN
  IF ~ (sSramDirty \/ wrote) THEN UNCHANGED <<card, dirty>>
  ELSE IF idle < SRAM_FLUSH_IDLE_FRAMES /\ sDirtyAgeFrames + 1 < SRAM_FLUSH_MAX_FRAMES
  THEN /\ sSramDirty' = TRUE /\ sDirtyIdleFrames' = idle
       /\ sDirtyAgeFrames' = sDirtyAgeFrames + 1 /\ UNCHANGED <<card, missed>>
  ELSE /\ sSramDirty' = FALSE /\ sDirtyIdleFrames' = 0 /\ sDirtyAgeFrames' = 0
       /\ Snapshot

\* Cards a program could have left: a slot is empty or has a file and its backup, but for one
\* region at most, which was begun, erased to its first chunk only, or erased.
Begun(s) == [Blank EXCEPT ![0] = s]
Erased(s) == [File(s) EXCEPT ![0] = 0]

SoundCards == {[r \in Region |-> IF SlotOf(r) \in used THEN File(SlotOf(r)) ELSE Blank] :
                used \in SUBSET Slots}

Init ==
  /\ \E memory \in SoundCards, r \in Region :
       card \in {memory} \cup
               {[memory EXCEPT ![r] = f] : f \in {Begun(SlotOf(r)), Erased(SlotOf(r)), Blank}}
  /\ ewram = [r \in Region |-> BootFile(card, SlotOf(r))]
  /\ flash = [r \in Region |-> BootFlash(card, r)]
  /\ corruptionFlag = [s \in Slots |-> FlagOf(card, s) % 3] /\ repaired = {}
  /\ kind = "none" /\ slot = 1 /\ dst = 1
  /\ gSramOperationStage = 0 /\ gUnk_3000C20 = 0 /\ gDisableSoftReset = FALSE
  /\ sSramDirty = TRUE /\ sDirtyIdleFrames = 0 /\ sDirtyAgeFrames = 0 /\ missed = 0
  /\ made = N /\ restarts = 0 /\ now = [s \in Slots |-> Loaded(card, s)] /\ astray = {}

Repairing == kind \in {"repair", "repairCopy"}
Free == kind = "none" \/ Repairing
Target == IF kind = "copy" THEN dst ELSE slot      \* the slot an operation works on
HandlerDone == \A s \in Slots : corruptionFlag[s] = 0 \/ s \in repaired

\* The program ends at any point and starts again.
Restart ==
  /\ SramRead_All(card) /\ UNCHANGED card
  /\ gSramOperationStage' = 0 /\ gUnk_3000C20' = 0 /\ gDisableSoftReset' = FALSE
  /\ sSramDirty' = TRUE /\ sDirtyIdleFrames' = 0 /\ sDirtyAgeFrames' = 0 /\ missed' = 0
  /\ UNCHANGED <<made, restarts>>

\* The port's IWRAM is an array beside the game's variables (port_gba_mem.c:12): clearing it
\* leaves the stage, the flag and the chunk count as they are.  SramRead_All reads through
\* SramWriteUnchecked, which marks the memory dirty.
SoftReset ==
  SramRead_All(flash) /\ EndFrame(TRUE) /\ UNCHANGED <<gSramOperationStage, gUnk_3000C20, made>>

\* A+B+START+SELECT; the handler does not set the flag.
SoftResetCheck ==
  ~ gDisableSoftReset /\ Free /\ SoftReset /\ UNCHANGED <<gDisableSoftReset, restarts>>

\* RESTART in the bottom screen's options, in any frame.  The flag is set too in easy sleep and
\* from the first ending to the end of its credits, when no operation is under way.
TriggerGameRestart ==
  /\ restarts < MaxRestarts /\ restarts' = restarts + 1 /\ SoftReset
  /\ \/ UNCHANGED gDisableSoftReset
     \/ kind = "none" /\ HandlerDone /\ gDisableSoftReset' = TRUE

(***************************************************************************)
(* unk_fbc, once a frame: 0 and 1 write a chunk of the file or the backup,  *)
(* 2 reads one of the file (which marks the memory dirty too), 4 counts.    *)
(***************************************************************************)
\* The chunk of region r, and with the last one the first of the next region.
Moved(from, to, r) ==
  [q \in Region |-> [c \in Chunk |->
    IF \/ q = r /\ c = gUnk_3000C20
       \/ q = r + 1 /\ c = 0 /\ gUnk_3000C20 = Last
    THEN from[q][c] ELSE to[q][c]]]

unk_fbc(param, s) ==
  /\ \/ param = 0 /\ flash' = Moved(ewram, flash, s) /\ UNCHANGED ewram
     \/ param = 1 /\ flash' = Moved(ewram, flash, Copy(s)) /\ UNCHANGED ewram
     \/ param = 2 /\ ewram' = Moved(flash, ewram, s) /\ UNCHANGED flash
     \/ param = 4 /\ UNCHANGED regions
  /\ gUnk_3000C20' = (gUnk_3000C20 + 1) % CHUNKS
  /\ EndFrame(param # 4)

\* A stage that calls unk_fbc until it has moved the last chunk.
Stream(param, s, next) ==
  /\ unk_fbc(param, s)
  /\ gSramOperationStage' = IF gUnk_3000C20 = Last THEN next ELSE gSramOperationStage
  /\ UNCHANGED <<slots, operation, gDisableSoftReset, made, restarts, now, astray>>

\* A stage that does not touch the save memory; ewram' is the caller's.
Stage(next) ==
  /\ gSramOperationStage' = next
  /\ UNCHANGED <<flash, operation, gDisableSoftReset, made, restarts, now, astray>>
  /\ EndFrame(FALSE)

Keeps == UNCHANGED <<slots, gUnk_3000C20>>

In(k, stage) == kind = k /\ gSramOperationStage = stage

\* The last stage: the operation is over, and its slot is what EWRAM shows.  SramSaveFile leaves
\* its stage as it is.
Held == [now EXCEPT ![Target] = ewram[Target][0]]

Ends ==
  /\ kind' = "none" /\ gDisableSoftReset' = FALSE /\ now' = Held
  /\ gSramOperationStage' = IF kind = "save" THEN gSramOperationStage ELSE 0
  /\ UNCHANGED <<regions, slots, slot, dst, gUnk_3000C20, made, restarts, astray>>
  /\ EndFrame(FALSE)

NewSave == made < MaxVersion

\* Between two operations the player plays, or the game writes its options, language or times.
Idle(wrote) ==
  /\ kind = "none" /\ (wrote => ~ sSramDirty)
  /\ UNCHANGED <<regions, slots, operation, progress, made, restarts, now, astray>>
  /\ EndFrame(wrote)

Wait == sSramDirty /\ Idle(FALSE)
OtherWrite == Idle(TRUE)

\* The file select starts a game.
EnterGame ==
  /\ kind = "none" /\ HandlerDone /\ gDisableSoftReset /\ gDisableSoftReset' = FALSE
  /\ UNCHANGED <<regions, card, slots, operation, gSramOperationStage, gUnk_3000C20, dirty, made,
                 restarts, now, astray>>

\* An operation follows prompts and animations, and other writes by a few frames at most.
Begins(k, s, t) ==
  /\ kind = "none" /\ sDirtyAgeFrames <= Ahead /\ kind' = k /\ slot' = s /\ dst' = t
  /\ astray = {} \/ PlaysOn
  /\ UNCHANGED <<regions, card, slots, dirty, made, restarts, now>>

Playable(s) == HandlerDone /\ ewram[s] # Blank
Enabled(s) == HandlerDone /\ ewram[s] # Blank /\ corruptionFlag[s] = 0    \* in the file select

\* The game saves: a flag that was left set was cleared when the game began, or (the intro, the
\* ending) the stage is set before the first call.  Only SramSaveFile sets the chunk count here.
BeginsInGame(k, s) ==
  /\ ~ gDisableSoftReset /\ NewSave /\ Begins(k, s, s)
  /\ gDisableSoftReset' = TRUE /\ gSramOperationStage' = 0
  /\ gUnk_3000C20' = IF k = "save" THEN 0 ELSE gUnk_3000C20
  /\ UNCHANGED astray

\* COPY and DELETE begin at stage 0 when the flag is clear, and never set the chunk count.
Stale == gUnk_3000C20 # 0 \/ (gDisableSoftReset /\ gSramOperationStage # 0)

BeginsInMenu(k, s, t) ==
  /\ Enabled(s) /\ Begins(k, s, t)
  /\ gDisableSoftReset' = TRUE
  /\ gSramOperationStage' = IF gDisableSoftReset THEN gSramOperationStage ELSE 0
  /\ astray' = IF Stale \/ s \in astray THEN astray \cup {t} ELSE astray
  /\ UNCHANGED gUnk_3000C20

\* A new game, also over an old file, begins with the intro's save; the others need a file.  The
\* handler goes by the flag, also one that stays after it, and the file select comes to it before
\* any other operation.
Begin ==
  \/ \E s \in Slots, k \in {"save", "ending"} : Playable(s) /\ BeginsInGame(k, s)
  \/ \E s \in Slots : HandlerDone /\ BeginsInGame("intro", s)
  \/ \E s \in Slots : BeginsInMenu("delete", s, s)
  \/ \E s, t \in Slots : s # t /\ BeginsInMenu("copy", s, t)
  \/ \E s \in Slots : /\ Begins("repair", s, s) /\ corruptionFlag[s] # 0 /\ gUnk_3000C20' = 0
                      /\ UNCHANGED <<gSramOperationStage, gDisableSoftReset, astray>>

(***************************************************************************)
(* SramSaveFile, SramProcessIntroSave and SramProcessEndingSave: the file   *)
(* is made in EWRAM, streamed to the save memory, and its backup made in    *)
(* EWRAM only.                                                             *)
(***************************************************************************)
Made(f) == /\ made' = made + 1 /\ ewram' = [ewram EXCEPT ![slot] = f]
           /\ gSramOperationStage' = gSramOperationStage + 1 /\ gUnk_3000C20' = 0
           /\ UNCHANGED <<flash, slots, operation, gDisableSoftReset, restarts, now, astray>>
           /\ EndFrame(FALSE)

\* The DMA to the backup in EWRAM.
Backup == ewram' = [ewram EXCEPT ![Copy(slot)] = ewram[slot]]

\* Stage 1 writes the world, stage 2 the rest.
SaveStep ==
  \/ In("save", 0) /\ Stream(4, slot, 1)
  \/ /\ In("save", 1) /\ Stage(2) /\ UNCHANGED slots
     /\ ewram' = [ewram EXCEPT ![slot][Last] = made + 1] /\ gUnk_3000C20' = 0
  \/ In("save", 2) /\ Made(File(made + 1))
  \/ In("save", 3) /\ Stream(0, slot, 4)
  \/ In("save", 4) /\ Backup /\ Stage(5) /\ Keeps
  \/ In("save", 5) /\ Ends

\* Stage 0 clears the file but its world; stage 1 writes header and checksum.
IntroStep ==
  \/ In("intro", 0) /\ Stage(1) /\ Keeps
     /\ ewram' = [ewram EXCEPT ![slot] = [c \in Chunk |-> IF c = Last THEN @[c] ELSE 0]]
  \/ In("intro", 1) /\ Made(File(made + 1))
  \/ In("intro", 2) /\ Stream(0, slot, 3)
  \/ In("intro", 3) /\ Backup /\ Stage(4) /\ Keeps
  \/ In("intro", 4) /\ Ends

\* SramCopy_GameCompletion gives the file it read a new checksum, whatever it read.
Completed(f) ==
  IF Whole(f) THEN File(made + 1) ELSE IF 0 \notin {f[0], f[1]} THEN File(Mixed) ELSE f

EndingStep ==
  \/ In("ending", 0) /\ Stage(1) /\ gUnk_3000C20' = 0 /\ UNCHANGED <<ewram, slots>>
  \/ In("ending", 1) /\ Stream(2, slot, 2)
  \/ In("ending", 2) /\ Made(Completed(ewram[slot]))
  \/ In("ending", 3) /\ Stream(0, slot, 4)
  \/ In("ending", 4) /\ Backup /\ Stage(5) /\ Keeps
  \/ In("ending", 5) /\ Ends

(***************************************************************************)
(* SramDeleteFile, SramCopyFile: file and backup, in EWRAM and then on the  *)
(* save memory.  The last case is also the default one.                    *)
(***************************************************************************)
InfoOf(t, flag) == corruptionFlag' = [corruptionFlag EXCEPT ![t] = flag] /\ UNCHANGED repaired

\* Seeded defect: the fill is of the size of all the files.
DefectFillsAll ==
  \/ In("delete", 0) /\ Stage(1) /\ InfoOf(slot, 0) /\ UNCHANGED gUnk_3000C20
     /\ ewram' = [r \in Region |-> IF r \in slot .. N THEN Blank ELSE ewram[r]]
  \/ In("delete", 1) /\ Stream(0, slot, 2)
  \/ In("delete", 2) /\ Stage(3) /\ Keeps /\ ewram' = [ewram EXCEPT ![Copy(slot)] = Blank]
  \/ In("delete", 3) /\ Stream(1, slot, 4)
  \/ kind = "delete" /\ gSramOperationStage >= 4 /\ Ends

DeleteStep ==
  \/ In("delete", 0) /\ Stage(1) /\ InfoOf(slot, 0) /\ UNCHANGED gUnk_3000C20
     /\ ewram' = [ewram EXCEPT ![slot] = Blank]
  \/ In("delete", 1) /\ Stream(0, slot, 2)
  \/ In("delete", 2) /\ Stage(3) /\ Keeps /\ ewram' = [ewram EXCEPT ![Copy(slot)] = Blank]
  \/ In("delete", 3) /\ Stream(1, slot, 4)
  \/ kind = "delete" /\ gSramOperationStage >= 4 /\ Ends

\* Seeded defect: unk_fbc goes by gMostRecentSaveFile, and it is left at the source.
DefectNoSwap ==
  \/ In("copy", 0) /\ Stage(1) /\ InfoOf(dst, corruptionFlag[slot]) /\ UNCHANGED gUnk_3000C20
     /\ ewram' = [ewram EXCEPT ![dst] = ewram[slot]]
  \/ In("copy", 1) /\ Stream(0, slot, 2)
  \/ In("copy", 2) /\ Stage(3) /\ Keeps /\ ewram' = [ewram EXCEPT ![Copy(dst)] = ewram[Copy(slot)]]
  \/ In("copy", 3) /\ Stream(1, slot, 4)
  \/ kind = "copy" /\ gSramOperationStage >= 4 /\ Ends

CopyStep ==
  \/ In("copy", 0) /\ Stage(1) /\ InfoOf(dst, corruptionFlag[slot]) /\ UNCHANGED gUnk_3000C20
     /\ ewram' = [ewram EXCEPT ![dst] = ewram[slot]]
  \/ In("copy", 1) /\ Stream(0, dst, 2)
  \/ In("copy", 2) /\ Stage(3) /\ Keeps /\ ewram' = [ewram EXCEPT ![Copy(dst)] = ewram[Copy(slot)]]
  \/ In("copy", 3) /\ Stream(1, dst, 4)
  \/ kind = "copy" /\ gSramOperationStage >= 4 /\ Ends

(***************************************************************************)
(* FileSelectCorruptedFileHandler: the file the start put in EWRAM goes to  *)
(* the save memory, and the blank backup too where there was no good one    *)
(* (that flag stays).  Its stage is the menu's, and it leaves               *)
(* gDisableSoftReset alone.                                                 *)
(***************************************************************************)
RepairOver ==
  /\ kind' = "none" /\ repaired' = repaired \cup {slot}
  /\ corruptionFlag' = [corruptionFlag EXCEPT ![slot] = IF @ = 1 THEN 0 ELSE @]

RepairGoesOn(k) == kind' = k /\ UNCHANGED slots

RepairStep ==
  /\ \/ /\ kind = "repair" /\ unk_fbc(0, slot)
        /\ IF gUnk_3000C20 # Last THEN RepairGoesOn("repair")
           ELSE IF corruptionFlag[slot] = 1 THEN RepairOver ELSE RepairGoesOn("repairCopy")
     \/ /\ kind = "repairCopy" /\ unk_fbc(1, slot)
        /\ IF gUnk_3000C20 = Last THEN RepairOver ELSE RepairGoesOn("repairCopy")
  /\ UNCHANGED <<slot, dst, gSramOperationStage, gDisableSoftReset, made, restarts, now, astray>>

Work == SaveStep \/ IntroStep \/ EndingStep \/ DeleteStep \/ CopyStep \/ RepairStep

Next ==
  \/ Restart \/ SoftResetCheck \/ TriggerGameRestart
  \/ Wait \/ OtherWrite \/ EnterGame \/ Begin \/ Work

Spec == Init /\ [][Next]_vars

(***************************************************************************)
(* Properties.                                                             *)
(***************************************************************************)

Memory == [Region -> [Chunk -> Content]]

\* Every variable has its type: a stage and a chunk stay in range whatever resets come between.
TypeOK ==
  /\ ewram \in Memory /\ flash \in Memory /\ card \in Memory
  /\ corruptionFlag \in [Slots -> 0 .. 2] /\ repaired \subseteq Slots
  /\ kind \in {"none", "save", "intro", "ending", "delete", "copy", "repair", "repairCopy"}
  /\ slot \in Slots /\ dst \in Slots
  /\ gSramOperationStage \in 0 .. 5 /\ gUnk_3000C20 \in Chunk /\ gDisableSoftReset \in BOOLEAN
  /\ sSramDirty \in BOOLEAN /\ sDirtyIdleFrames \in 0 .. SRAM_FLUSH_IDLE_FRAMES - 1
  /\ sDirtyAgeFrames \in 0 .. SRAM_FLUSH_MAX_FRAMES - 1
  /\ made \in 0 .. MaxVersion /\ restarts \in 0 .. MaxRestarts
  /\ missed \in 0 .. MaxMissed /\ now \in [Slots -> Content] /\ astray \subseteq Slots

\* Between two operations EWRAM, and a start from the save memory, show each slot the save that
\* was last made in it, copied to it or found by the start or reset, although the last chunk of
\* one file takes the first of the next with it, and half of an operation or of the handler's
\* work may have been reset.  The slot of a COPY or DELETE that began where a reset left another
\* operation is beyond this until the next start or reset.
SessionIsTheMemory ==
  Free => \A s \in Slots \ astray : ewram[s] = File(now[s]) /\ Loaded(flash, s) = now[s]

Worked == IF Free THEN {} ELSE {Target}

\* However far an operation is, and wherever it is reset, a start from the save memory finds in
\* the other slots what it would have found before the operation.
OthersUntouched ==
  [][~ Restart => \A s \in Slots \ (astray \cup Worked) : Loaded(flash', s) = Loaded(flash, s)]_vars

\* The card has the slots of one moment between two operations: no half of an operation that
\* runs to its end reaches it, no save is lost to a bad file, and a deleted slot does not come
\* back.  An operation cut by RESTART leaves its slot what it held, what the operation puts in
\* it, the backup on the save memory, or nothing, and the other slots as they were.
Store == INSTANCE SlotStore WITH
  Version <- Save, None <- 0, kept <- now, stored <- [s \in Slots |-> Loaded(card, s)],
  spare <- [s \in Slots |-> IF Whole(flash[Copy(s)]) THEN flash[Copy(s)][0] ELSE 0]

ImplementsSlotStore == Store!Spec

\* "Copies a save file" (save_file.c:2003): when SramCopyFile returns TRUE the save memory has
\* the file of the source under the destination.
CopyCopies ==
  [][CopyStep /\ kind' = "none" => flash'[dst] = ewram[slot]]_vars
=============================================================================
