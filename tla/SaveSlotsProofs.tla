--------------------------- MODULE SaveSlotsProofs ---------------------------
(***************************************************************************)
(* Proofs of SaveSlots, for any number of slots, of chunks and of resets,   *)
(* RESTART in the middle of an operation included.                         *)
(*                                                                         *)
(* A slot that no operation works on is at rest (AtRest), and the slot of   *)
(* an operation is as far as its stage (Stages), but for the slots that are *)
(* astray.  From these follow the properties of the session and of the      *)
(* other slots.  The card needs three things more: the age of the first     *)
(* unsaved write stays behind the frames the operation has taken (Clock),   *)
(* which leaves no frame for a snapshot between its first write and its     *)
(* last; no chunk is of a save that was not made (SeenAll), so that a reset *)
(* finds none; and the save an operation is about to put in a slot is newer *)
(* than every other (Known).                                               *)
(***************************************************************************)
EXTENDS SaveSlots, TLAPS

Operations == {"save", "intro", "ending", "delete", "copy"}
Repairs == {"repair", "repairCopy"}

\* The stage from which on the new save is made, and its number taken.
MakesSave == kind \in {"save", "intro", "ending"}
MadeAt == IF kind = "intro" THEN 2 ELSE 3

\* An operation that has yet to make its save has a number for it.
Room == MakesSave /\ gSramOperationStage < MadeAt => made < MaxVersion

TInv == TypeOK /\ Room

\* The parts of the type invariant that a frame changes.
MemoryType == ewram \in Memory /\ flash \in Memory
CardType ==
  /\ card \in Memory
  /\ sSramDirty \in BOOLEAN /\ sDirtyIdleFrames \in 0 .. SRAM_FLUSH_IDLE_FRAMES - 1
  /\ sDirtyAgeFrames \in 0 .. SRAM_FLUSH_MAX_FRAMES - 1
  /\ missed \in 0 .. MaxMissed
SlotsType == corruptionFlag \in [Slots -> 0 .. 2] /\ repaired \subseteq Slots
OperationType ==
  /\ kind \in Operations \cup Repairs \cup {"none"} /\ slot \in Slots /\ dst \in Slots
  /\ gSramOperationStage \in 0 .. 5 /\ gUnk_3000C20 \in Chunk /\ gDisableSoftReset \in BOOLEAN
SavesType ==
  /\ made \in 0 .. MaxVersion /\ restarts \in 0 .. MaxRestarts
  /\ now \in [Slots -> Content] /\ astray \subseteq Slots

\* The type invariant, cut at what the frames of the operations change together.
LEMMA TypeParts ==
  /\ TypeOK <=> MemoryType /\ CardType /\ SlotsType /\ OperationType /\ SavesType
  /\ TypeOK' <=> MemoryType' /\ CardType' /\ SlotsType' /\ OperationType' /\ SavesType'
  BY DEF TypeOK, MemoryType, CardType, SlotsType, OperationType, SavesType, Operations, Repairs

\* Chunks: the first two, the last, and the count that wraps to 0 after it.
LEMMA Sizes ==
  /\ 0 \in Chunk /\ 1 \in Chunk /\ Last \in Chunk /\ Chunk \subseteq Nat
  /\ \A k \in Chunk : (k + 1) % CHUNKS = (IF k = Last THEN 0 ELSE k + 1)
  /\ \A k \in Chunk : (k + 1) % CHUNKS \in Chunk
  <1>1. CHUNKS \in Nat /\ CHUNKS >= 2
    BY SaveSlotsAssumption
  <1>2. 0 \in Chunk /\ 1 \in Chunk /\ Last \in Chunk /\ Chunk \subseteq Nat
    BY <1>1 DEF Chunk, Last
  <1>3. ASSUME NEW k \in Chunk PROVE (k + 1) % CHUNKS = (IF k = Last THEN 0 ELSE k + 1)
    BY <1>1 DEF Chunk, Last
  <1>4. ASSUME NEW k \in Chunk PROVE (k + 1) % CHUNKS \in Chunk
    BY <1>1, <1>2, <1>3 DEF Chunk, Last
  <1> QED BY <1>2, <1>3, <1>4

\* What a chunk and a file can hold.
LEMMA Contents ==
  /\ 0 \in Content /\ Mixed \in Content /\ Mixed # 0
  /\ \A v \in 0 .. MaxVersion : v \in Content
  /\ \A s \in Slots : s \in Content
  /\ \A v \in Content : File(v) \in [Chunk -> Content]
  /\ Blank \in [Chunk -> Content]
  BY SaveSlotsAssumption DEF Content, Save, File, Blank, Slots

\* A slot's file and its backup are two regions, and no slots share one.
LEMMA Regions ==
  /\ N \in Nat
  /\ \A s \in Slots : s \in Region /\ Copy(s) \in Region /\ s # Copy(s) /\ Copy(s) \notin Slots
  /\ \A s \in Slots : SlotOf(s) = s /\ SlotOf(Copy(s)) = s
  /\ \A r \in Region : SlotOf(r) \in Slots
  /\ \A s, t \in Slots : s # Copy(t) /\ (Copy(s) = Copy(t) => s = t)
  /\ 1 \in Slots
  BY SaveSlotsAssumption DEF Slots, Region, Copy, SlotOf

\* The end of a frame keeps the counters in range, and mzm.sav is as it was or as the memory is.
LEMMA EndFrameType ==
  ASSUME TypeOK, NEW wrote \in BOOLEAN, EndFrame(wrote), flash' \in Memory
  PROVE  CardType' /\ card' \in {card, flash'}
  <1>1. /\ SRAM_FLUSH_IDLE_FRAMES \in Nat \ {0} /\ SRAM_FLUSH_MAX_FRAMES \in Nat \ {0}
        /\ sDirtyIdleFrames \in Nat /\ sDirtyAgeFrames \in Nat
    BY SaveSlotsAssumption DEF TypeOK
  <1>2. CASE ~ (sSramDirty \/ wrote)
    BY <1>2 DEF TypeOK, EndFrame, dirty, CardType
  <1>3. CASE sSramDirty \/ wrote
    <2> DEFINE idle == IF wrote THEN 1 ELSE sDirtyIdleFrames + 1
    <2>1. idle \in Nat
      BY <1>1
    <2>2. CASE idle < SRAM_FLUSH_IDLE_FRAMES /\ sDirtyAgeFrames + 1 < SRAM_FLUSH_MAX_FRAMES
      <3>1. /\ sSramDirty' = TRUE /\ sDirtyIdleFrames' = idle
            /\ sDirtyAgeFrames' = sDirtyAgeFrames + 1 /\ card' = card /\ missed' = missed
        BY <1>3, <2>2 DEF EndFrame
      <3> HIDE DEF idle
      <3> QED BY <1>1, <2>1, <2>2, <3>1 DEF TypeOK, CardType
    <2>3. CASE ~ (idle < SRAM_FLUSH_IDLE_FRAMES /\ sDirtyAgeFrames + 1 < SRAM_FLUSH_MAX_FRAMES)
      <3>1. /\ sSramDirty' = FALSE /\ sDirtyIdleFrames' = 0 /\ sDirtyAgeFrames' = 0
            /\ card' \in {card, flash'}
        BY <1>3, <2>3 DEF EndFrame, Snapshot
      <3>2. card' \in Memory /\ missed' \in 0 .. MaxMissed
        <4>1. Snapshot
          BY <1>3, <2>3 DEF EndFrame
        <4>2. missed' \in 0 .. MaxMissed
          BY <4>1, SaveSlotsAssumption DEF TypeOK, Snapshot
        <4> QED BY <3>1, <4>2 DEF TypeOK
      <3>3. sSramDirty' \in BOOLEAN
        BY <3>1
      <3>4. /\ sDirtyIdleFrames' \in 0 .. SRAM_FLUSH_IDLE_FRAMES - 1
            /\ sDirtyAgeFrames' \in 0 .. SRAM_FLUSH_MAX_FRAMES - 1
        BY <1>1, <3>1
      <3> QED BY <3>1, <3>2, <3>3, <3>4 DEF CardType
    <2> QED BY <2>2, <2>3
  <1> QED BY <1>2, <1>3

\* Moving a chunk, and the first of the next region, gives a memory.
LEMMA MovedType ==
  ASSUME NEW from \in Memory, NEW to \in Memory, NEW r \in Region
  PROVE  Moved(from, to, r) \in Memory
  <1>1. \A q \in Region, c \in Chunk : from[q][c] \in Content /\ to[q][c] \in Content
    BY DEF Memory
  <1> QED BY <1>1 DEF Moved, Memory

\* A start reads a memory from any memory.
LEMMA BootType ==
  ASSUME NEW memory \in Memory
  PROVE  /\ \A s \in Slots : FlagOf(memory, s) \in 0 .. 3 /\ FlagOf(memory, s) % 3 \in 0 .. 2
         /\ \A s \in Slots : BootFile(memory, s) \in [Chunk -> Content]
         /\ \A r \in Region : BootFlash(memory, r) \in [Chunk -> Content]
         /\ \A s \in Slots : Loaded(memory, s) \in Content
  <1>1. ASSUME NEW s \in Slots PROVE FlagOf(memory, s) \in 0 .. 3
    BY DEF FlagOf
  <1>2. \A s \in Slots : FlagOf(memory, s) % 3 \in 0 .. 2
    BY <1>1
  <1>3. \A s \in Slots : BootFile(memory, s) \in [Chunk -> Content]
    BY Regions, Contents DEF BootFile, Memory
  <1>4. \A r \in Region : BootFlash(memory, r) \in [Chunk -> Content]
    BY Regions, Contents DEF BootFlash, Memory
  <1>5. \A s \in Slots : Loaded(memory, s) \in Content
    <2>1. \A r \in Region : memory[r][0] \in Content
      BY Sizes DEF Memory
    <2> QED BY <2>1, Regions, Contents DEF Loaded
  <1> QED BY <1>1, <1>2, <1>3, <1>4, <1>5

\* A start, for the memory, the flags, the slots and the operation.
LEMMA ReadAllType ==
  ASSUME NEW memory \in Memory, SramRead_All(memory)
  PROVE  /\ MemoryType' /\ SlotsType'
         /\ kind' = "none" /\ slot' \in Slots /\ dst' \in Slots
         /\ now' \in [Slots -> Content] /\ astray' \subseteq Slots /\ Room'
  <1>1. MemoryType' /\ SlotsType'
    BY BootType, Regions DEF SramRead_All, Memory, MemoryType, SlotsType
  <1>2. /\ kind' = "none" /\ slot' \in Slots /\ dst' \in Slots
        /\ now' \in [Slots -> Content] /\ astray' \subseteq Slots
    BY BootType, Regions DEF SramRead_All
  <1>3. Room'
    BY <1>2 DEF Room, MakesSave
  <1> QED BY <1>1, <1>2, <1>3

\* A frame of unk_fbc keeps the memories, the counters and the chunk count in range.
LEMMA FrameType ==
  ASSUME TypeOK, NEW param \in {0, 1, 2, 4}, NEW s \in Slots, unk_fbc(param, s)
  PROVE  MemoryType' /\ CardType' /\ gUnk_3000C20' \in Chunk
  <1>1. s \in Region /\ Copy(s) \in Region
    BY Regions
  <1>2. MemoryType'
    BY <1>1, MovedType DEF unk_fbc, TypeOK, MemoryType, regions
  <1>3. CardType'
    BY <1>2, EndFrameType DEF unk_fbc, MemoryType
  <1>4. gUnk_3000C20' \in Chunk
    BY Sizes DEF unk_fbc, TypeOK
  <1> QED BY <1>2, <1>3, <1>4

\* The types after a stage that streams a file.
LEMMA StreamType ==
  ASSUME TInv, NEW param \in {0, 1, 2, 4}, NEW s \in Slots, NEW next \in 0 .. 5,
         Stream(param, s, next), gSramOperationStage <= next
  PROVE  TInv'
  <1>1. MemoryType' /\ CardType' /\ gUnk_3000C20' \in Chunk
    BY FrameType DEF Stream, TInv
  <1>2. SlotsType' /\ SavesType'
    BY TypeParts DEF Stream, TInv, SlotsType, SavesType, slots
  <1>3. OperationType'
    BY <1>1, TypeParts DEF Stream, TInv, OperationType, operation
  <1>4. Room'
    BY DEF Stream, TInv, Room, TypeOK, MakesSave, MadeAt, operation
  <1> QED BY <1>1, <1>2, <1>3, <1>4, TypeParts DEF TInv

\* A stage that changes one region of EWRAM.
LEMMA StageType ==
  ASSUME TInv, NEW next \in 0 .. 5, Stage(next), gSramOperationStage <= next,
         ewram' \in Memory, SlotsType', gUnk_3000C20' \in Chunk
  PROVE  TInv'
  <1>1. MemoryType' /\ CardType'
    <2>1. flash' \in Memory
      BY DEF Stage, TInv, TypeOK
    <2> QED BY <2>1, EndFrameType DEF Stage, TInv, MemoryType
  <1>2. OperationType' /\ SavesType'
    BY TypeParts DEF Stage, TInv, OperationType, SavesType, operation
  <1>3. Room'
    BY DEF Stage, TInv, Room, TypeOK, MakesSave, MadeAt, operation
  <1> QED BY <1>1, <1>2, <1>3, TypeParts DEF TInv

\* What the stages put in EWRAM, in the save table and in the slots.
LEMMA PutsType ==
  ASSUME TypeOK
  PROVE  /\ \A r \in Region : ewram[r] \in [Chunk -> Content]
         /\ \A r \in Region : \A f \in [Chunk -> Content] : [ewram EXCEPT ![r] = f] \in Memory
         /\ \A r \in Region : \A c \in Chunk : \A v \in Content :
              [ewram EXCEPT ![r][c] = v] \in Memory
         /\ Held \in [Slots -> Content]
         /\ SlotsType
         /\ \A s \in Slots : \A flag \in 0 .. 2 : InfoOf(s, flag) => SlotsType'
  <1>1. /\ \A r \in Region : ewram[r] \in [Chunk -> Content]
        /\ \A r \in Region : \A f \in [Chunk -> Content] : [ewram EXCEPT ![r] = f] \in Memory
    BY DEF TypeOK, Memory
  <1>2. ASSUME NEW r \in Region, NEW c \in Chunk, NEW v \in Content
        PROVE  [ewram EXCEPT ![r][c] = v] \in Memory
    BY DEF TypeOK, Memory
  <1>3. Held \in [Slots -> Content]
    <2>1. Target \in Slots
      BY DEF TypeOK, Target
    <2> QED BY <1>1, <2>1, Regions, Sizes DEF TypeOK, Held
  <1>4. ASSUME NEW s \in Slots, NEW flag \in 0 .. 2, InfoOf(s, flag)
        PROVE  SlotsType'
    BY <1>4 DEF TypeOK, SlotsType, InfoOf
  <1> QED BY <1>1, <1>2, <1>3, <1>4, TypeParts

\* The types after the last stage of an operation.
LEMMA EndsType ==
  ASSUME TInv, Ends
  PROVE  TInv'
  <1>0. Held \in [Slots -> Content]
    BY PutsType DEF TInv
  <1>1. MemoryType' /\ SlotsType' /\ SavesType'
    BY <1>0, TypeParts DEF Ends, TInv, MemoryType, SlotsType, SavesType, regions, slots
  <1>2. CardType'
    BY <1>1, EndFrameType DEF Ends, TInv, MemoryType
  <1>3. OperationType'
    <2>1. gSramOperationStage' \in {0, gSramOperationStage} /\ gDisableSoftReset' \in BOOLEAN
      BY DEF Ends
    <2>2. kind' = "none" /\ UNCHANGED <<slot, dst, gUnk_3000C20>>
      BY DEF Ends
    <2> QED BY <2>1, <2>2, TypeParts DEF TInv, OperationType
  <1>4. Room'
    BY DEF Ends, Room, MakesSave
  <1> QED BY <1>1, <1>2, <1>3, <1>4, TypeParts DEF TInv

\* The types after the stage that makes the save, and takes its number.
LEMMA MadeType ==
  ASSUME TInv, NEW f \in [Chunk -> Content], Made(f), gSramOperationStage <= 4,
         made < MaxVersion, MakesSave => gSramOperationStage + 1 >= MadeAt
  PROVE  TInv'
  <1>1. MemoryType' /\ SlotsType'
    BY TypeParts, Regions DEF Made, TInv, MemoryType, SlotsType, slots, OperationType, Memory
  <1>2. CardType'
    BY <1>1, EndFrameType DEF Made, TInv, MemoryType
  <1>3. SavesType'
    BY SaveSlotsAssumption, TypeParts DEF Made, TInv, SavesType
  <1>4. OperationType'
    BY Sizes, TypeParts DEF Made, TInv, OperationType, operation
  <1>5. Room'
    BY TypeParts DEF Made, TInv, Room, OperationType, MakesSave, MadeAt, operation
  <1> QED BY <1>1, <1>2, <1>3, <1>4, <1>5, TypeParts DEF TInv

\* What SramCopy_GameCompletion leaves of a file is a file.
LEMMA CompletedType ==
  ASSUME TypeOK, made < MaxVersion
  PROVE  File(made + 1) \in [Chunk -> Content] /\ Completed(ewram[slot]) \in [Chunk -> Content]
  <1>1. made + 1 \in 0 .. MaxVersion
    BY SaveSlotsAssumption DEF TypeOK
  <1>2. ewram[slot] \in [Chunk -> Content]
    BY PutsType, Regions DEF TypeOK
  <1> QED BY <1>1, <1>2, Contents DEF Completed

\* Types, one operation at a time.
LEMMA SaveStepType == TInv /\ SaveStep => TInv'
  <1> SUFFICES ASSUME TInv, SaveStep PROVE TInv'
    OBVIOUS
  <1> USE DEF In
  <1>1. TypeOK /\ slot \in Slots /\ slot \in Region /\ Copy(slot) \in Region
    BY Regions DEF TInv, TypeOK
  <1>2. SlotsType /\ Held \in [Slots -> Content] /\ gUnk_3000C20 \in Chunk
    BY <1>1, PutsType DEF TypeOK
  <1>3. CASE In("save", 0) /\ Stream(4, slot, 1)
    BY <1>1, <1>3, StreamType
  <1>4. CASE /\ In("save", 1) /\ Stage(2) /\ UNCHANGED slots
             /\ ewram' = [ewram EXCEPT ![slot][Last] = made + 1] /\ gUnk_3000C20' = 0
    <2>1. made + 1 \in Content
      <3>1. made < MaxVersion
        BY <1>4 DEF TInv, Room, MakesSave, MadeAt
      <3>2. made + 1 \in 0 .. MaxVersion
        BY <1>1, <3>1, SaveSlotsAssumption DEF TypeOK
      <3> QED BY <3>2, Contents
    <2>2. ewram' \in Memory
      <3>1. ewram[slot] \in [Chunk -> Content]
        BY <1>1, PutsType
      <3>2. [ewram[slot] EXCEPT ![Last] = made + 1] \in [Chunk -> Content]
        BY <2>1, <3>1
      <3>3. ewram' = [ewram EXCEPT ![slot] = [ewram[slot] EXCEPT ![Last] = made + 1]]
        BY <1>4
      <3> QED BY <1>1, <3>2, <3>3 DEF TypeOK, Memory
    <2>3. SlotsType'
      BY <1>2, <1>4 DEF SlotsType, slots
    <2> QED BY <1>4, <2>2, <2>3, StageType, Sizes
  <1>5. CASE In("save", 2) /\ Made(File(made + 1))
    <2>1. made < MaxVersion
      BY <1>5 DEF TInv, Room, MakesSave, MadeAt
    <2> QED BY <1>1, <1>5, <2>1, CompletedType, MadeType DEF MadeAt
  <1>6. CASE In("save", 3) /\ Stream(0, slot, 4)
    BY <1>1, <1>6, StreamType
  <1>7. CASE In("save", 4) /\ Backup /\ Stage(5) /\ Keeps
    <2>1. ewram' \in Memory
      BY <1>1, <1>7 DEF Backup, TypeOK, Memory
    <2>2. SlotsType' /\ gUnk_3000C20' \in Chunk
      BY <1>2, <1>7 DEF Keeps, SlotsType, slots
    <2> QED BY <1>7, <2>1, <2>2, StageType
  <1>8. CASE In("save", 5) /\ Ends
    BY <1>2, <1>8, EndsType
  <1> QED BY <1>3, <1>4, <1>5, <1>6, <1>7, <1>8 DEF SaveStep

LEMMA IntroStepType == TInv /\ IntroStep => TInv'
  <1> SUFFICES ASSUME TInv, IntroStep PROVE TInv'
    OBVIOUS
  <1> USE DEF In
  <1>1. TypeOK /\ slot \in Slots /\ slot \in Region /\ Copy(slot) \in Region
    BY Regions DEF TInv, TypeOK
  <1>2. SlotsType /\ Held \in [Slots -> Content] /\ gUnk_3000C20 \in Chunk
    BY <1>1, PutsType DEF TypeOK
  <1>3. CASE In("intro", 0) /\ Stage(1) /\ Keeps
             /\ ewram' = [ewram EXCEPT ![slot] = [c \in Chunk |-> IF c = Last THEN @[c] ELSE 0]]
    <2>1. [c \in Chunk |-> IF c = Last THEN ewram[slot][c] ELSE 0] \in [Chunk -> Content]
      <3>1. ewram[slot] \in [Chunk -> Content]
        BY <1>1, PutsType
      <3> QED BY <3>1, Contents
    <2>2. ewram' \in Memory
      BY <1>1, <1>3, <2>1, PutsType DEF TypeOK, Memory
    <2>3. SlotsType' /\ gUnk_3000C20' \in Chunk
      BY <1>2, <1>3 DEF Keeps, SlotsType, slots
    <2> QED BY <1>3, <2>2, <2>3, StageType
  <1>4. CASE In("intro", 1) /\ Made(File(made + 1))
    <2>1. made < MaxVersion
      BY <1>4 DEF TInv, Room, MakesSave, MadeAt
    <2> QED BY <1>1, <1>4, <2>1, CompletedType, MadeType DEF MadeAt
  <1>5. CASE In("intro", 2) /\ Stream(0, slot, 3)
    BY <1>1, <1>5, StreamType
  <1>6. CASE In("intro", 3) /\ Backup /\ Stage(4) /\ Keeps
    <2>1. ewram' \in Memory
      BY <1>1, <1>6 DEF Backup, TypeOK, Memory
    <2>2. SlotsType' /\ gUnk_3000C20' \in Chunk
      BY <1>2, <1>6 DEF Keeps, SlotsType, slots
    <2> QED BY <1>6, <2>1, <2>2, StageType
  <1>7. CASE In("intro", 4) /\ Ends
    BY <1>2, <1>7, EndsType
  <1> QED BY <1>3, <1>4, <1>5, <1>6, <1>7 DEF IntroStep

LEMMA EndingStepType == TInv /\ EndingStep => TInv'
  <1> SUFFICES ASSUME TInv, EndingStep PROVE TInv'
    OBVIOUS
  <1> USE DEF In
  <1>1. TypeOK /\ slot \in Slots /\ slot \in Region /\ Copy(slot) \in Region
    BY Regions DEF TInv, TypeOK
  <1>2. SlotsType /\ Held \in [Slots -> Content] /\ gUnk_3000C20 \in Chunk
    BY <1>1, PutsType DEF TypeOK
  <1>3. CASE In("ending", 0) /\ Stage(1) /\ gUnk_3000C20' = 0 /\ UNCHANGED <<ewram, slots>>
    BY <1>1, <1>2, <1>3, StageType, Sizes DEF SlotsType, slots, TypeOK
  <1>4. CASE In("ending", 1) /\ Stream(2, slot, 2)
    BY <1>1, <1>4, StreamType
  <1>5. CASE In("ending", 2) /\ Made(Completed(ewram[slot]))
    <2>1. made < MaxVersion
      BY <1>5 DEF TInv, Room, MakesSave, MadeAt
    <2> QED BY <1>1, <1>5, <2>1, CompletedType, MadeType DEF MadeAt
  <1>6. CASE In("ending", 3) /\ Stream(0, slot, 4)
    BY <1>1, <1>6, StreamType
  <1>7. CASE In("ending", 4) /\ Backup /\ Stage(5) /\ Keeps
    <2>1. ewram' \in Memory
      BY <1>1, <1>7 DEF Backup, TypeOK, Memory
    <2>2. SlotsType' /\ gUnk_3000C20' \in Chunk
      BY <1>2, <1>7 DEF Keeps, SlotsType, slots
    <2> QED BY <1>7, <2>1, <2>2, StageType
  <1>8. CASE In("ending", 5) /\ Ends
    BY <1>2, <1>8, EndsType
  <1> QED BY <1>3, <1>4, <1>5, <1>6, <1>7, <1>8 DEF EndingStep

LEMMA DeleteStepType == TInv /\ DeleteStep => TInv'
  <1> SUFFICES ASSUME TInv, DeleteStep PROVE TInv'
    OBVIOUS
  <1> USE DEF In
  <1>1. /\ TypeOK /\ slot \in Slots /\ slot \in Region /\ Copy(slot) \in Region
        /\ gUnk_3000C20 \in Chunk /\ SlotsType
    BY Regions DEF TInv, TypeOK, SlotsType
  <1>2. CASE /\ In("delete", 0) /\ Stage(1) /\ InfoOf(slot, 0) /\ UNCHANGED gUnk_3000C20
             /\ ewram' = [ewram EXCEPT ![slot] = Blank]
    <2>1. ewram' \in Memory
      BY <1>1, <1>2, Contents DEF TypeOK, Memory
    <2>2. SlotsType' /\ gUnk_3000C20' \in Chunk
      BY <1>1, <1>2, PutsType
    <2> QED BY <1>2, <2>1, <2>2, StageType
  <1>3. CASE In("delete", 1) /\ Stream(0, slot, 2)
    BY <1>1, <1>3, StreamType
  <1>4. CASE /\ In("delete", 2) /\ Stage(3) /\ Keeps
             /\ ewram' = [ewram EXCEPT ![Copy(slot)] = Blank]
    <2>1. ewram' \in Memory
      BY <1>1, <1>4, Contents DEF TypeOK, Memory
    <2>2. SlotsType' /\ gUnk_3000C20' \in Chunk
      BY <1>1, <1>4 DEF Keeps, SlotsType, slots
    <2> QED BY <1>4, <2>1, <2>2, StageType
  <1>5. CASE In("delete", 3) /\ Stream(1, slot, 4)
    BY <1>1, <1>5, StreamType
  <1>6. CASE Ends
    BY <1>6, EndsType
  <1> QED BY <1>2, <1>3, <1>4, <1>5, <1>6 DEF DeleteStep

LEMMA CopyStepType == TInv /\ CopyStep => TInv'
  <1> SUFFICES ASSUME TInv, CopyStep PROVE TInv'
    OBVIOUS
  <1> USE DEF In
  <1>1. /\ TypeOK /\ slot \in Slots /\ slot \in Region /\ Copy(slot) \in Region
        /\ dst \in Slots /\ dst \in Region /\ Copy(dst) \in Region
        /\ gUnk_3000C20 \in Chunk /\ SlotsType
    BY Regions DEF TInv, TypeOK, SlotsType
  <1>2. CASE /\ In("copy", 0) /\ Stage(1) /\ InfoOf(dst, corruptionFlag[slot])
             /\ UNCHANGED gUnk_3000C20 /\ ewram' = [ewram EXCEPT ![dst] = ewram[slot]]
    <2>1. ewram' \in Memory
      BY <1>1, <1>2 DEF TypeOK, Memory
    <2>2. SlotsType' /\ gUnk_3000C20' \in Chunk
      <3>1. corruptionFlag[slot] \in 0 .. 2
        BY <1>1 DEF SlotsType
      <3> QED BY <1>1, <1>2, <3>1, PutsType
    <2> QED BY <1>2, <2>1, <2>2, StageType
  <1>3. CASE In("copy", 1) /\ Stream(0, dst, 2)
    BY <1>1, <1>3, StreamType
  <1>4. CASE /\ In("copy", 2) /\ Stage(3) /\ Keeps
             /\ ewram' = [ewram EXCEPT ![Copy(dst)] = ewram[Copy(slot)]]
    <2>1. ewram' \in Memory
      BY <1>1, <1>4 DEF TypeOK, Memory
    <2>2. SlotsType' /\ gUnk_3000C20' \in Chunk
      BY <1>1, <1>4 DEF Keeps, SlotsType, slots
    <2> QED BY <1>4, <2>1, <2>2, StageType
  <1>5. CASE In("copy", 3) /\ Stream(1, dst, 4)
    BY <1>1, <1>5, StreamType
  <1>6. CASE Ends
    BY <1>6, EndsType
  <1> QED BY <1>2, <1>3, <1>4, <1>5, <1>6 DEF CopyStep

LEMMA RepairStepType == TInv /\ RepairStep => TInv'
  <1> SUFFICES ASSUME TInv, RepairStep PROVE TInv'
    OBVIOUS
  <1>1. /\ TypeOK /\ slot \in Slots /\ SlotsType
    BY DEF TInv, TypeOK, SlotsType
  <1>2. MemoryType' /\ CardType' /\ gUnk_3000C20' \in Chunk
    BY <1>1, FrameType DEF RepairStep
  <1>3. SavesType'
    BY TypeParts DEF TInv, RepairStep, SavesType
  <1>4. SlotsType'
    <2>1. CASE RepairOver
      BY <1>1, <2>1 DEF RepairOver, SlotsType
    <2>2. CASE UNCHANGED slots
      BY <1>1, <2>2 DEF slots, SlotsType
    <2> QED BY <2>1, <2>2 DEF RepairStep, RepairGoesOn
  <1>5. /\ kind' \in {"none", "repair", "repairCopy"}
        /\ slot' = slot /\ dst' = dst
        /\ UNCHANGED <<gSramOperationStage, gDisableSoftReset>>
    BY DEF RepairStep, RepairOver, RepairGoesOn
  <1>6. OperationType'
    BY <1>2, <1>5, TypeParts DEF TInv, OperationType, Repairs
  <1>7. Room'
    BY <1>5 DEF Room, MakesSave
  <1> QED BY <1>2, <1>3, <1>4, <1>6, <1>7, TypeParts DEF TInv

\* What the five ways an operation begins have in common: the ones of the game begin at their
\* first stage, and a DELETE or COPY does too unless its target is astray from then on.
Beginning(k, s, t) ==
  /\ Begins(k, s, t)
  /\ k \in {"save", "intro", "ending"} => /\ s = t /\ NewSave /\ gSramOperationStage' = 0
                                          /\ k # "intro" => Playable(s)
  /\ k \in {"delete", "copy"} => /\ Enabled(s) /\ (k = "copy" <=> s # t)
                                 /\ t \notin astray' => /\ s \notin astray
                                                        /\ gSramOperationStage' = 0
                                                        /\ gUnk_3000C20' = 0
  /\ k = "repair" => gUnk_3000C20' = 0 /\ s = t
  /\ gSramOperationStage' \in {0, gSramOperationStage} /\ gUnk_3000C20' \in {0, gUnk_3000C20}
  /\ gDisableSoftReset' \in BOOLEAN /\ astray' \in {astray, astray \cup {t}}
  /\ k \in Operations => HandlerDone

LEMMA Beginnings ==
  ASSUME TypeOK, Begin
  PROVE  \E k \in Operations \cup {"repair"}, s \in Slots, t \in Slots : Beginning(k, s, t)
  <1>1. CASE \E s \in Slots, k \in {"save", "ending"} : Playable(s) /\ BeginsInGame(k, s)
    BY <1>1 DEF BeginsInGame, Operations, Playable, Beginning
  <1>2. CASE \E s \in Slots : HandlerDone /\ BeginsInGame("intro", s)
    BY <1>2 DEF Beginning, BeginsInGame, Operations
  <1>3. CASE \E s \in Slots : BeginsInMenu("delete", s, s)
    <2>1. PICK s \in Slots : BeginsInMenu("delete", s, s)
      BY <1>3
    <2> QED BY <2>1 DEF Beginning, BeginsInMenu, Operations, Enabled, Stale, TypeOK
  <1>4. CASE \E s, t \in Slots : s # t /\ BeginsInMenu("copy", s, t)
    <2>1. PICK s \in Slots, t \in Slots : s # t /\ BeginsInMenu("copy", s, t)
      BY <1>4
    <2> QED BY <2>1 DEF Beginning, BeginsInMenu, Operations, Enabled, Stale, TypeOK
  <1>5. CASE \E s \in Slots : /\ Begins("repair", s, s) /\ corruptionFlag[s] # 0 /\ gUnk_3000C20' = 0
                             /\ UNCHANGED <<gSramOperationStage, gDisableSoftReset, astray>>
    BY <1>5 DEF Beginning, Operations, TypeOK
  <1> QED BY <1>1, <1>2, <1>3, <1>4, <1>5 DEF Begin

LEMMA BeginType == TInv /\ Begin => TInv'
  <1> SUFFICES ASSUME TInv, Begin PROVE TInv'
    OBVIOUS
  <1>0. PICK k \in Operations \cup {"repair"}, s \in Slots, t \in Slots : Beginning(k, s, t)
    BY Beginnings DEF TInv
  <1>1. /\ Begins(k, s, t)
        /\ k \in {"save", "intro", "ending"} => NewSave
        /\ gSramOperationStage' \in {0, gSramOperationStage}
        /\ gUnk_3000C20' \in {0, gUnk_3000C20} /\ gDisableSoftReset' \in BOOLEAN
        /\ astray' \in {astray, astray \cup {t}}
    BY <1>0 DEF Beginning
  <1>2. MemoryType' /\ CardType' /\ SlotsType'
    BY <1>1, TypeParts DEF TInv, Begins, MemoryType, CardType, SlotsType, regions, slots, dirty
  <1>3. SavesType'
    BY <1>1, TypeParts DEF TInv, Begins, SavesType
  <1>4. OperationType'
    BY <1>1, TypeParts, Sizes DEF TInv, Begins, OperationType, Operations, Repairs
  <1>5. Room'
    BY <1>1 DEF Begins, Room, MakesSave, MadeAt, NewSave
  <1> QED BY <1>2, <1>3, <1>4, <1>5, TypeParts DEF TInv

\* Types hold on every card a program could have left.
LEMMA TypeInit == Init => TInv
  <1> SUFFICES ASSUME Init PROVE TInv
    OBVIOUS
  <1>1. card \in Memory
    <2>1. \A s \in Slots : /\ Begun(s) \in [Chunk -> Content] /\ Erased(s) \in [Chunk -> Content]
                          /\ File(s) \in [Chunk -> Content]
      BY Contents, Sizes DEF Begun, Erased, Blank, File
    <2>2. SoundCards \subseteq Memory
      <3> SUFFICES ASSUME NEW used \in SUBSET Slots
                   PROVE  [r \in Region |-> IF SlotOf(r) \in used THEN File(SlotOf(r)) ELSE Blank]
                            \in Memory
        BY DEF SoundCards
      <3>1. \A r \in Region : File(SlotOf(r)) \in [Chunk -> Content] /\ Blank \in [Chunk -> Content]
        BY <2>1, Contents, Regions
      <3> QED BY <3>1 DEF Memory
    <2>3. PICK memory \in SoundCards, r \in Region :
            card \in {memory} \cup
                     {[memory EXCEPT ![r] = f] : f \in {Begun(SlotOf(r)), Erased(SlotOf(r)), Blank}}
      BY DEF Init
    <2>4. \A f \in {Begun(SlotOf(r)), Erased(SlotOf(r)), Blank} : f \in [Chunk -> Content]
      BY <2>1, Contents, Regions
    <2> QED BY <2>2, <2>3, <2>4 DEF Memory
  <1>2. MemoryType /\ SlotsType
    BY <1>1, BootType, Regions DEF Init, MemoryType, SlotsType, Memory
  <1>3. CardType
    <2>1. missed \in 0 .. MaxMissed
      BY SaveSlotsAssumption DEF Init
    <2>2. /\ sDirtyIdleFrames \in 0 .. SRAM_FLUSH_IDLE_FRAMES - 1
          /\ sDirtyAgeFrames \in 0 .. SRAM_FLUSH_MAX_FRAMES - 1
      BY SaveSlotsAssumption DEF Init
    <2> QED BY <1>1, <2>1, <2>2 DEF Init, CardType
  <1>4. OperationType
    <2>1. gDisableSoftReset \in BOOLEAN
      BY DEF Init
    <2>2. gSramOperationStage = 0 /\ gUnk_3000C20 = 0 /\ kind = "none" /\ slot = 1 /\ dst = 1
      BY DEF Init
    <2> QED BY <2>1, <2>2, Sizes, Regions DEF OperationType
  <1>5. SavesType
    BY <1>1, BootType, SaveSlotsAssumption DEF Init, SavesType
  <1>6. Room
    BY DEF Init, Room, MakesSave
  <1> QED BY <1>1, <1>2, <1>3, <1>4, <1>5, <1>6, TypeParts DEF TInv

\* Types hold after every step.
LEMMA TypeStep == TInv /\ [Next]_vars => TInv'
  <1> SUFFICES ASSUME TInv, [Next]_vars PROVE TInv'
    OBVIOUS
  <1>1. CASE Restart
    <2>1. /\ MemoryType' /\ SlotsType' /\ kind' = "none" /\ slot' \in Slots /\ dst' \in Slots
          /\ now' \in [Slots -> Content] /\ astray' \subseteq Slots /\ Room'
      BY <1>1, ReadAllType DEF Restart, TInv, TypeOK
    <2>2. CardType'
      <3>1. missed' \in 0 .. MaxMissed
        BY <1>1, SaveSlotsAssumption DEF Restart
      <3>2. /\ sDirtyIdleFrames' \in 0 .. SRAM_FLUSH_IDLE_FRAMES - 1
            /\ sDirtyAgeFrames' \in 0 .. SRAM_FLUSH_MAX_FRAMES - 1
        BY <1>1, SaveSlotsAssumption DEF Restart
      <3> QED BY <1>1, <3>1, <3>2 DEF Restart, CardType, TInv, TypeOK
    <2>3. OperationType'
      <3>1. gDisableSoftReset' \in BOOLEAN
        BY <1>1 DEF Restart
      <3>2. gSramOperationStage' = 0 /\ gUnk_3000C20' = 0
        BY <1>1 DEF Restart
      <3> QED BY <2>1, <3>1, <3>2, Sizes DEF OperationType
    <2>4. SavesType'
      BY <1>1, <2>1 DEF Restart, SavesType, TInv, TypeOK
    <2> QED BY <2>1, <2>2, <2>3, <2>4, TypeParts DEF TInv
  <1>2. CASE SoftResetCheck \/ TriggerGameRestart
    <2>0. SoftReset /\ gDisableSoftReset' \in BOOLEAN /\ restarts' \in 0 .. MaxRestarts
      <3>1. SoftReset /\ gDisableSoftReset' \in BOOLEAN
        BY <1>2 DEF SoftResetCheck, TriggerGameRestart, TInv, TypeOK
      <3>2. \/ restarts' = restarts
            \/ restarts < MaxRestarts /\ restarts' = restarts + 1
        BY <1>2 DEF SoftResetCheck, TriggerGameRestart
      <3> QED BY <3>1, <3>2, SaveSlotsAssumption DEF TInv, TypeOK
    <2>1. /\ MemoryType' /\ SlotsType' /\ kind' = "none" /\ slot' \in Slots /\ dst' \in Slots
          /\ now' \in [Slots -> Content] /\ astray' \subseteq Slots /\ Room'
      BY <2>0, ReadAllType DEF SoftReset, TInv, TypeOK
    <2>2. CardType'
      BY <2>0, <2>1, EndFrameType DEF SoftReset, TInv, MemoryType
    <2>3. OperationType' /\ SavesType'
      BY <2>0, <2>1, TypeParts DEF SoftReset, OperationType, SavesType, TInv
    <2> QED BY <2>1, <2>2, <2>3, TypeParts DEF TInv
  <1>3. ASSUME NEW wrote \in BOOLEAN, Idle(wrote) PROVE TInv'
    <2>1. MemoryType' /\ SlotsType' /\ OperationType' /\ SavesType'
      BY <1>3, TypeParts DEF Idle, TInv, MemoryType, SlotsType, OperationType, SavesType, regions,
                             slots, operation, progress
    <2>2. CardType'
      BY <1>3, <2>1, EndFrameType DEF Idle, TInv, MemoryType
    <2>3. Room'
      BY <1>3 DEF Idle, Room, MakesSave, operation
    <2> QED BY <2>1, <2>2, <2>3, TypeParts DEF TInv
  <1>4. CASE UNCHANGED vars
    BY <1>4 DEF vars, regions, slots, operation, progress, dirty, TInv, TypeOK, Room, MakesSave,
                MadeAt
  <1>5. CASE EnterGame
    BY <1>5 DEF EnterGame, regions, slots, operation, dirty, TInv, TypeOK, Room, MakesSave, MadeAt
  <1> QED BY <1>1, <1>2, <1>3, <1>4, <1>5, BeginType, SaveStepType, IntroStepType, EndingStepType,
             DeleteStepType, CopyStepType, RepairStepType DEF Next, Work, Wait, OtherWrite

\* Every variable keeps its type, whatever resets and restarts come between the stages: a stage
\* and a chunk count are always ones the operation has.
THEOREM TypeCorrect == Spec => []TypeOK
  <1>1. TInv => TypeOK
    BY DEF TInv
  <1> QED BY TypeInit, TypeStep, <1>1, PTL DEF Spec

-----------------------------------------------------------------------------
(* A slot that no operation works on. *)

\* The handler has nothing left to do for the slot.
Handled(s) == corruptionFlag[s] = 0 \/ s \in repaired

\* A slot at rest: EWRAM shows what it holds and a start would find it.  Its file on the save
\* memory may be bad only while the handler is still to come, and an empty slot has no first
\* chunk of a backup that the end of another file could bring back.
AtRest(s) ==
  /\ ewram[s] = File(now[s]) /\ Loaded(flash, s) = now[s]
  /\ Handled(s) => /\ flash[s] = File(now[s])
                   /\ now[s] = 0 => flash[Copy(s)][0] = 0 /\ ewram[Copy(s)][0] = 0
  /\ ~ Handled(s) => ewram[Copy(s)] = File(now[s]) /\ (corruptionFlag[s] = 1 => now[s] # 0)

\* A file of which some chunks were replaced by v, if it is whole, is of v or was not changed.
LEMMA OneSave ==
  ASSUME NEW f \in [Chunk -> Content], NEW g \in [Chunk -> Content], NEW v,
         \A c \in Chunk : g[c] \in {f[c], v}, Whole(g)
  PROVE  g[0] = v \/ g = f
  <1>1. g[0] # v => \A c \in Chunk : g[c] = f[c]
    BY Sizes DEF Whole, File
  <1> QED BY <1>1

\* Writing what a start would find anyway does not change what it finds.
LEMMA LoadedAfter ==
  ASSUME NEW m \in Memory, NEW n \in Memory, NEW s \in Slots, NEW v,
         \A c \in Chunk : n[s][c] \in {m[s][c], v},
         \A c \in Chunk : n[Copy(s)][c] \in {m[Copy(s)][c], v}, Loaded(m, s) = v
  PROVE  Loaded(n, s) = v
  <1>1. /\ m[s] \in [Chunk -> Content] /\ n[s] \in [Chunk -> Content]
        /\ m[Copy(s)] \in [Chunk -> Content] /\ n[Copy(s)] \in [Chunk -> Content]
    BY Regions DEF Memory
  <1> DEFINE f == m[Copy(s)] g == n[Copy(s)]
  <1>2. Whole(n[s]) => n[s][0] = v \/ n[s] = m[s]
    BY <1>1, OneSave
  <1>3. Whole(g) => g[0] = v \/ g = f
    <2>1. f \in [Chunk -> Content] /\ g \in [Chunk -> Content] /\ \A c \in Chunk : g[c] \in {f[c], v}
      BY <1>1
    <2> HIDE DEF f, g
    <2> QED BY <2>1, OneSave
  <1>4. Whole(m[s]) => m[s][0] = v /\ v # 0 /\ m[s] = File(v)
    BY DEF Loaded, Whole
  <1>5. Whole(m[s]) => Whole(n[s])
    <2> SUFFICES ASSUME Whole(m[s]) PROVE Whole(n[s])
      OBVIOUS
    <2>1. \A c \in Chunk : n[s][c] = v
      BY <1>4 DEF File
    <2> QED BY <1>1, <1>4, <2>1, Sizes DEF Whole, File
  <1>6. ~ Whole(m[s]) /\ Whole(m[Copy(s)]) =>
          m[Copy(s)][0] = v /\ v # 0 /\ m[Copy(s)] = File(v)
    BY DEF Loaded, Whole
  <1>7. ~ Whole(m[s]) /\ Whole(m[Copy(s)]) => Whole(n[Copy(s)])
    <2> SUFFICES ASSUME ~ Whole(m[s]), Whole(m[Copy(s)]) PROVE Whole(n[Copy(s)])
      OBVIOUS
    <2>1. \A c \in Chunk : n[Copy(s)][c] = v
      BY <1>6 DEF File
    <2> QED BY <1>1, <1>6, <2>1, Sizes DEF Whole, File
  <1>8. ~ Whole(m[s]) /\ ~ Whole(m[Copy(s)]) => v = 0
    BY DEF Loaded
  <1> QED BY <1>2, <1>3, <1>4, <1>5, <1>6, <1>7, <1>8 DEF Loaded

\* The step leaves the slot's part of the save table alone, and puts nothing on its regions of
\* the save memory but what EWRAM has for them, or the other way round.
Mirrors(s) ==
  /\ now'[s] = now[s] /\ corruptionFlag'[s] = corruptionFlag[s]
  /\ s \in repaired' <=> s \in repaired
  /\ \A r \in {s, Copy(s)} : \A c \in Chunk :
       /\ flash'[r][c] \in {flash[r][c], ewram[r][c]}
       /\ ewram'[r][c] = ewram[r][c] \/ (Handled(s) /\ ewram'[r][c] = flash[r][c])

\* A slot that a step only mirrors stays at rest.
LEMMA RestStays ==
  ASSUME TypeOK, TypeOK', NEW s \in Slots, AtRest(s), Mirrors(s)
  PROVE  AtRest(s)'
  <1>1. /\ s \in Region /\ Copy(s) \in Region /\ 0 \in Chunk
        /\ \A r \in Region : /\ flash[r] \in [Chunk -> Content] /\ flash'[r] \in [Chunk -> Content]
                             /\ ewram[r] \in [Chunk -> Content] /\ ewram'[r] \in [Chunk -> Content]
    BY Regions, Sizes DEF TypeOK, Memory
  <1>2. Handled(s)' <=> Handled(s)
    BY DEF Handled, Mirrors
  <1>3. \A c \in Chunk : ewram[s][c] = now[s]
    BY DEF AtRest, File
  <1>4. ewram'[s] = File(now'[s])
    <2>1. \A c \in Chunk : ewram'[s][c] = now[s]
      BY <1>3 DEF Mirrors, AtRest, File
    <2> QED BY <1>1, <2>1 DEF File, Mirrors
  <1>5. CASE Handled(s)
    <2>1. flash'[s] = File(now'[s])
      <3>1. \A c \in Chunk : flash'[s][c] = now[s]
        BY <1>3, <1>5 DEF Mirrors, AtRest, File
      <3> QED BY <1>1, <3>1 DEF File, Mirrors
    <2>2. now'[s] = 0 => flash'[Copy(s)][0] = 0 /\ ewram'[Copy(s)][0] = 0
      BY <1>1, <1>5 DEF Mirrors, AtRest
    <2>3. Loaded(flash, s)' = now'[s]
      <3>1. flash'[s][0] = now'[s]
        BY <1>1, <2>1 DEF File
      <3>2. CASE now'[s] # 0
        BY <2>1, <3>1, <3>2 DEF Loaded, Whole
      <3>3. CASE now'[s] = 0
        BY <2>2, <3>1, <3>3 DEF Loaded, Whole
      <3> QED BY <3>2, <3>3
    <2> QED BY <1>2, <1>4, <1>5, <2>1, <2>2, <2>3 DEF AtRest
  <1>6. CASE ~ Handled(s)
    <2>1. ewram'[Copy(s)] = File(now'[s])
      <3>1. ewram'[Copy(s)] = ewram[Copy(s)]
        BY <1>1, <1>6 DEF Mirrors
      <3> QED BY <1>6, <3>1 DEF AtRest, Mirrors
    <2>2. \A c \in Chunk : ewram[Copy(s)][c] = now[s]
      BY <1>6 DEF AtRest, File
    <2>3. Loaded(flash, s)' = now'[s]
      <3>1. /\ \A c \in Chunk : flash'[s][c] \in {flash[s][c], now[s]}
            /\ \A c \in Chunk : flash'[Copy(s)][c] \in {flash[Copy(s)][c], now[s]}
        BY <1>3, <2>2 DEF Mirrors
      <3>2. flash \in Memory /\ flash' \in Memory /\ Loaded(flash, s) = now[s]
        BY DEF TypeOK, AtRest
      <3>3. Loaded(flash', s) = now[s]
        BY <3>1, <3>2, LoadedAfter
      <3> QED BY <3>3 DEF Mirrors, Loaded
    <2> QED BY <1>2, <1>4, <1>6, <2>1, <2>3 DEF AtRest, Mirrors
  <1> QED BY <1>5, <1>6

\* A stream puts on a region what its mirror has, and a chunk of the next region too.
LEMMA StreamRests ==
  ASSUME TypeOK, TypeOK', NEW param \in {0, 1, 2, 4}, NEW t \in Slots, unk_fbc(param, t),
         \A s \in Slots : Handled(s) \/ param # 2, UNCHANGED <<slots, now>>,
         NEW s \in Slots, AtRest(s)
  PROVE  AtRest(s)'
  <1>1. s \in Region /\ Copy(s) \in Region
    BY Regions
  <1>2. \A r \in Region : \A c \in Chunk :
          /\ flash'[r][c] \in {flash[r][c], ewram[r][c]}
          /\ ewram'[r][c] = ewram[r][c] \/ (param = 2 /\ ewram'[r][c] = flash[r][c])
    BY DEF unk_fbc, Moved, regions
  <1>3. Mirrors(s)
    BY <1>1, <1>2 DEF Mirrors, slots
  <1> QED BY <1>3, RestStays

\* A stage that works on EWRAM leaves the slots it is not for alone.
LEMMA StageRests ==
  ASSUME TypeOK, TypeOK', NEW t \in Slots, UNCHANGED <<flash, repaired>>,
         \A r \in Region \ {t, Copy(t)} : ewram'[r] = ewram[r],
         \A u \in Slots \ {t} : corruptionFlag'[u] = corruptionFlag[u] /\ now'[u] = now[u],
         NEW s \in Slots \ {t}, AtRest(s)
  PROVE  AtRest(s)'
  <1>1. ewram'[s] = ewram[s] /\ ewram'[Copy(s)] = ewram[Copy(s)]
    BY Regions
  <1>2. Mirrors(s)
    BY <1>1 DEF Mirrors
  <1> QED BY <1>2, RestStays

\* What a start does to a slot.
LEMMA Booted ==
  ASSUME NEW memory \in Memory, NEW s \in Slots
  PROVE  LET flag == FlagOf(memory, s)
             after == [r \in Region |-> BootFlash(memory, r)]
             held == Loaded(memory, s)
         IN  /\ BootFile(memory, s) = File(held) /\ Loaded(after, s) = held
             /\ flag % 3 = 0 => /\ after[s] = File(held)
                                /\ held = 0 => after[Copy(s)] = Blank
             /\ flag % 3 = 1 => held # 0
  <1> DEFINE flag == FlagOf(memory, s)
             after == [r \in Region |-> BootFlash(memory, r)]
             held == Loaded(memory, s)
  <1>1. s \in Region /\ Copy(s) \in Region /\ SlotOf(s) = s /\ SlotOf(Copy(s)) = s
    BY Regions
  <1>2. /\ after[s] = (IF flag = 3 THEN Blank ELSE memory[s])
        /\ after[Copy(s)] = (IF flag = 0 THEN memory[s] ELSE IF flag = 3 THEN Blank ELSE memory[Copy(s)])
    BY <1>1 DEF BootFlash
  <1>3. flag \in 0 .. 3 /\ (flag % 3 = 0 <=> flag \in {0, 3}) /\ (flag % 3 = 1 <=> flag = 1)
    BY BootType
  <1>4. /\ flag = 0 <=> Whole(memory[s])
        /\ flag = 1 <=> ~ Whole(memory[s]) /\ Whole(memory[Copy(s)])
    BY DEF FlagOf, Sanity
  <1>5. ~ Whole(Blank) /\ Blank[0] = 0
    BY Sizes DEF Whole, Blank, File
  <1>6. CASE flag = 0
    <2>1. held = memory[s][0] /\ memory[s] = File(held) /\ held # 0
      BY <1>4, <1>6 DEF Loaded, Whole
    <2>2. BootFile(memory, s) = memory[s]
      BY <1>6 DEF BootFile
    <2>3. after[s] = memory[s]
      BY <1>2, <1>6
    <2>4. Loaded(after, s) = held
      BY <1>4, <1>6, <2>1, <2>3 DEF Loaded
    <2> HIDE DEF held, after, flag
    <2>5. QED BY <1>3, <1>6, <2>1, <2>2, <2>3, <2>4 DEF held, after, flag
  <1>7. CASE flag = 1
    <2>1. held = memory[Copy(s)][0] /\ memory[Copy(s)] = File(held) /\ held # 0
      BY <1>4, <1>7 DEF Loaded, Whole
    <2>2. BootFile(memory, s) = memory[Copy(s)]
      BY <1>7 DEF BootFile
    <2>3. after[s] = memory[s] /\ after[Copy(s)] = memory[Copy(s)]
      BY <1>2, <1>7
    <2>4. Loaded(after, s) = held
      BY <2>3 DEF Loaded
    <2> QED BY <1>3, <1>7, <2>1, <2>2, <2>4
  <1>8. CASE flag = 2
    <2>1. held = 0
      BY <1>4, <1>8 DEF Loaded
    <2>2. BootFile(memory, s) = Blank
      BY <1>8 DEF BootFile
    <2>3. after[s] = memory[s] /\ after[Copy(s)] = memory[Copy(s)]
      BY <1>2, <1>8
    <2>4. Loaded(after, s) = held
      BY <2>3 DEF Loaded
    <2> QED BY <1>3, <1>8, <2>1, <2>2, <2>4 DEF Blank
  <1>9. CASE flag = 3
    <2>1. held = 0
      BY <1>4, <1>9 DEF Loaded
    <2>2. BootFile(memory, s) = Blank
      BY <1>9 DEF BootFile
    <2>3. after[s] = Blank /\ after[Copy(s)] = Blank
      BY <1>2, <1>9
    <2>4. Loaded(after, s) = held
      BY <1>5, <2>1, <2>3 DEF Loaded
    <2> QED BY <1>3, <1>9, <2>1, <2>2, <2>3, <2>4 DEF Blank
  <1> HIDE DEF flag
  <1>10. flag = 0 \/ flag = 1 \/ flag = 2 \/ flag = 3
    BY <1>3
  <1> QED BY <1>6, <1>7, <1>8, <1>9, <1>10

\* After a start every slot is at rest, with what the start found in it.
LEMMA BootRests ==
  ASSUME NEW memory \in Memory, SramRead_All(memory), NEW s \in Slots
  PROVE  AtRest(s)' /\ now'[s] = Loaded(memory, s)
  <1> DEFINE after == [r \in Region |-> BootFlash(memory, r)]
  <1>0. now'[s] = Loaded(memory, s)
    BY DEF SramRead_All
  <1>1. /\ BootFile(memory, s) = File(now'[s]) /\ Loaded(after, s) = now'[s]
        /\ FlagOf(memory, s) % 3 = 0 => /\ after[s] = File(now'[s])
                                        /\ now'[s] = 0 => after[Copy(s)] = Blank
        /\ FlagOf(memory, s) % 3 = 1 => now'[s] # 0
    BY <1>0, Booted
  <1>2. /\ flash' = after /\ ewram'[s] = BootFile(memory, s) /\ ewram'[Copy(s)] = BootFile(memory, s)
        /\ corruptionFlag'[s] = FlagOf(memory, s) % 3 /\ repaired' = {}
    BY Regions DEF SramRead_All
  <1>3. Handled(s)' <=> FlagOf(memory, s) % 3 = 0
    BY <1>2 DEF Handled
  <1>4. Loaded(flash, s)' = Loaded(after, s)
    BY <1>2 DEF Loaded
  <1>5. Blank[0] = 0 /\ File(0)[0] = 0
    BY Sizes DEF Blank, File
  <1> HIDE DEF after
  <1>6. ewram'[s] = File(now'[s]) /\ ewram'[Copy(s)] = File(now'[s]) /\ Loaded(flash, s)' = now'[s]
    BY <1>1, <1>2, <1>4
  <1>7. Handled(s)' => /\ flash'[s] = File(now'[s])
                       /\ now'[s] = 0 => flash'[Copy(s)][0] = 0 /\ ewram'[Copy(s)][0] = 0
    BY <1>1, <1>2, <1>3, <1>5, <1>6
  <1>8. corruptionFlag'[s] = 1 => now'[s] # 0
    BY <1>1, <1>2
  <1> QED BY <1>0, <1>6, <1>7, <1>8 DEF AtRest

-----------------------------------------------------------------------------
(* The slot an operation works on. *)

\* A slot that is astray has no invariant, and the others are at rest.
OthersRest == \A s \in Slots \ astray : (kind \in Operations /\ s = Target) \/ AtRest(s)

\* The chunks a stream has moved to a region are those of the save v.
Moving(r, v) == \A c \in Chunk : c < gUnk_3000C20 => flash[r][c] = v

\* The stage of an operation that first writes to the save memory: before its first frame a
\* start finds what the slot held.
FirstWrite == IF MakesSave THEN MadeAt ELSE 1
Unwritten == gSramOperationStage < FirstWrite \/ (gSramOperationStage = FirstWrite /\ gUnk_3000C20 = 0)
Untouched == kind \in Operations /\ Unwritten => Loaded(flash, Target) = now[Target]

\* The save is made in EWRAM, then streamed.
SaveStages ==
  /\ gSramOperationStage >= MadeAt => ewram[slot] = File(made)
  /\ gSramOperationStage = MadeAt => Moving(slot, made)
  /\ gSramOperationStage > MadeAt => flash[slot] = File(made)

\* The ending reads the file before it makes the new one.
EndingStages ==
  gSramOperationStage <= 2 =>
    now[slot] # 0 /\ flash[slot] = File(now[slot]) /\ ewram[slot] = File(now[slot])

DeleteStages ==
  /\ gSramOperationStage \in {0, 2} => gUnk_3000C20 = 0
  /\ gSramOperationStage >= 1 => ewram[slot] = Blank
  /\ gSramOperationStage = 1 => Moving(slot, 0)
  /\ gSramOperationStage >= 2 => flash[slot] = Blank
  /\ gSramOperationStage >= 3 => ewram[Copy(slot)] = Blank
  /\ gSramOperationStage = 3 => Moving(Copy(slot), 0)
  /\ gSramOperationStage >= 4 => flash[Copy(slot)] = Blank

CopyStages ==
  /\ slot \notin astray /\ now[slot] # 0
  /\ gSramOperationStage = 0 => gUnk_3000C20 = 0
  /\ gSramOperationStage >= 1 => ewram[dst] = File(now[slot])
  /\ gSramOperationStage = 1 => Moving(dst, now[slot])
  /\ gSramOperationStage >= 2 => flash[dst] = File(now[slot])

RepairStages ==
  /\ kind = "repair" => Moving(slot, now[slot])
  /\ kind = "repairCopy" => /\ flash[slot] = File(now[slot])
                            /\ ~ Handled(slot) => Moving(Copy(slot), now[slot])

\* How far the operation is.
Reached ==
  /\ Untouched
  /\ MakesSave => SaveStages
  /\ kind = "ending" => EndingStages
  /\ kind = "delete" => DeleteStages
  /\ kind = "copy" => CopyStages
  /\ Repairing => RepairStages

Allowed ==
  /\ kind \in Operations => HandlerDone
  /\ kind = "copy" => slot # dst /\ (gSramOperationStage = 0 => corruptionFlag[slot] = 0)

Stages == Allowed /\ (Target \notin astray => Reached)

SInv == TInv /\ made # 0 /\ OthersRest /\ Stages

\* A stream fills its region with the save that its mirror in EWRAM is.
LEMMA StreamFills ==
  ASSUME TypeOK, TypeOK', NEW t \in Slots, NEW param \in {0, 1}, unk_fbc(param, t), NEW v,
         NEW r, r = (IF param = 0 THEN t ELSE Copy(t)), ewram[r] = File(v), Moving(r, v)
  PROVE  /\ gUnk_3000C20 # Last => \A c \in Chunk : c < gUnk_3000C20' => flash'[r][c] = v
         /\ gUnk_3000C20 = Last => gUnk_3000C20' = 0 /\ flash'[r] = File(v)
         /\ ewram' = ewram
         /\ param = 1 => \A u \in Slots : flash'[u] = flash[u]
  <1>1. r \in Region /\ gUnk_3000C20 \in Chunk /\ flash'[r] \in [Chunk -> Content]
    BY Regions DEF TypeOK, Memory
  <1>2. flash' = Moved(ewram, flash, r) /\ ewram' = ewram
    BY DEF unk_fbc
  <1>3. gUnk_3000C20' = IF gUnk_3000C20 = Last THEN 0 ELSE gUnk_3000C20 + 1
    BY <1>1, Sizes DEF unk_fbc
  <1>4. \A c \in Chunk : c <= gUnk_3000C20 => flash'[r][c] = v
    <2> SUFFICES ASSUME NEW c \in Chunk, c <= gUnk_3000C20 PROVE flash'[r][c] = v
      OBVIOUS
    <2>1. ewram[r][c] = v
      BY DEF File
    <2>2. c = gUnk_3000C20 \/ flash[r][c] = v
      BY <1>1, Sizes DEF Moving
    <2> QED BY <1>1, <1>2, <2>1, <2>2 DEF Moved
  <1>5. gUnk_3000C20 # Last => \A c \in Chunk : c < gUnk_3000C20' => flash'[r][c] = v
    BY <1>1, <1>3, <1>4, Sizes
  <1>6. ASSUME gUnk_3000C20 = Last PROVE flash'[r] = File(v)
    <2>1. \A c \in Chunk : flash'[r][c] = v
      BY <1>4, <1>6, SaveSlotsAssumption DEF Chunk, Last
    <2> QED BY <1>1, <2>1 DEF File
  <1>7. ASSUME param = 1, NEW u \in Slots PROVE flash'[u] = flash[u]
    <2>1. u \in Region /\ u # r /\ u # r + 1
      BY <1>7, SaveSlotsAssumption DEF Slots, Region, Copy
    <2>2. flash[u] \in [Chunk -> Content] /\ flash'[u] = [c \in Chunk |-> flash[u][c]]
      BY <1>2, <2>1 DEF Moved, TypeOK, Memory
    <2> QED BY <2>2
  <1> QED BY <1>2, <1>3, <1>5, <1>6, <1>7

\* A stream of an operation: the slots it is not for stay at rest.
LEMMA OthersOfStream ==
  ASSUME TypeOK, TypeOK', OthersRest, Stages, kind \in Operations, NEW param \in {0, 1, 2, 4},
         NEW t \in Slots, NEW next \in 1 .. 5, Stream(param, t, next)
  PROVE  /\ OthersRest' /\ Allowed' /\ kind' = kind /\ slot' = slot /\ dst' = dst
         /\ astray' = astray /\ now' = now
  <1>1. \A s \in Slots : Handled(s)
    BY DEF Stages, Allowed, HandlerDone, Handled
  <1>2. /\ unk_fbc(param, t) /\ UNCHANGED <<slots, now>> /\ astray' = astray
        /\ kind' = kind /\ slot' = slot /\ dst' = dst
        /\ gSramOperationStage' = 0 => gSramOperationStage = 0
    BY DEF Stream, operation
  <1>3. \A s \in Slots : AtRest(s) => AtRest(s)'
    BY <1>1, <1>2, StreamRests
  <1>4. Target' = Target
    BY <1>2 DEF Target
  <1>5. HandlerDone'
    BY <1>2 DEF Stages, Allowed, HandlerDone, slots
  <1>6. Allowed'
    BY <1>2, <1>5 DEF Stages, Allowed, slots
  <1> QED BY <1>2, <1>3, <1>4, <1>6 DEF OthersRest

\* A stage of an operation on EWRAM.
LEMMA OthersOfStage ==
  ASSUME TypeOK, TypeOK', OthersRest, Stages, kind \in Operations,
         UNCHANGED <<operation, flash, now, astray>>, gSramOperationStage' # 0,
         UNCHANGED slots \/ (UNCHANGED repaired /\ corruptionFlag'[Target] = 0 /\
           \A u \in Slots \ {Target} : corruptionFlag'[u] = corruptionFlag[u]),
         \A r \in Region \ {Target, Copy(Target)} : ewram'[r] = ewram[r]
  PROVE  /\ OthersRest' /\ Allowed' /\ kind' = kind /\ slot' = slot /\ dst' = dst
         /\ astray' = astray
  <1>1. kind' = kind /\ slot' = slot /\ dst' = dst /\ Target \in Slots /\ astray' = astray
    BY DEF operation, Target, TypeOK
  <1>2. /\ UNCHANGED repaired
        /\ \A u \in Slots \ {Target} : corruptionFlag'[u] = corruptionFlag[u] /\ now'[u] = now[u]
    BY DEF slots
  <1>3. \A s \in Slots \ {Target} : AtRest(s) => AtRest(s)'
    BY <1>1, <1>2, StageRests
  <1>4. Target' = Target
    BY <1>1 DEF Target
  <1>5. HandlerDone'
    BY <1>2 DEF Stages, Allowed, HandlerDone, slots
  <1>6. Allowed'
    BY <1>1, <1>5 DEF Stages, Allowed
  <1> QED BY <1>1, <1>3, <1>4, <1>6 DEF OthersRest

\* The end of an operation that left the save v in its slot.
LEMMA RestAtTheEnd ==
  ASSUME TypeOK, TypeOK', OthersRest, Stages, kind \in Operations, Ends,
         Target \notin astray =>
           /\ ewram[Target] = File(Held[Target]) /\ flash[Target] = File(Held[Target])
           /\ Held[Target] = 0 => flash[Copy(Target)] = Blank /\ ewram[Copy(Target)] = Blank
  PROVE  OthersRest' /\ Stages'
  <1>1. /\ kind' = "none" /\ UNCHANGED <<ewram, flash, corruptionFlag, repaired, astray>>
        /\ now' = Held /\ Target \in Slots
    BY DEF Ends, regions, slots, Target, TypeOK
  <1>2. \A s \in Slots : Handled(s) /\ Handled(s)'
    BY <1>1 DEF Stages, Allowed, HandlerDone, Handled
  <1>3. ASSUME NEW s \in Slots \ astray, s # Target PROVE AtRest(s)'
    <2>1. AtRest(s)
      BY <1>3 DEF OthersRest
    <2>2. Held[s] = now[s]
      BY <1>3 DEF Held, TypeOK
    <2>3. Mirrors(s)
      BY <1>1, <2>2 DEF Mirrors
    <2> QED BY <2>1, <2>3, RestStays
  <1>4. ASSUME NEW t \in Slots \ astray, t = Target PROVE AtRest(t)'
    <2>1. /\ ewram'[t] = File(now'[t]) /\ flash'[t] = File(now'[t])
          /\ now'[t] = 0 => flash'[Copy(t)][0] = 0 /\ ewram'[Copy(t)][0] = 0
      BY <1>1, <1>4, Sizes DEF Blank, File
    <2>2. Loaded(flash', t) = now'[t]
      BY <2>1, Sizes DEF Loaded, Whole, File
    <2> QED BY <1>2, <2>1, <2>2 DEF AtRest, Loaded
  <1>5. OthersRest'
    BY <1>1, <1>3, <1>4 DEF OthersRest
  <1>6. Stages'
    BY <1>1 DEF Stages, Allowed, Reached, Untouched, Operations, MakesSave, Repairing
  <1> QED BY <1>5, <1>6

\* Until the first frame that writes, a start finds what the slot held.
LEMMA UntouchedNext ==
  ASSUME TypeOK, TypeOK', Untouched, kind' = kind, slot' = slot, dst' = dst,
         \/ gSramOperationStage < FirstWrite /\ flash' = flash /\ now' = now
         \/ gSramOperationStage' > FirstWrite
         \/ gSramOperationStage' = FirstWrite /\ gUnk_3000C20' # 0
  PROVE  Untouched'
  <1>1. FirstWrite' = FirstWrite /\ FirstWrite \in Nat /\ Target' = Target
    BY DEF FirstWrite, MakesSave, MadeAt, Target
  <1>2. gSramOperationStage' \in Nat
    BY DEF TypeOK
  <1>3. CASE gSramOperationStage < FirstWrite /\ flash' = flash /\ now' = now
    BY <1>1, <1>3 DEF Untouched, Unwritten, Loaded
  <1>4. CASE \/ gSramOperationStage' > FirstWrite
             \/ gSramOperationStage' = FirstWrite /\ gUnk_3000C20' # 0
    BY <1>1, <1>2, <1>4 DEF Untouched, Unwritten
  <1> QED BY <1>3, <1>4

\* A stream's count is never 0 after a frame that is not its last.
LEMMA StreamCounts ==
  ASSUME TypeOK, NEW param, NEW t, NEW next, Stream(param, t, next)
  PROVE  /\ gUnk_3000C20 = Last => gSramOperationStage' = next /\ gUnk_3000C20' = 0
         /\ gUnk_3000C20 # Last => gSramOperationStage' = gSramOperationStage /\ gUnk_3000C20' # 0
  BY Sizes DEF Stream, unk_fbc, TypeOK

\* The stages of a save, an intro and an ending.
LEMMA SaveStagesNext ==
  ASSUME MakesSave, kind' = kind, slot' = slot, astray' = astray, Allowed',
         slot \notin astray => Untouched' /\ SaveStages' /\ (kind = "ending" => EndingStages')
  PROVE  Stages'
  BY DEF Stages, Reached, MakesSave, Target, Repairing

\* The stages that the three operations that make a save have in common.
LEMMA SaveTail ==
  ASSUME SInv, TInv', MakesSave,
         \/ /\ gSramOperationStage + 1 = MadeAt
            /\ \E f : Made(f) /\ (slot \notin astray => f = File(made + 1))
         \/ gSramOperationStage = MadeAt /\ Stream(0, slot, MadeAt + 1)
         \/ gSramOperationStage = MadeAt + 1 /\ Backup /\ Stage(MadeAt + 2) /\ Keeps
         \/ gSramOperationStage = MadeAt + 2 /\ Ends
  PROVE  OthersRest' /\ Stages'
  <1>1. /\ TypeOK /\ TypeOK' /\ OthersRest /\ Stages /\ FirstWrite = MadeAt
        /\ kind \in Operations /\ Target = slot /\ slot \in Slots /\ slot \in Region
        /\ slot # Copy(slot) /\ Copy(slot) \in Region /\ ewram \in Memory
        /\ slot \notin astray => SaveStages /\ Untouched
    BY Regions DEF SInv, TInv, TypeOK, Stages, Reached, MakesSave, Operations, Target, FirstWrite
  <1>2. /\ MadeAt \in {2, 3} /\ (kind = "ending" => MadeAt = 3) /\ gSramOperationStage \in Nat
        /\ made \in Nat /\ made # 0
    BY <1>1 DEF MadeAt, TypeOK, SInv
  <1>3. CASE /\ gSramOperationStage + 1 = MadeAt
             /\ \E f : Made(f) /\ (slot \notin astray => f = File(made + 1))
    <2>0. PICK f : Made(f) /\ (slot \notin astray => f = File(made + 1))
      BY <1>3
    <2>1. /\ ewram' = [ewram EXCEPT ![slot] = f] /\ made' = made + 1
          /\ UNCHANGED <<operation, flash, now, astray>> /\ UNCHANGED slots
          /\ gSramOperationStage' = MadeAt /\ gUnk_3000C20' = 0
      BY <1>3, <2>0 DEF Made
    <2>2. OthersRest' /\ Allowed' /\ kind' = kind /\ slot' = slot /\ dst' = dst /\ astray' = astray
      BY <1>1, <1>2, <2>1, OthersOfStage DEF Memory
    <2>3. MadeAt' = MadeAt
      BY <2>2 DEF MadeAt
    <2>4. ASSUME slot \notin astray PROVE SaveStages' /\ Untouched'
      <3>1. SaveStages'
        BY <1>1, <1>2, <2>0, <2>1, <2>2, <2>3, <2>4 DEF SaveStages, Moving, Memory, Chunk
      <3>2. gSramOperationStage < FirstWrite /\ flash' = flash /\ now' = now
        BY <1>1, <1>2, <1>3, <2>1
      <3> QED BY <1>1, <2>2, <2>4, <3>1, <3>2, UntouchedNext
    <2>5. kind = "ending" => EndingStages'
      BY <1>2, <2>1 DEF EndingStages
    <2> QED BY <2>2, <2>4, <2>5, SaveStagesNext
  <1>4. CASE gSramOperationStage = MadeAt /\ Stream(0, slot, MadeAt + 1)
    <2>1. /\ OthersRest' /\ Allowed' /\ kind' = kind /\ slot' = slot /\ dst' = dst
          /\ astray' = astray
      BY <1>1, <1>2, <1>4, OthersOfStream
    <2>2. /\ unk_fbc(0, slot) /\ made' = made
          /\ gSramOperationStage' = IF gUnk_3000C20 = Last THEN MadeAt + 1 ELSE MadeAt
      BY <1>4 DEF Stream
    <2>3. ASSUME slot \notin astray PROVE SaveStages' /\ Untouched'
      <3>1. ewram[slot] = File(made) /\ Moving(slot, made)
        BY <1>1, <1>2, <1>4, <2>3 DEF SaveStages
      <3>2. /\ gUnk_3000C20 # Last => \A c \in Chunk : c < gUnk_3000C20' => flash'[slot][c] = made
            /\ gUnk_3000C20 = Last => flash'[slot] = File(made)
            /\ ewram' = ewram
        BY <1>1, <2>2, <3>1, StreamFills
      <3>3. MadeAt' = MadeAt
        BY <2>1 DEF MadeAt
      <3>4. SaveStages'
        BY <1>2, <2>1, <2>2, <3>1, <3>2, <3>3 DEF SaveStages, Moving
      <3>5. \/ gSramOperationStage' > FirstWrite
            \/ gSramOperationStage' = FirstWrite /\ gUnk_3000C20' # 0
        BY <1>1, <1>2, <1>4, StreamCounts
      <3> QED BY <1>1, <2>1, <2>3, <3>4, <3>5, UntouchedNext
    <2>4. kind = "ending" => EndingStages'
      BY <1>2, <2>2 DEF EndingStages
    <2> QED BY <2>1, <2>3, <2>4, SaveStagesNext
  <1>5. CASE gSramOperationStage = MadeAt + 1 /\ Backup /\ Stage(MadeAt + 2) /\ Keeps
    <2>1. /\ ewram' = [ewram EXCEPT ![Copy(slot)] = ewram[slot]]
          /\ UNCHANGED <<operation, flash, now, astray>> /\ UNCHANGED slots
          /\ gSramOperationStage' = MadeAt + 2 /\ made' = made
      BY <1>5 DEF Backup, Stage, Keeps
    <2>2. OthersRest' /\ Allowed' /\ kind' = kind /\ slot' = slot /\ dst' = dst /\ astray' = astray
      BY <1>1, <1>2, <2>1, OthersOfStage DEF Memory
    <2>3. MadeAt' = MadeAt
      BY <2>2 DEF MadeAt
    <2>4. ewram'[slot] = ewram[slot]
      BY <1>1, <2>1 DEF Memory
    <2>5. ASSUME slot \notin astray PROVE SaveStages' /\ Untouched'
      <3>1. SaveStages'
        BY <1>1, <1>2, <1>5, <2>1, <2>2, <2>3, <2>4, <2>5 DEF SaveStages
      <3>2. gSramOperationStage' > FirstWrite
        BY <1>1, <1>2, <2>1
      <3> QED BY <1>1, <2>2, <2>5, <3>1, <3>2, UntouchedNext
    <2>6. kind = "ending" => EndingStages'
      BY <1>2, <2>1 DEF EndingStages
    <2> QED BY <2>2, <2>5, <2>6, SaveStagesNext
  <1>6. CASE gSramOperationStage = MadeAt + 2 /\ Ends
    <2>1. slot \notin astray => ewram[slot] = File(made) /\ flash[slot] = File(made)
      BY <1>1, <1>2, <1>6 DEF SaveStages
    <2>2. slot \notin astray => Held[slot] = made
      BY <1>1, <2>1, Sizes DEF Held, File, TypeOK
    <2> QED BY <1>1, <1>2, <1>6, <2>1, <2>2, RestAtTheEnd
  <1> QED BY <1>3, <1>4, <1>5, <1>6

\* The operations, one at a time: the other slots stay at rest and the target reaches the next stage.
LEMMA SaveRests == SInv /\ TInv' /\ SaveStep => OthersRest' /\ Stages'
  <1> SUFFICES ASSUME SInv, TInv', SaveStep PROVE OthersRest' /\ Stages'
    OBVIOUS
  <1> USE DEF In
  <1>1. /\ TypeOK /\ TypeOK' /\ OthersRest /\ Stages /\ slot \in Slots /\ slot \in Region
        /\ ewram \in Memory /\ gSramOperationStage \in Nat
    BY Regions DEF SInv, TInv, TypeOK
  <1>2. /\ kind = "save" /\ kind \in Operations /\ MakesSave /\ MadeAt = 3 /\ Target = slot
        /\ FirstWrite = 3 /\ (slot \notin astray => Untouched)
    BY <1>1 DEF SaveStep, MakesSave, Operations, MadeAt, Target, Stages, Reached, FirstWrite
  <1>3. ASSUME gSramOperationStage' \in {0, 1, 2}, gSramOperationStage \in {0, 1}, kind' = kind, slot' = slot, dst' = dst,
               flash' = flash, now' = now, slot \notin astray
        PROVE  Untouched' /\ SaveStages'
    <2>1. Untouched'
      BY <1>1, <1>2, <1>3, UntouchedNext
    <2>2. SaveStages'
      BY <1>2, <1>3 DEF SaveStages, MadeAt
    <2> QED BY <2>1, <2>2
  <1>4. CASE In("save", 0) /\ Stream(4, slot, 1)
    <2>1. OthersRest' /\ Allowed' /\ kind' = kind /\ slot' = slot /\ dst' = dst /\ astray' = astray
      BY <1>1, <1>2, <1>4, OthersOfStream
    <2>2. gSramOperationStage' \in {0, 1} /\ UNCHANGED <<regions, now>>
      BY <1>4 DEF Stream, unk_fbc
    <2>3. slot \notin astray => Untouched' /\ SaveStages'
      BY <1>3, <1>4, <2>1, <2>2 DEF regions
    <2> QED BY <1>2, <2>1, <2>3, SaveStagesNext
  <1>5. CASE /\ In("save", 1) /\ Stage(2) /\ UNCHANGED slots
             /\ ewram' = [ewram EXCEPT ![slot][Last] = made + 1] /\ gUnk_3000C20' = 0
    <2>1. UNCHANGED <<operation, flash, now, astray>> /\ gSramOperationStage' = 2
      BY <1>5 DEF Stage
    <2>2. \A r \in Region \ {slot} : ewram'[r] = ewram[r]
      BY <1>1, <1>5 DEF Memory
    <2>3. OthersRest' /\ Allowed' /\ kind' = kind /\ slot' = slot /\ dst' = dst /\ astray' = astray
      BY <1>1, <1>2, <1>5, <2>1, <2>2, OthersOfStage
    <2>4. slot \notin astray => Untouched' /\ SaveStages'
      BY <1>3, <1>5, <2>1, <2>3
    <2> QED BY <1>2, <2>3, <2>4, SaveStagesNext
  <1>6. CASE In("save", 2) /\ Made(File(made + 1))
    BY <1>2, <1>6, SaveTail
  <1> QED BY <1>1, <1>2, <1>4, <1>5, <1>6, SaveTail DEF SaveStep

LEMMA IntroRests == SInv /\ TInv' /\ IntroStep => OthersRest' /\ Stages'
  <1> SUFFICES ASSUME SInv, TInv', IntroStep PROVE OthersRest' /\ Stages'
    OBVIOUS
  <1> USE DEF In
  <1>1. /\ TypeOK /\ TypeOK' /\ OthersRest /\ Stages /\ slot \in Slots /\ slot \in Region
        /\ ewram \in Memory /\ gSramOperationStage \in Nat
    BY Regions DEF SInv, TInv, TypeOK
  <1>2. /\ kind = "intro" /\ kind \in Operations /\ MakesSave /\ MadeAt = 2 /\ Target = slot
        /\ FirstWrite = 2 /\ (slot \notin astray => Untouched)
    BY <1>1 DEF IntroStep, MakesSave, Operations, MadeAt, Target, Stages, Reached, FirstWrite
  <1>3. CASE In("intro", 0) /\ Stage(1) /\ Keeps
             /\ ewram' = [ewram EXCEPT ![slot] = [c \in Chunk |-> IF c = Last THEN @[c] ELSE 0]]
    <2>1. /\ UNCHANGED <<operation, flash, now, astray>> /\ gSramOperationStage' = 1
          /\ UNCHANGED slots
      BY <1>3 DEF Stage, Keeps
    <2>2. \A r \in Region \ {slot} : ewram'[r] = ewram[r]
      BY <1>1, <1>3 DEF Memory
    <2>3. OthersRest' /\ Allowed' /\ kind' = kind /\ slot' = slot /\ dst' = dst /\ astray' = astray
      BY <1>1, <1>2, <1>3, <2>1, <2>2, OthersOfStage
    <2>4. slot \notin astray => SaveStages'
      BY <1>2, <1>3, <2>1, <2>3 DEF SaveStages, MadeAt
    <2>5. slot \notin astray => Untouched'
      BY <1>1, <1>2, <1>3, <2>1, <2>3, UntouchedNext
    <2> QED BY <1>2, <2>3, <2>4, <2>5, SaveStagesNext
  <1>4. CASE In("intro", 1) /\ Made(File(made + 1))
    BY <1>2, <1>4, SaveTail
  <1> QED BY <1>1, <1>2, <1>3, <1>4, SaveTail DEF IntroStep

LEMMA EndingRests == SInv /\ TInv' /\ EndingStep => OthersRest' /\ Stages'
  <1> SUFFICES ASSUME SInv, TInv', EndingStep PROVE OthersRest' /\ Stages'
    OBVIOUS
  <1> USE DEF In
  <1>1. /\ TypeOK /\ TypeOK' /\ OthersRest /\ Stages /\ slot \in Slots /\ slot \in Region
        /\ ewram \in Memory /\ ewram' \in Memory /\ gSramOperationStage \in Nat
    BY Regions DEF SInv, TInv, TypeOK
  <1>2. /\ kind = "ending" /\ kind \in Operations /\ MakesSave /\ MadeAt = 3 /\ Target = slot
        /\ FirstWrite = 3 /\ (slot \notin astray => Untouched /\ EndingStages)
    BY <1>1 DEF EndingStep, MakesSave, Operations, MadeAt, Target, Stages, Reached, FirstWrite
  <1>3. ASSUME gSramOperationStage' \in {1, 2}, gSramOperationStage \in {0, 1}, kind' = kind, slot' = slot, dst' = dst,
               flash' = flash, now' = now, slot \notin astray, ewram'[slot] = ewram[slot]
        PROVE  Untouched' /\ SaveStages' /\ EndingStages'
    <2>1. Untouched'
      BY <1>1, <1>2, <1>3, UntouchedNext
    <2>2. SaveStages' /\ EndingStages'
      BY <1>2, <1>3 DEF SaveStages, EndingStages, MadeAt
    <2> QED BY <2>1, <2>2
  <1>4. CASE In("ending", 0) /\ Stage(1) /\ gUnk_3000C20' = 0 /\ UNCHANGED <<ewram, slots>>
    <2>1. /\ UNCHANGED <<operation, flash, now, ewram, astray>> /\ gSramOperationStage' = 1
          /\ UNCHANGED slots
      BY <1>4 DEF Stage
    <2>2. OthersRest' /\ Allowed' /\ kind' = kind /\ slot' = slot /\ dst' = dst /\ astray' = astray
      BY <1>1, <1>2, <1>4, <2>1, OthersOfStage
    <2>3. slot \notin astray => Untouched' /\ SaveStages' /\ EndingStages'
      BY <1>3, <1>4, <2>1, <2>2
    <2> QED BY <1>2, <2>2, <2>3, SaveStagesNext
  <1>5. CASE In("ending", 1) /\ Stream(2, slot, 2)
    <2>1. OthersRest' /\ Allowed' /\ kind' = kind /\ slot' = slot /\ dst' = dst /\ astray' = astray
      BY <1>1, <1>2, <1>5, OthersOfStream
    <2>2. /\ gSramOperationStage' \in {1, 2} /\ UNCHANGED <<flash, now>>
          /\ ewram' = Moved(flash, ewram, slot)
      BY <1>5 DEF Stream, unk_fbc
    <2>3. ASSUME slot \notin astray PROVE ewram'[slot] = ewram[slot]
      <3>1. flash[slot] = File(now[slot]) /\ ewram[slot] = File(now[slot])
        BY <1>2, <1>5, <2>3 DEF EndingStages
      <3>2. \A c \in Chunk : ewram'[slot][c] = now[slot]
        BY <1>1, <2>2, <3>1 DEF Moved, File
      <3> QED BY <1>1, <3>1, <3>2 DEF Memory, File
    <2>4. slot \notin astray => Untouched' /\ SaveStages' /\ EndingStages'
      BY <1>3, <1>5, <2>1, <2>2, <2>3
    <2> QED BY <1>2, <2>1, <2>4, SaveStagesNext
  <1>6. CASE In("ending", 2) /\ Made(Completed(ewram[slot]))
    <2>1. ASSUME slot \notin astray PROVE Completed(ewram[slot]) = File(made + 1)
      <3>1. now[slot] # 0 /\ ewram[slot] = File(now[slot])
        BY <1>2, <1>6, <2>1 DEF EndingStages
      <3>2. File(now[slot])[0] = now[slot]
        BY Sizes DEF File
      <3> QED BY <3>1, <3>2 DEF Whole, Completed
    <2> QED BY <1>1, <1>2, <1>6, <2>1, SaveTail
  <1> QED BY <1>1, <1>2, <1>4, <1>5, <1>6, SaveTail DEF EndingStep

LEMMA DeleteRests == SInv /\ TInv' /\ DeleteStep => OthersRest' /\ Stages'
  <1> SUFFICES ASSUME SInv, TInv', DeleteStep PROVE OthersRest' /\ Stages'
    OBVIOUS
  <1> USE DEF In
  <1>1. /\ TypeOK /\ TypeOK' /\ OthersRest /\ Stages /\ slot \in Slots /\ slot \in Region
        /\ Copy(slot) \in Region /\ slot # Copy(slot) /\ ewram \in Memory
        /\ gSramOperationStage \in Nat /\ gUnk_3000C20 \in Chunk
    BY Regions DEF SInv, TInv, TypeOK
  <1>2. /\ kind = "delete" /\ kind \in Operations /\ Target = slot /\ FirstWrite = 1
        /\ slot \notin astray => DeleteStages /\ Untouched
    BY <1>1 DEF DeleteStep, Operations, Target, Stages, Reached, FirstWrite, MakesSave
  <1>3. ASSUME kind' = kind, slot' = slot, astray' = astray, Allowed',
               slot \notin astray => DeleteStages' /\ Untouched'
        PROVE  Stages'
    BY <1>2, <1>3 DEF Stages, Reached, MakesSave, Target, Repairing
  <1>4. CASE /\ In("delete", 0) /\ Stage(1) /\ InfoOf(slot, 0) /\ UNCHANGED gUnk_3000C20
             /\ ewram' = [ewram EXCEPT ![slot] = Blank]
    <2>1. /\ UNCHANGED <<operation, flash, now, astray>> /\ gSramOperationStage' = 1
          /\ UNCHANGED repaired /\ corruptionFlag'[slot] = 0
          /\ \A u \in Slots \ {slot} : corruptionFlag'[u] = corruptionFlag[u]
      BY <1>1, <1>4 DEF Stage, InfoOf, TypeOK
    <2>2. /\ \A r \in Region \ {slot} : ewram'[r] = ewram[r]
          /\ ewram'[slot] = Blank
      BY <1>1, <1>4 DEF Memory
    <2>3. OthersRest' /\ Allowed' /\ kind' = kind /\ slot' = slot /\ dst' = dst /\ astray' = astray
      BY <1>1, <1>2, <2>1, <2>2, OthersOfStage
    <2>4. ASSUME slot \notin astray PROVE DeleteStages' /\ Untouched'
      <3>0. gUnk_3000C20' = 0
        BY <1>2, <1>4, <2>4 DEF DeleteStages
      <3>1. \A c \in Chunk : ~ (c < gUnk_3000C20')
        BY <3>0, Sizes
      <3>2. DeleteStages'
        BY <2>1, <2>2, <2>3, <3>1 DEF DeleteStages, Moving
      <3> QED BY <1>1, <1>2, <1>4, <2>1, <2>3, <2>4, <3>2, UntouchedNext
    <2> QED BY <1>3, <2>3, <2>4
  <1>5. CASE In("delete", 1) /\ Stream(0, slot, 2)
    <2>1. OthersRest' /\ Allowed' /\ kind' = kind /\ slot' = slot /\ dst' = dst /\ astray' = astray
      BY <1>1, <1>2, <1>5, OthersOfStream
    <2>2. /\ unk_fbc(0, slot)
          /\ gSramOperationStage' = IF gUnk_3000C20 = Last THEN 2 ELSE 1
      BY <1>5 DEF Stream
    <2>3. ASSUME slot \notin astray PROVE DeleteStages' /\ Untouched'
      <3>1. ewram[slot] = File(0) /\ Moving(slot, 0)
        BY <1>2, <1>5, <2>3 DEF DeleteStages, Blank
      <3>2. /\ gUnk_3000C20 # Last => \A c \in Chunk : c < gUnk_3000C20' => flash'[slot][c] = 0
            /\ gUnk_3000C20 = Last => gUnk_3000C20' = 0 /\ flash'[slot] = File(0)
            /\ ewram' = ewram
        BY <1>1, <2>2, <3>1, StreamFills
      <3>3. DeleteStages'
        BY <2>1, <2>2, <3>1, <3>2 DEF DeleteStages, Moving, Blank
      <3>4. \/ gSramOperationStage' > FirstWrite
            \/ gSramOperationStage' = FirstWrite /\ gUnk_3000C20' # 0
        BY <1>1, <1>2, <1>5, StreamCounts
      <3> QED BY <1>1, <1>2, <2>1, <2>3, <3>3, <3>4, UntouchedNext
    <2> QED BY <1>3, <2>1, <2>3
  <1>6. CASE /\ In("delete", 2) /\ Stage(3) /\ Keeps
             /\ ewram' = [ewram EXCEPT ![Copy(slot)] = Blank]
    <2>1. /\ UNCHANGED <<operation, flash, now, astray>> /\ gSramOperationStage' = 3
          /\ UNCHANGED slots /\ gUnk_3000C20' = gUnk_3000C20
      BY <1>6 DEF Stage, Keeps
    <2>2. /\ \A r \in Region \ {Copy(slot)} : ewram'[r] = ewram[r]
          /\ ewram'[Copy(slot)] = Blank
      BY <1>1, <1>6 DEF Memory
    <2>3. OthersRest' /\ Allowed' /\ kind' = kind /\ slot' = slot /\ dst' = dst /\ astray' = astray
      BY <1>1, <1>2, <2>1, <2>2, OthersOfStage
    <2>4. ASSUME slot \notin astray PROVE DeleteStages' /\ Untouched'
      <3>1. /\ gUnk_3000C20' = 0 /\ ewram'[slot] = Blank /\ flash'[slot] = Blank
        BY <1>1, <1>2, <1>6, <2>1, <2>2, <2>4 DEF DeleteStages
      <3>2. \A c \in Chunk : ~ (c < gUnk_3000C20')
        BY <3>1, Sizes
      <3>3. DeleteStages'
        BY <2>1, <2>2, <2>3, <3>1, <3>2 DEF DeleteStages, Moving
      <3> QED BY <1>1, <1>2, <2>1, <2>3, <2>4, <3>3, UntouchedNext
    <2> QED BY <1>3, <2>3, <2>4
  <1>7. CASE In("delete", 3) /\ Stream(1, slot, 4)
    <2>1. OthersRest' /\ Allowed' /\ kind' = kind /\ slot' = slot /\ dst' = dst /\ astray' = astray
      BY <1>1, <1>2, <1>7, OthersOfStream
    <2>2. /\ unk_fbc(1, slot)
          /\ gSramOperationStage' = IF gUnk_3000C20 = Last THEN 4 ELSE 3
      BY <1>7 DEF Stream
    <2>3. ASSUME slot \notin astray PROVE DeleteStages' /\ Untouched'
      <3>1. /\ ewram[slot] = Blank /\ flash[slot] = Blank
            /\ ewram[Copy(slot)] = File(0) /\ Moving(Copy(slot), 0)
        BY <1>2, <1>7, <2>3 DEF DeleteStages, Blank
      <3>2. /\ gUnk_3000C20 # Last => \A c \in Chunk : c < gUnk_3000C20' => flash'[Copy(slot)][c] = 0
            /\ gUnk_3000C20 = Last => flash'[Copy(slot)] = File(0)
            /\ ewram' = ewram
            /\ flash'[slot] = flash[slot]
        BY <1>1, <2>2, <3>1, StreamFills
      <3>3. DeleteStages'
        BY <2>1, <2>2, <3>1, <3>2 DEF DeleteStages, Moving, Blank
      <3> QED BY <1>1, <1>2, <2>1, <2>2, <2>3, <3>3, UntouchedNext
    <2> QED BY <1>3, <2>1, <2>3
  <1>8. CASE gSramOperationStage >= 4 /\ Ends
    <2>1. slot \notin astray => /\ ewram[slot] = Blank /\ flash[slot] = Blank
                                /\ ewram[Copy(slot)] = Blank /\ flash[Copy(slot)] = Blank
      BY <1>1, <1>2, <1>8 DEF DeleteStages
    <2>2. slot \notin astray => Held[slot] = 0
      BY <1>1, <1>2, <2>1, Sizes DEF Held, Blank, File, TypeOK
    <2> QED BY <1>1, <1>2, <1>8, <2>1, <2>2, RestAtTheEnd DEF Blank
  <1> QED BY <1>4, <1>5, <1>6, <1>7, <1>8 DEF DeleteStep

LEMMA CopyRests == SInv /\ TInv' /\ CopyStep => OthersRest' /\ Stages'
  <1> SUFFICES ASSUME SInv, TInv', CopyStep PROVE OthersRest' /\ Stages'
    OBVIOUS
  <1> USE DEF In
  <1>1. /\ TypeOK /\ TypeOK' /\ OthersRest /\ Stages /\ slot \in Slots /\ dst \in Slots
        /\ slot \in Region /\ dst \in Region /\ Copy(dst) \in Region /\ dst # Copy(dst)
        /\ ewram \in Memory /\ gSramOperationStage \in Nat /\ gUnk_3000C20 \in Chunk
    BY Regions DEF SInv, TInv, TypeOK
  <1>2. /\ kind = "copy" /\ kind \in Operations /\ Target = dst /\ FirstWrite = 1
        /\ slot # dst /\ (gSramOperationStage = 0 => corruptionFlag[slot] = 0)
        /\ dst \notin astray => CopyStages /\ Untouched
    BY <1>1 DEF CopyStep, Operations, Target, Stages, Allowed, Reached, FirstWrite, MakesSave
  <1>3. ASSUME kind' = kind, slot' = slot, dst' = dst, astray' = astray, Allowed',
               dst \notin astray => CopyStages' /\ Untouched'
        PROVE  Stages'
    BY <1>2, <1>3 DEF Stages, Reached, MakesSave, Target, Repairing
  <1>4. ASSUME dst \notin astray
        PROVE  slot \notin astray /\ now[slot] # 0 /\ ewram[slot] = File(now[slot])
    BY <1>1, <1>2, <1>4 DEF OthersRest, AtRest, CopyStages
  <1>5. CASE /\ In("copy", 0) /\ Stage(1) /\ InfoOf(dst, corruptionFlag[slot])
             /\ UNCHANGED gUnk_3000C20 /\ ewram' = [ewram EXCEPT ![dst] = ewram[slot]]
    <2>1. /\ UNCHANGED <<operation, flash, now, astray>> /\ gSramOperationStage' = 1
          /\ UNCHANGED repaired /\ corruptionFlag'[dst] = 0
          /\ \A u \in Slots \ {dst} : corruptionFlag'[u] = corruptionFlag[u]
      BY <1>1, <1>2, <1>5 DEF Stage, InfoOf, TypeOK
    <2>2. /\ \A r \in Region \ {dst} : ewram'[r] = ewram[r]
          /\ ewram'[dst] = ewram[slot]
      BY <1>1, <1>5 DEF Memory
    <2>3. OthersRest' /\ Allowed' /\ kind' = kind /\ slot' = slot /\ dst' = dst /\ astray' = astray
      BY <1>1, <1>2, <2>1, <2>2, OthersOfStage
    <2>4. ASSUME dst \notin astray PROVE CopyStages' /\ Untouched'
      <3>1. \A c \in Chunk : ~ (c < gUnk_3000C20')
        BY <1>2, <1>5, <2>4, Sizes DEF CopyStages
      <3>2. CopyStages'
        BY <1>4, <2>1, <2>2, <2>3, <2>4, <3>1 DEF CopyStages, Moving
      <3> QED BY <1>1, <1>2, <1>5, <2>1, <2>3, <2>4, <3>2, UntouchedNext
    <2> QED BY <1>3, <2>3, <2>4
  <1>6. CASE In("copy", 1) /\ Stream(0, dst, 2)
    <2>1. OthersRest' /\ Allowed' /\ kind' = kind /\ slot' = slot /\ dst' = dst /\ astray' = astray
      BY <1>1, <1>2, <1>6, OthersOfStream
    <2>2. /\ unk_fbc(0, dst) /\ now' = now
          /\ gSramOperationStage' = IF gUnk_3000C20 = Last THEN 2 ELSE 1
      BY <1>6 DEF Stream
    <2>3. ASSUME dst \notin astray PROVE CopyStages' /\ Untouched'
      <3>1. ewram[dst] = File(now[slot]) /\ Moving(dst, now[slot])
        BY <1>2, <1>6, <2>3 DEF CopyStages
      <3>2. /\ gUnk_3000C20 # Last => \A c \in Chunk : c < gUnk_3000C20' => flash'[dst][c] = now[slot]
            /\ gUnk_3000C20 = Last => flash'[dst] = File(now[slot])
            /\ ewram' = ewram
        BY <1>1, <2>2, <3>1, StreamFills
      <3>3. CopyStages'
        BY <1>4, <2>1, <2>2, <2>3, <3>1, <3>2 DEF CopyStages, Moving
      <3>4. \/ gSramOperationStage' > FirstWrite
            \/ gSramOperationStage' = FirstWrite /\ gUnk_3000C20' # 0
        BY <1>1, <1>2, <1>6, StreamCounts
      <3> QED BY <1>1, <1>2, <2>1, <2>3, <3>3, <3>4, UntouchedNext
    <2> QED BY <1>3, <2>1, <2>3
  <1>7. CASE /\ In("copy", 2) /\ Stage(3) /\ Keeps
             /\ ewram' = [ewram EXCEPT ![Copy(dst)] = ewram[Copy(slot)]]
    <2>1. /\ UNCHANGED <<operation, flash, now, astray>> /\ gSramOperationStage' = 3
          /\ UNCHANGED slots
      BY <1>7 DEF Stage, Keeps
    <2>2. \A r \in Region \ {Copy(dst)} : ewram'[r] = ewram[r]
      BY <1>1, <1>7 DEF Memory
    <2>3. OthersRest' /\ Allowed' /\ kind' = kind /\ slot' = slot /\ dst' = dst /\ astray' = astray
      BY <1>1, <1>2, <2>1, <2>2, OthersOfStage
    <2>4. ASSUME dst \notin astray PROVE CopyStages' /\ Untouched'
      <3>1. ewram'[dst] = File(now[slot]) /\ flash'[dst] = File(now[slot])
        BY <1>1, <1>2, <1>7, <2>1, <2>2, <2>4 DEF CopyStages
      <3>2. CopyStages'
        BY <1>4, <2>1, <2>3, <2>4, <3>1 DEF CopyStages
      <3> QED BY <1>1, <1>2, <2>1, <2>3, <2>4, <3>2, UntouchedNext
    <2> QED BY <1>3, <2>3, <2>4
  <1>8. CASE In("copy", 3) /\ Stream(1, dst, 4)
    <2>1. OthersRest' /\ Allowed' /\ kind' = kind /\ slot' = slot /\ dst' = dst /\ astray' = astray
      BY <1>1, <1>2, <1>8, OthersOfStream
    <2>2. /\ flash' = Moved(ewram, flash, Copy(dst)) /\ ewram' = ewram /\ now' = now
          /\ gSramOperationStage' \in {3, 4}
      BY <1>8 DEF Stream, unk_fbc
    <2>3. ASSUME dst \notin astray PROVE CopyStages' /\ Untouched'
      <3>1. ewram[dst] = File(now[slot]) /\ flash[dst] = File(now[slot])
        BY <1>2, <1>8, <2>3 DEF CopyStages
      <3>2. \A c \in Chunk : flash'[dst][c] = now[slot]
        BY <1>1, <2>2, <3>1 DEF Moved, File
      <3>3. flash'[dst] \in [Chunk -> Content]
        BY <1>1 DEF TypeOK, Memory
      <3>4. flash'[dst] = File(now[slot])
        BY <3>2, <3>3 DEF File
      <3>5. CopyStages'
        BY <1>4, <2>1, <2>2, <2>3, <3>1, <3>4 DEF CopyStages
      <3> QED BY <1>1, <1>2, <2>1, <2>2, <2>3, <3>5, UntouchedNext
    <2> QED BY <1>3, <2>1, <2>3
  <1>9. CASE gSramOperationStage >= 4 /\ Ends
    <2>1. dst \notin astray => /\ now[slot] # 0 /\ ewram[dst] = File(now[slot])
                               /\ flash[dst] = File(now[slot])
      BY <1>1, <1>2, <1>9 DEF CopyStages
    <2>2. dst \notin astray => Held[dst] = now[slot]
      BY <1>1, <1>2, <2>1, Sizes DEF Held, File, TypeOK
    <2> QED BY <1>1, <1>2, <1>9, <2>1, <2>2, RestAtTheEnd
  <1> QED BY <1>5, <1>6, <1>7, <1>8, <1>9 DEF CopyStep

\* When the handler is through with a slot, the file it loaded is on the save memory.
LEMMA RepairOverRests ==
  ASSUME TypeOK, TypeOK', RepairOver, UNCHANGED <<slot, now, ewram>>, NEW s \in Slots, AtRest(s),
         \A r \in {s, Copy(s)} : \A c \in Chunk : flash'[r][c] \in {flash[r][c], ewram[r][c]},
         s = slot => /\ flash'[slot] = File(now[slot])
                     /\ now[slot] = 0 => flash'[Copy(slot)][0] = 0 /\ ewram[Copy(slot)][0] = 0
  PROVE  AtRest(s)'
  <1>1. CASE s # slot
    <2>1. corruptionFlag'[s] = corruptionFlag[s] /\ (s \in repaired' <=> s \in repaired)
      BY <1>1 DEF RepairOver, TypeOK
    <2>2. Mirrors(s)
      BY <1>1, <2>1 DEF Mirrors
    <2> QED BY <2>2, RestStays
  <1>2. CASE s = slot
    <2>1. Handled(s)'
      BY <1>2 DEF RepairOver, Handled
    <2>2. ewram'[s] = File(now'[s]) /\ flash'[s] = File(now'[s])
      BY <1>2 DEF AtRest
    <2>3. now'[s] = 0 => flash'[Copy(s)][0] = 0 /\ ewram'[Copy(s)][0] = 0
      BY <1>2
    <2>4. Loaded(flash', s) = now'[s]
      BY <2>2, <2>3, Sizes DEF Loaded, Whole, File
    <2> QED BY <2>1, <2>2, <2>3, <2>4 DEF AtRest, Loaded
  <1> QED BY <1>1, <1>2

LEMMA RepairRests == SInv /\ TInv' /\ RepairStep => OthersRest' /\ Stages'
  <1> SUFFICES ASSUME SInv, TInv', RepairStep PROVE OthersRest' /\ Stages'
    OBVIOUS
  <1>1. /\ TypeOK /\ TypeOK' /\ slot \in Slots /\ slot \in Region /\ Copy(slot) \in Region
        /\ gUnk_3000C20 \in Chunk /\ 0 \in Chunk
    BY Regions, Sizes DEF SInv, TInv, TypeOK
  <1>2. /\ kind \in Repairs /\ (slot \notin astray => RepairStages)
        /\ \A s \in Slots \ astray : AtRest(s)
    BY DEF RepairStep, SInv, Stages, Reached, OthersRest, Operations, Repairs, Repairing, Target
  <1>3. slot' = slot /\ dst' = dst /\ now' = now /\ astray' = astray
    BY DEF RepairStep
  <1>4. slot \notin astray => ewram[slot] = File(now[slot])
    BY <1>1, <1>2 DEF AtRest
  <1>5. ASSUME NEW param \in {0, 1}, unk_fbc(param, slot)
        PROVE  /\ \A r \in Region : \A c \in Chunk : flash'[r][c] \in {flash[r][c], ewram[r][c]}
               /\ ewram' = ewram
               /\ UNCHANGED slots => \A s \in Slots \ astray : AtRest(s)'
    <2>1. /\ \A r \in Region : \A c \in Chunk : flash'[r][c] \in {flash[r][c], ewram[r][c]}
          /\ ewram' = ewram
      BY <1>5 DEF unk_fbc, Moved
    <2>2. ASSUME UNCHANGED slots, NEW s \in Slots \ astray PROVE AtRest(s)'
      <3>1. AtRest(s) /\ now' = now
        BY <1>2, <1>3
      <3> QED BY <1>1, <1>5, <2>2, <3>1, StreamRests
    <2> QED BY <2>1, <2>2
  <1>6. ASSUME RepairOver, NEW param \in {0, 1}, unk_fbc(param, slot),
               slot \notin astray =>
                 /\ flash'[slot] = File(now[slot])
                 /\ \/ Handled(slot) \/ now[slot] # 0
                    \/ flash'[Copy(slot)] = Blank /\ ewram[Copy(slot)] = Blank
        PROVE  OthersRest' /\ Stages'
    <2>1. slot \notin astray /\ now[slot] = 0 => flash'[Copy(slot)][0] = 0 /\ ewram[Copy(slot)][0] = 0
      BY <1>1, <1>2, <1>5, <1>6 DEF AtRest, Blank, File
    <2>2. \A s \in Slots : s \in Region /\ Copy(s) \in Region
      BY Regions
    <2>3. ASSUME NEW s \in Slots \ astray PROVE AtRest(s)'
      <3>1. /\ AtRest(s) /\ UNCHANGED <<slot, now, ewram>>
            /\ \A r \in {s, Copy(s)} : \A c \in Chunk : flash'[r][c] \in {flash[r][c], ewram[r][c]}
            /\ s = slot => /\ flash'[slot] = File(now[slot])
                           /\ now[slot] = 0 => flash'[Copy(slot)][0] = 0 /\ ewram[Copy(slot)][0] = 0
        BY <1>2, <1>3, <1>5, <1>6, <2>1, <2>2
      <3> QED BY <1>1, <1>6, <3>1, RepairOverRests
    <2>4. kind' = "none"
      BY <1>6 DEF RepairOver
    <2> QED BY <1>3, <2>3, <2>4 DEF OthersRest, Stages, Allowed, Reached, Untouched, Operations,
         MakesSave, Repairing
  <1>7. ASSUME NEW k \in Repairs, RepairGoesOn(k), NEW param \in {0, 1}, unk_fbc(param, slot),
               slot \notin astray => RepairStages'
        PROVE  OthersRest' /\ Stages'
    <2>1. kind' = k /\ UNCHANGED slots
      BY <1>2, <1>7 DEF RepairGoesOn
    <2>2. \A s \in Slots \ astray : AtRest(s)'
      BY <1>5, <1>7, <2>1
    <2>3. kind' \notin Operations /\ ~ MakesSave' /\ Target' = slot /\ kind' # "copy"
      BY <1>3, <2>1 DEF Operations, Repairs, MakesSave, Target
    <2>4. kind' # "ending" /\ kind' # "delete"
      BY <2>1 DEF Repairs
    <2> QED BY <1>3, <1>7, <2>1, <2>2, <2>3, <2>4 DEF OthersRest, Stages, Allowed, Reached, Untouched
  <1>8. CASE kind = "repair" /\ unk_fbc(0, slot)
    <2>1. ASSUME slot \notin astray
          PROVE  /\ gUnk_3000C20 # Last => \A c \in Chunk : c < gUnk_3000C20' => flash'[slot][c] = now[slot]
                 /\ gUnk_3000C20 = Last => gUnk_3000C20' = 0 /\ flash'[slot] = File(now[slot])
      <3>1. Moving(slot, now[slot])
        BY <1>2, <1>8, <2>1 DEF RepairStages
      <3> QED BY <1>1, <1>4, <1>8, <2>1, <3>1, StreamFills
    <2>2. CASE gUnk_3000C20 # Last
      <3>1. RepairGoesOn("repair")
        BY <1>8, <2>2 DEF RepairStep
      <3>2. slot \notin astray => RepairStages'
        BY <1>3, <2>1, <2>2, <3>1 DEF RepairStages, RepairGoesOn, Moving
      <3> QED BY <1>7, <1>8, <3>1, <3>2 DEF Repairs
    <2>3. CASE gUnk_3000C20 = Last /\ corruptionFlag[slot] = 1
      <3>1. RepairOver
        BY <1>8, <2>3 DEF RepairStep
      <3>2. slot \notin astray => Handled(slot) \/ now[slot] # 0
        BY <1>1, <1>2, <2>3 DEF AtRest
      <3> QED BY <1>6, <1>8, <2>1, <2>3, <3>1, <3>2
    <2>4. CASE gUnk_3000C20 = Last /\ corruptionFlag[slot] # 1
      <3>1. RepairGoesOn("repairCopy")
        BY <1>8, <2>4 DEF RepairStep
      <3>2. slot \notin astray => \A c \in Chunk : ~ (c < gUnk_3000C20')
        BY <2>1, <2>4, Sizes
      <3>3. slot \notin astray => RepairStages'
        BY <1>3, <2>1, <2>4, <3>1, <3>2 DEF RepairStages, RepairGoesOn, Moving
      <3> QED BY <1>7, <1>8, <3>1, <3>3 DEF Repairs
    <2> QED BY <2>2, <2>3, <2>4
  <1>9. CASE kind = "repairCopy" /\ unk_fbc(1, slot)
    <2>1. ASSUME slot \notin astray PROVE flash'[slot] = File(now[slot])
      <3>1. flash[slot] = File(now[slot])
        BY <1>2, <1>9, <2>1 DEF RepairStages
      <3>2. \A c \in Chunk : flash'[slot][c] = now[slot]
        BY <1>1, <1>4, <1>5, <1>9, <2>1, <3>1 DEF File
      <3>3. flash'[slot] \in [Chunk -> Content]
        BY <1>1 DEF TypeOK, Memory
      <3> QED BY <3>2, <3>3 DEF File
    <2>2. ASSUME slot \notin astray, ~ Handled(slot)
          PROVE  /\ gUnk_3000C20 # Last =>
                      \A c \in Chunk : c < gUnk_3000C20' => flash'[Copy(slot)][c] = now[slot]
                 /\ gUnk_3000C20 = Last => flash'[Copy(slot)] = File(now[slot])
                 /\ ewram[Copy(slot)] = File(now[slot])
      <3>1. Moving(Copy(slot), now[slot]) /\ ewram[Copy(slot)] = File(now[slot])
        BY <1>1, <1>2, <1>9, <2>2 DEF RepairStages, AtRest
      <3> QED BY <1>1, <1>9, <3>1, StreamFills
    <2>3. CASE gUnk_3000C20 # Last
      <3>1. RepairGoesOn("repairCopy")
        BY <1>9, <2>3 DEF RepairStep
      <3>2. slot \notin astray => RepairStages'
        BY <1>3, <2>1, <2>2, <2>3, <3>1 DEF RepairStages, RepairGoesOn, Moving, Handled, slots
      <3> QED BY <1>7, <1>9, <3>1, <3>2 DEF Repairs
    <2>4. CASE gUnk_3000C20 = Last
      <3>1. RepairOver
        BY <1>9, <2>4 DEF RepairStep
      <3>2. slot \notin astray => \/ Handled(slot) \/ now[slot] # 0
                                  \/ flash'[Copy(slot)] = Blank /\ ewram[Copy(slot)] = Blank
        BY <2>2, <2>4 DEF Blank
      <3> QED BY <1>6, <1>9, <2>1, <3>1, <3>2
    <2> QED BY <2>3, <2>4
  <1> QED BY <1>8, <1>9 DEF RepairStep

\* An operation begins with every slot at rest, and its target at stage 0 unless it is astray.
LEMMA BeginRests == SInv /\ TInv' /\ Begin => OthersRest' /\ Stages'
  <1> SUFFICES ASSUME SInv, TInv', Begin PROVE OthersRest' /\ Stages'
    OBVIOUS
  <1>0. TypeOK /\ TypeOK'
    BY DEF SInv, TInv
  <1>1. PICK k \in Operations \cup {"repair"}, s \in Slots, t \in Slots : Beginning(k, s, t)
    BY <1>0, Beginnings
  <1>2. /\ kind = "none" /\ kind' = k /\ slot' = s /\ dst' = t /\ astray \subseteq astray'
        /\ UNCHANGED <<ewram, flash, corruptionFlag, repaired, now>>
    BY <1>1 DEF Beginning, Begins, regions, slots
  <1>3. \A u \in Slots \ astray : AtRest(u)
    BY <1>2 DEF SInv, OthersRest, Operations
  <1>4. \A u \in Slots \ astray' : AtRest(u) /\ AtRest(u)'
    <2>1. \A u \in Slots : Mirrors(u)
      BY <1>2 DEF Mirrors
    <2> QED BY <1>0, <1>2, <1>3, <2>1, RestStays
  <1>5. Allowed'
    BY <1>1, <1>2 DEF Beginning, Allowed, HandlerDone, Enabled
  <1>6. ASSUME Target' \notin astray' PROVE Reached'
    <2>1. /\ Target' = t /\ AtRest(t) /\ AtRest(t)' /\ (k # "copy" => s = t)
          /\ k \in Operations => gSramOperationStage' = 0
          /\ k \in {"delete", "copy", "repair"} => gUnk_3000C20' = 0
      BY <1>1, <1>2, <1>4, <1>6 DEF Beginning, Target, Operations
    <2>2. Untouched'
      BY <2>1 DEF Untouched, AtRest, Loaded
    <2>3. MakesSave' => SaveStages'
      BY <1>2, <2>1 DEF MakesSave, SaveStages, MadeAt, Operations
    <2>4. ASSUME k = "ending" PROVE EndingStages'
      <3>1. Handled(s) /\ ewram[s] # Blank
        BY <1>1, <2>4 DEF Beginning, Playable, HandlerDone, Handled
      <3>2. flash[s] = File(now[s]) /\ ewram[s] = File(now[s]) /\ now[s] # 0
        BY <2>1, <2>4, <3>1 DEF AtRest, Blank
      <3> QED BY <1>2, <3>2 DEF EndingStages
    <2>5. ASSUME k = "delete" PROVE DeleteStages'
      BY <2>1, <2>5 DEF DeleteStages, Operations
    <2>6. ASSUME k = "copy" PROVE CopyStages'
      <3>1. s \notin astray /\ ewram[s] # Blank /\ s # t
        BY <1>1, <1>2, <1>6, <2>1, <2>6 DEF Beginning, Enabled
      <3>2. s \notin astray'
        BY <1>1, <1>6, <2>1, <3>1 DEF Beginning
      <3>3. now[s] # 0
        BY <1>3, <3>1 DEF AtRest, Blank
      <3> QED BY <1>2, <2>1, <2>6, <3>2, <3>3 DEF CopyStages, Operations
    <2>7. ASSUME k = "repair" PROVE RepairStages'
      <3>1. \A c \in Chunk : ~ (c < gUnk_3000C20')
        BY <2>1, <2>7, Sizes
      <3> QED BY <1>2, <2>7, <3>1 DEF RepairStages, Moving
    <2>8. Repairing' => k = "repair"
      BY <1>2 DEF Repairing, Operations
    <2> QED BY <1>2, <2>2, <2>3, <2>4, <2>5, <2>6, <2>7, <2>8 DEF Reached
  <1> QED BY <1>4, <1>5, <1>6 DEF OthersRest, Stages

\* Every slot is at rest after a start from a card a program could have left.
LEMMA RestInit == Init => OthersRest /\ Stages
  <1> SUFFICES ASSUME Init, NEW s \in Slots PROVE AtRest(s)
    BY DEF Init, OthersRest, Stages, Allowed, Reached, Untouched, Operations, MakesSave, Repairing
  <1> DEFINE after == [r \in Region |-> BootFlash(card, r)]
  <1>1. card \in Memory /\ now[s] = Loaded(card, s)
    BY TypeInit DEF TInv, TypeOK, Init
  <1>2. /\ BootFile(card, s) = File(now[s]) /\ Loaded(after, s) = now[s]
        /\ FlagOf(card, s) % 3 = 0 => /\ after[s] = File(now[s])
                                      /\ now[s] = 0 => after[Copy(s)] = Blank
        /\ FlagOf(card, s) % 3 = 1 => now[s] # 0
    BY <1>1, Booted
  <1>3. /\ flash = after /\ ewram[s] = BootFile(card, s) /\ ewram[Copy(s)] = BootFile(card, s)
        /\ corruptionFlag[s] = FlagOf(card, s) % 3 /\ repaired = {}
    BY Regions DEF Init
  <1>4. Handled(s) <=> FlagOf(card, s) % 3 = 0
    BY <1>3 DEF Handled
  <1>5. Blank[0] = 0 /\ File(0)[0] = 0
    BY Sizes DEF Blank, File
  <1> HIDE DEF after
  <1> QED BY <1>2, <1>3, <1>4, <1>5 DEF AtRest

\* A save's number is one more than the last.
LEMMA MadeGrows ==
  ASSUME TypeOK, [Next]_vars
  PROVE  made' = made \/ (made' = made + 1 /\ MakesSave /\ kind' = kind)
  <1>1. CASE SaveStep \/ IntroStep \/ EndingStep
    BY <1>1 DEF SaveStep, IntroStep, EndingStep, Stream, Stage, Made, Ends, In, MakesSave, operation
  <1>2. CASE DeleteStep \/ CopyStep \/ RepairStep
    BY <1>2 DEF DeleteStep, CopyStep, RepairStep, Stream, Stage, Ends
  <1>3. CASE Restart \/ SoftResetCheck \/ TriggerGameRestart
    BY <1>3 DEF Restart, SoftResetCheck, TriggerGameRestart, SoftReset
  <1>4. CASE Begin
    BY <1>4, Beginnings DEF Beginning, Begins
  <1> QED BY <1>1, <1>2, <1>3, <1>4 DEF Next, Wait, OtherWrite, Idle, EnterGame, Work, vars

\* Every start and reset.
Resets == Restart \/ SoftResetCheck \/ TriggerGameRestart

\* A start or reset, of the card or of the save memory in any state, leaves every slot at rest.
LEMMA ResetRests ==
  ASSUME TypeOK, Resets
  PROVE  /\ kind' = "none" /\ astray' = {} /\ \A s \in Slots : AtRest(s)'
         /\ ~ Restart => \A s \in Slots : now'[s] = Loaded(flash, s)
  <1>1. card \in Memory /\ flash \in Memory
    BY DEF TypeOK
  <1>2. SramRead_All(card) \/ SramRead_All(flash)
    BY DEF Resets, Restart, SoftResetCheck, TriggerGameRestart, SoftReset
  <1>3. ~ Restart => SramRead_All(flash)
    BY DEF Resets, SoftResetCheck, TriggerGameRestart, SoftReset
  <1>4. kind' = "none" /\ astray' = {}
    BY <1>2 DEF SramRead_All
  <1>5. \A s \in Slots : AtRest(s)'
    BY <1>1, <1>2, BootRests
  <1>6. ~ Restart => \A s \in Slots : now'[s] = Loaded(flash, s)
    BY <1>1, <1>3, BootRests
  <1> QED BY <1>4, <1>5, <1>6

\* Every step keeps every slot at rest, but the target and those that are astray.
LEMMA RestStep == SInv /\ [Next]_vars => SInv'
  <1> SUFFICES ASSUME SInv, [Next]_vars PROVE SInv'
    OBVIOUS
  <1>1. TInv' /\ TypeOK /\ TypeOK' /\ made' # 0
    <2>1. TInv' /\ TypeOK /\ TypeOK'
      BY TypeStep DEF SInv, TInv
    <2>2. made \in Nat /\ made # 0
      BY DEF SInv, TInv, TypeOK
    <2> QED BY <2>1, <2>2, MadeGrows
  <1>2. ASSUME kind' = "none", \A s \in Slots \ astray' : AtRest(s)' PROVE SInv'
    BY <1>1, <1>2 DEF SInv, OthersRest, Stages, Allowed, Reached, Untouched, Operations, MakesSave,
       Repairing
  <1>3. CASE Resets
    BY <1>1, <1>2, <1>3, ResetRests
  <1>4. CASE Wait \/ OtherWrite \/ EnterGame
    <2>1. /\ kind = "none" /\ kind' = "none" /\ astray' = astray
          /\ UNCHANGED <<ewram, flash, corruptionFlag, repaired, now>>
      BY <1>4 DEF Wait, OtherWrite, EnterGame, Idle, regions, slots, operation
    <2>2. \A s \in Slots \ astray : AtRest(s) /\ Mirrors(s)
      BY <2>1 DEF SInv, OthersRest, Operations, Mirrors
    <2> QED BY <1>1, <1>2, <2>1, <2>2, RestStays
  <1>5. CASE UNCHANGED vars
    <2>1. UNCHANGED <<regions, slots, operation, gSramOperationStage, gUnk_3000C20, made, now, astray>>
      BY <1>5 DEF vars, progress
    <2>2. OthersRest'
      BY <2>1 DEF SInv, OthersRest, AtRest, Handled, Target, Loaded, regions, slots, operation
    <2>3. Allowed'
      BY <2>1 DEF SInv, Stages, Allowed, HandlerDone, slots, operation
    <2>4. Reached => Reached'
      BY <2>1 DEF Reached, Untouched, Unwritten, FirstWrite, Target, MakesSave, MadeAt, SaveStages,
         EndingStages, DeleteStages, CopyStages, RepairStages, Repairing, Moving, Loaded, Handled,
         regions, slots, operation
    <2>5. Target' = Target /\ astray' = astray
      BY <2>1 DEF Target, operation
    <2> QED BY <1>1, <2>2, <2>3, <2>4, <2>5 DEF SInv, Stages
  <1>6. ASSUME OthersRest' /\ Stages' PROVE SInv'
    BY <1>1, <1>6 DEF SInv
  <1> QED BY <1>1, <1>3, <1>4, <1>5, <1>6, BeginRests, SaveRests, IntroRests, EndingRests,
             DeleteRests, CopyRests, RepairRests DEF Next, Resets, Work

\* The inductive invariant: every slot but the one an operation works on, and those astray, is at
\* rest, and the slot of an operation that is not astray is as far as its stage.
THEOREM SlotsAtRest == Spec => []SInv
  <1>1. Init => SInv
    BY TypeInit, RestInit, SaveSlotsAssumption DEF SInv, Init
  <1> QED BY <1>1, RestStep, PTL DEF Spec

\* Between two operations EWRAM and a start from the save memory show each slot what it holds, but
\* for the slots that are astray: for any number of slots and chunks, whatever the spill of one
\* file's end onto the next, whatever is left of the handler's work, and wherever RESTART cut the
\* operation before.
THEOREM Session == Spec => []SessionIsTheMemory
  <1>1. SInv => SessionIsTheMemory
    BY DEF SInv, OthersRest, Operations, AtRest, SessionIsTheMemory, Free, Repairing
  <1> QED BY <1>1, SlotsAtRest, PTL

\* An operation does not change what a start finds in the slots it is not for, at any of its
\* frames, and neither does a reset in the middle of it.
THEOREM OthersKept == Spec => OthersUntouched
  <1>1. ASSUME SInv, SInv', Next, ~ Restart, NEW s \in Slots \ (astray \cup Worked)
        PROVE  Loaded(flash', s) = Loaded(flash, s)
    <2>1. TypeOK /\ s \in Slots
      BY <1>1 DEF SInv, TInv
    <2>2. CASE Begin
      BY <2>1, <2>2, Beginnings DEF Beginning, Begins, regions
    <2>3. kind \in Operations => s # Target
      BY <1>1 DEF Worked, Free, Repairing, Operations
    <2>4. AtRest(s)
      BY <1>1, <2>3 DEF SInv, OthersRest
    <2>5. CASE Resets
      <3>1. AtRest(s)' /\ now'[s] = Loaded(flash, s)
        BY <1>1, <2>1, <2>5, ResetRests
      <3> QED BY <3>1 DEF AtRest, Loaded
    <2>6. CASE Wait \/ OtherWrite \/ EnterGame
      BY <2>6 DEF Wait, OtherWrite, Idle, EnterGame, regions
    <2>7. CASE Work
      <3>1. now'[s] = now[s]
        <4>1. now' = now \/ (kind \in Operations /\ now' = Held)
          BY <2>7 DEF Work, SaveStep, IntroStep, EndingStep, DeleteStep, CopyStep, RepairStep, Stream,
             Stage, Ends, Made, In, Operations
        <4> QED BY <2>1, <2>3, <4>1 DEF Held, TypeOK
      <3>2. /\ astray' = astray
            /\ kind' \notin Operations \/ (kind \in Operations /\ Target' = Target)
        <4>1. astray' = astray
          BY <2>7 DEF Work, SaveStep, IntroStep, EndingStep, DeleteStep, CopyStep, RepairStep, Stream,
             Stage, Ends, Made
        <4>2. CASE RepairStep
          BY <4>1, <4>2 DEF RepairStep, RepairOver, RepairGoesOn, Operations
        <4>3. CASE ~ RepairStep
          <5>1. kind \in Operations
            BY <2>7, <4>3 DEF Work, SaveStep, IntroStep, EndingStep, DeleteStep, CopyStep, In, Operations
          <5>2. kind' = "none" \/ UNCHANGED operation
            BY <2>7, <4>3 DEF Work, SaveStep, IntroStep, EndingStep, DeleteStep, CopyStep, Stream,
               Stage, Ends, Made
          <5> QED BY <4>1, <5>1, <5>2 DEF Target, operation, Operations
        <4> QED BY <4>2, <4>3
      <3>3. AtRest(s)'
        BY <1>1, <2>3, <3>2 DEF SInv, OthersRest
      <3> QED BY <2>4, <3>1, <3>3 DEF AtRest, Loaded
    <2> QED BY <1>1, <2>2, <2>5, <2>6, <2>7 DEF Next, Resets
  <1>2. ASSUME SInv, SInv', [Next]_vars
        PROVE  [~ Restart => \A s \in Slots \ (astray \cup Worked) :
                               Loaded(flash', s) = Loaded(flash, s)]_vars
    BY <1>1, <1>2
  <1> QED BY <1>2, SlotsAtRest, PTL DEF Spec, OthersUntouched

-----------------------------------------------------------------------------
(* The card: a snapshot is taken of a save memory that no operation is half way through, when   *)
(* the memory has to be quiet for three frames (SRAM_FLUSH_IDLE_FRAMES, no less) and has more   *)
(* frames to wait than an operation lasts.                                                      *)

Settled == SRAM_FLUSH_IDLE_FRAMES >= 3

\* The stages that call unk_fbc (the intro has one).
FirstStream == IF kind = "save" THEN 0 ELSE IF kind = "intro" THEN 2 ELSE 1
SecondStream == IF kind = "intro" THEN 5 ELSE 3

\* Frames since the operation began, at most.
Passed(stage) == IF gSramOperationStage > stage THEN Last ELSE 0
InStream == IF gSramOperationStage \in {FirstStream, SecondStream} THEN gUnk_3000C20 ELSE 0
Elapsed == gSramOperationStage + Passed(FirstStream) + Passed(SecondStream) + InStream

\* Between the first write of an operation and the last, and one frame after a write.
Making == MakesSave /\ gSramOperationStage \in {MadeAt, MadeAt + 1}
Clearing == kind \in {"delete", "copy"} /\ gSramOperationStage \in 1 .. 3
Busy == Making \/ Clearing
Starting == IF MakesSave THEN gSramOperationStage < MadeAt ELSE gSramOperationStage = 0
Settling == \/ MakesSave /\ gSramOperationStage = MadeAt + 1
            \/ kind \in {"delete", "copy"} /\ gSramOperationStage = 2

Clock ==
  /\ kind \in Operations => sDirtyAgeFrames <= Ahead + Elapsed
  /\ Settling /\ Target \notin astray => sDirtyIdleFrames <= 1

\* A frame that writes nothing.
Quiet == EndFrame(FALSE)

\* The frames of an operation: of a stream, of another stage, and the last one.
StreamFrame ==
  \E param \in {0, 1, 2, 4}, t \in Slots :
    /\ gSramOperationStage \in {FirstStream, SecondStream}
    /\ Stream(param, t, gSramOperationStage + 1)
    /\ ~ Settling
    /\ IF Busy THEN param \in {0, 1} ELSE Starting /\ param \in {2, 4}

StageFrame ==
  /\ gSramOperationStage \notin {FirstStream, SecondStream}
  /\ IF Busy THEN Settling ELSE Starting
  /\ gSramOperationStage' = gSramOperationStage + 1 /\ UNCHANGED <<operation, flash, now, astray>>
  /\ Quiet

LastFrame == kind' = "none" /\ ~ Busy /\ UNCHANGED <<flash, astray>> /\ Quiet

\* The stages that do not touch the save memory end their frame with no write.
LEMMA QuietFrames ==
  /\ \A next : Stage(next) => /\ Quiet /\ gSramOperationStage' = next
                               /\ UNCHANGED <<operation, flash, now, astray>>
  /\ \A f : Made(f) => /\ Quiet /\ gSramOperationStage' = gSramOperationStage + 1
                       /\ UNCHANGED <<operation, flash, now, astray>>
  /\ Ends => Quiet /\ kind' = "none" /\ UNCHANGED <<flash, astray>>
  BY DEF Stage, Made, Ends, regions, Quiet

\* Every frame of an operation is one of the three.
LEMMA FramesOfWork ==
  ASSUME TypeOK, kind \in Operations, Work
  PROVE  StreamFrame \/ StageFrame \/ LastFrame
  <1> USE DEF In
  <1>1. slot \in Slots /\ dst \in Slots
    BY DEF TypeOK
  <1>2. CASE SaveStep
    <2>1. /\ FirstStream = 0 /\ SecondStream = 3
          /\ Busy <=> gSramOperationStage \in {3, 4}
          /\ Starting <=> gSramOperationStage \in {0, 1, 2}
          /\ Settling <=> gSramOperationStage \in {4}
      <3>1. kind = "save"
        BY <1>2 DEF SaveStep
      <3> QED BY <3>1 DEF FirstStream, SecondStream, Busy, Making, Clearing, Starting, Settling,
             MakesSave, MadeAt, TypeOK
    <2>2. CASE In("save", 0) /\ Stream(4, slot, 1)
      BY <1>1, <2>1, <2>2 DEF StreamFrame
    <2>3. CASE /\ In("save", 1) /\ Stage(2) /\ UNCHANGED slots
               /\ ewram' = [ewram EXCEPT ![slot][Last] = made + 1] /\ gUnk_3000C20' = 0
      BY <1>1, <2>1, <2>3, QuietFrames DEF StageFrame
    <2>4. CASE In("save", 2) /\ Made(File(made + 1))
      BY <1>1, <2>1, <2>4, QuietFrames DEF StageFrame
    <2>5. CASE In("save", 3) /\ Stream(0, slot, 4)
      BY <1>1, <2>1, <2>5 DEF StreamFrame
    <2>6. CASE In("save", 4) /\ Backup /\ Stage(5) /\ Keeps
      BY <1>1, <2>1, <2>6, QuietFrames DEF StageFrame
    <2>7. CASE In("save", 5) /\ Ends
      BY <1>1, <2>1, <2>7, QuietFrames DEF LastFrame
    <2> QED BY <1>2, <2>2, <2>3, <2>4, <2>5, <2>6, <2>7 DEF SaveStep
  <1>3. CASE IntroStep
    <2>1. /\ FirstStream = 2 /\ SecondStream = 5
          /\ Busy <=> gSramOperationStage \in {2, 3}
          /\ Starting <=> gSramOperationStage \in {0, 1}
          /\ Settling <=> gSramOperationStage \in {3}
      <3>1. kind = "intro"
        BY <1>3 DEF IntroStep
      <3> QED BY <3>1 DEF FirstStream, SecondStream, Busy, Making, Clearing, Starting, Settling,
             MakesSave, MadeAt, TypeOK
    <2>2. CASE In("intro", 0) /\ Stage(1) /\ Keeps
               /\ ewram' = [ewram EXCEPT ![slot] = [c \in Chunk |-> IF c = Last THEN @[c] ELSE 0]]
      BY <1>1, <2>1, <2>2, QuietFrames DEF StageFrame
    <2>3. CASE In("intro", 1) /\ Made(File(made + 1))
      BY <1>1, <2>1, <2>3, QuietFrames DEF StageFrame
    <2>4. CASE In("intro", 2) /\ Stream(0, slot, 3)
      BY <1>1, <2>1, <2>4 DEF StreamFrame
    <2>5. CASE In("intro", 3) /\ Backup /\ Stage(4) /\ Keeps
      BY <1>1, <2>1, <2>5, QuietFrames DEF StageFrame
    <2>6. CASE In("intro", 4) /\ Ends
      BY <1>1, <2>1, <2>6, QuietFrames DEF LastFrame
    <2> QED BY <1>3, <2>2, <2>3, <2>4, <2>5, <2>6 DEF IntroStep
  <1>4. CASE EndingStep
    <2>1. /\ FirstStream = 1 /\ SecondStream = 3
          /\ Busy <=> gSramOperationStage \in {3, 4}
          /\ Starting <=> gSramOperationStage \in {0, 1, 2}
          /\ Settling <=> gSramOperationStage \in {4}
      <3>1. kind = "ending"
        BY <1>4 DEF EndingStep
      <3> QED BY <3>1 DEF FirstStream, SecondStream, Busy, Making, Clearing, Starting, Settling,
             MakesSave, MadeAt, TypeOK
    <2>2. CASE In("ending", 0) /\ Stage(1) /\ gUnk_3000C20' = 0 /\ UNCHANGED <<ewram, slots>>
      BY <1>1, <2>1, <2>2, QuietFrames DEF StageFrame
    <2>3. CASE In("ending", 1) /\ Stream(2, slot, 2)
      BY <1>1, <2>1, <2>3 DEF StreamFrame
    <2>4. CASE In("ending", 2) /\ Made(Completed(ewram[slot]))
      BY <1>1, <2>1, <2>4, QuietFrames DEF StageFrame
    <2>5. CASE In("ending", 3) /\ Stream(0, slot, 4)
      BY <1>1, <2>1, <2>5 DEF StreamFrame
    <2>6. CASE In("ending", 4) /\ Backup /\ Stage(5) /\ Keeps
      BY <1>1, <2>1, <2>6, QuietFrames DEF StageFrame
    <2>7. CASE In("ending", 5) /\ Ends
      BY <1>1, <2>1, <2>7, QuietFrames DEF LastFrame
    <2> QED BY <1>4, <2>2, <2>3, <2>4, <2>5, <2>6, <2>7 DEF EndingStep
  <1>5. CASE DeleteStep
    <2>1. /\ FirstStream = 1 /\ SecondStream = 3
          /\ Busy <=> gSramOperationStage \in {1, 2, 3}
          /\ Starting <=> gSramOperationStage \in {0}
          /\ Settling <=> gSramOperationStage \in {2}
      <3>1. kind = "delete"
        BY <1>5 DEF DeleteStep
      <3> QED BY <3>1 DEF FirstStream, SecondStream, Busy, Making, Clearing, Starting, Settling,
             MakesSave, MadeAt, TypeOK
    <2>2. CASE /\ In("delete", 0) /\ Stage(1) /\ InfoOf(slot, 0) /\ UNCHANGED gUnk_3000C20
               /\ ewram' = [ewram EXCEPT ![slot] = Blank]
      BY <1>1, <2>1, <2>2, QuietFrames DEF StageFrame
    <2>3. CASE In("delete", 1) /\ Stream(0, slot, 2)
      BY <1>1, <2>1, <2>3 DEF StreamFrame
    <2>4. CASE /\ In("delete", 2) /\ Stage(3) /\ Keeps
               /\ ewram' = [ewram EXCEPT ![Copy(slot)] = Blank]
      BY <1>1, <2>1, <2>4, QuietFrames DEF StageFrame
    <2>5. CASE In("delete", 3) /\ Stream(1, slot, 4)
      BY <1>1, <2>1, <2>5 DEF StreamFrame
    <2>6. CASE gSramOperationStage >= 4 /\ Ends
      BY <1>1, <2>1, <2>6, QuietFrames DEF LastFrame
    <2> QED BY <1>5, <2>2, <2>3, <2>4, <2>5, <2>6 DEF DeleteStep
  <1>6. CASE CopyStep
    <2>1. /\ FirstStream = 1 /\ SecondStream = 3
          /\ Busy <=> gSramOperationStage \in {1, 2, 3}
          /\ Starting <=> gSramOperationStage \in {0}
          /\ Settling <=> gSramOperationStage \in {2}
      <3>1. kind = "copy"
        BY <1>6 DEF CopyStep
      <3> QED BY <3>1 DEF FirstStream, SecondStream, Busy, Making, Clearing, Starting, Settling,
             MakesSave, MadeAt, TypeOK
    <2>2. CASE /\ In("copy", 0) /\ Stage(1) /\ InfoOf(dst, corruptionFlag[slot])
               /\ UNCHANGED gUnk_3000C20 /\ ewram' = [ewram EXCEPT ![dst] = ewram[slot]]
      BY <1>1, <2>1, <2>2, QuietFrames DEF StageFrame
    <2>3. CASE In("copy", 1) /\ Stream(0, dst, 2)
      BY <1>1, <2>1, <2>3 DEF StreamFrame
    <2>4. CASE /\ In("copy", 2) /\ Stage(3) /\ Keeps
               /\ ewram' = [ewram EXCEPT ![Copy(dst)] = ewram[Copy(slot)]]
      BY <1>1, <2>1, <2>4, QuietFrames DEF StageFrame
    <2>5. CASE In("copy", 3) /\ Stream(1, dst, 4)
      BY <1>1, <2>1, <2>5 DEF StreamFrame
    <2>6. CASE gSramOperationStage >= 4 /\ Ends
      BY <1>1, <2>1, <2>6, QuietFrames DEF LastFrame
    <2> QED BY <1>6, <2>2, <2>3, <2>4, <2>5, <2>6 DEF CopyStep
  <1>7. CASE RepairStep
    BY <1>7 DEF RepairStep, Operations
  <1> QED BY <1>2, <1>3, <1>4, <1>5, <1>6, <1>7 DEF Work

\* What the end of a frame does to the counters, and when it takes no snapshot.
LEMMA QuietClock ==
  ASSUME TypeOK, Quiet
  PROVE  /\ sDirtyAgeFrames' <= sDirtyAgeFrames + 1 /\ card' \in {card, flash'}
         /\ SRAM_FLUSH_IDLE_FRAMES >= 3 /\ sDirtyIdleFrames <= 1
              /\ sDirtyAgeFrames + 1 < SRAM_FLUSH_MAX_FRAMES => card' = card
  <1>1. sDirtyIdleFrames \in Nat /\ sDirtyAgeFrames \in Nat /\ SRAM_FLUSH_IDLE_FRAMES \in Nat
    BY SaveSlotsAssumption DEF TypeOK
  <1>2. CASE ~ sSramDirty
    BY <1>1, <1>2 DEF Quiet, EndFrame, dirty
  <1>3. CASE sSramDirty
    <2>1. CASE /\ sDirtyIdleFrames + 1 < SRAM_FLUSH_IDLE_FRAMES
               /\ sDirtyAgeFrames + 1 < SRAM_FLUSH_MAX_FRAMES
      <3>1. sDirtyAgeFrames' = sDirtyAgeFrames + 1 /\ card' = card
        BY <1>3, <2>1 DEF Quiet, EndFrame
      <3> QED BY <1>1, <3>1
    <2>2. CASE ~ (/\ sDirtyIdleFrames + 1 < SRAM_FLUSH_IDLE_FRAMES
                  /\ sDirtyAgeFrames + 1 < SRAM_FLUSH_MAX_FRAMES)
      <3>1. sDirtyAgeFrames' = 0 /\ card' \in {card, flash'}
        BY <1>3, <2>2 DEF Quiet, EndFrame, Snapshot
      <3> QED BY <1>1, <2>2, <3>1
    <2> QED BY <2>1, <2>2
  <1> QED BY <1>2, <1>3

\* The same for a frame of unk_fbc, which writes unless it only counts.
LEMMA StreamClock ==
  ASSUME TypeOK, NEW param \in {0, 1, 2, 4}, NEW t, unk_fbc(param, t)
  PROVE  /\ sDirtyAgeFrames' <= sDirtyAgeFrames + 1 /\ card' \in {card, flash'}
         /\ param \in {0, 1} => sDirtyIdleFrames' <= 1
         /\ param \in {0, 1} /\ SRAM_FLUSH_IDLE_FRAMES >= 3
              /\ sDirtyAgeFrames + 1 < SRAM_FLUSH_MAX_FRAMES => card' = card
  <1>1. sDirtyAgeFrames \in Nat /\ SRAM_FLUSH_IDLE_FRAMES \in Nat
    BY SaveSlotsAssumption DEF TypeOK
  <1>2. CASE param = 4
    <2>1. Quiet
      <3>1. EndFrame(param # 4)
        BY DEF unk_fbc
      <3>2. (param # 4) = FALSE
        BY <1>2
      <3> QED BY <3>1, <3>2 DEF Quiet
    <2> QED BY <1>2, <2>1, QuietClock
  <1>3. CASE param # 4
    <2>1. EndFrame(TRUE)
      <3>1. EndFrame(param # 4)
        BY DEF unk_fbc
      <3>2. (param # 4) = TRUE
        BY <1>3
      <3> QED BY <3>1, <3>2
    <2>2. CASE 1 < SRAM_FLUSH_IDLE_FRAMES /\ sDirtyAgeFrames + 1 < SRAM_FLUSH_MAX_FRAMES
      <3>1. sDirtyIdleFrames' = 1 /\ sDirtyAgeFrames' = sDirtyAgeFrames + 1 /\ card' = card
        BY <2>1, <2>2 DEF EndFrame
      <3> QED BY <1>1, <3>1
    <2>3. CASE ~ (1 < SRAM_FLUSH_IDLE_FRAMES /\ sDirtyAgeFrames + 1 < SRAM_FLUSH_MAX_FRAMES)
      <3>1. sDirtyIdleFrames' = 0 /\ sDirtyAgeFrames' = 0 /\ card' \in {card, flash'}
        BY <2>1, <2>3 DEF EndFrame, Snapshot
      <3> QED BY <1>1, <2>3, <3>1
    <2> QED BY <2>2, <2>3
  <1> QED BY <1>2, <1>3

\* Every frame of an operation counts, and the whole of it is over before the memory has waited
\* long enough.
LEMMA ElapsedBounds ==
  ASSUME TypeOK
  PROVE  /\ Elapsed \in Nat
         /\ Busy => Elapsed <= 2 * CHUNKS + 2
  <1>1. /\ gUnk_3000C20 \in Nat /\ Last \in Nat /\ Last = CHUNKS - 1 /\ gUnk_3000C20 <= Last
        /\ gSramOperationStage \in Nat /\ CHUNKS \in Nat
    BY SaveSlotsAssumption DEF TypeOK, Chunk, Last
  <1>2. FirstStream \in 0 .. 2 /\ SecondStream \in {3, 5}
    BY DEF FirstStream, SecondStream
  <1>3. Busy => gSramOperationStage <= 4
    BY <1>1 DEF Busy, Making, Clearing, MadeAt
  <1>4. /\ Passed(FirstStream) \in Nat /\ Passed(SecondStream) \in Nat /\ InStream \in Nat
        /\ Passed(FirstStream) + Passed(SecondStream) + InStream <= 2 * Last
    BY <1>1, <1>2 DEF Passed, InStream
  <1>5. Elapsed \in Nat /\ Elapsed <= gSramOperationStage + 2 * Last
    BY <1>1, <1>4 DEF Elapsed
  <1> QED BY <1>1, <1>3, <1>5

\* The frames an operation has taken are a number after a step too.
LEMMA ElapsedNext ==
  ASSUME TypeOK'
  PROVE  Elapsed' \in Nat
  <1>1. gUnk_3000C20' \in Nat /\ Last \in Nat /\ gSramOperationStage' \in Nat
    BY SaveSlotsAssumption DEF TypeOK, Chunk, Last
  <1>2. Passed(FirstStream)' \in Nat /\ Passed(SecondStream)' \in Nat /\ InStream' \in Nat
    BY <1>1 DEF Passed, InStream
  <1> QED BY <1>1, <1>2 DEF Elapsed

\* A frame of an operation counts as one at least.
LEMMA ElapsedGrows ==
  ASSUME TypeOK, TypeOK', kind' = kind, StreamFrame \/ StageFrame
  PROVE  Elapsed' >= Elapsed + 1
  <1> DEFINE f == FirstStream s == SecondStream stage == gSramOperationStage
  <1>1. /\ gUnk_3000C20 \in Nat /\ Last \in Nat /\ gUnk_3000C20 <= Last /\ gUnk_3000C20' \in Nat
        /\ stage \in Nat /\ stage' \in Nat
    BY SaveSlotsAssumption DEF TypeOK, Chunk, Last
  <1>2. f \in 0 .. 2 /\ s \in {3, 5} /\ f' = f /\ s' = s
    BY DEF FirstStream, SecondStream
  <1>3. /\ Passed(f) \in Nat /\ Passed(s) \in Nat /\ InStream \in Nat
        /\ Passed(f)' \in Nat /\ Passed(s)' \in Nat /\ InStream' \in Nat
    BY <1>1 DEF Passed, InStream
  <1>4. stage' + Passed(f)' + Passed(s)' + InStream' >= stage + Passed(f) + Passed(s) + InStream + 1
    <2>1. CASE StreamFrame
      <3>1. /\ stage \in {f, s} /\ stage' = IF gUnk_3000C20 = Last THEN stage + 1 ELSE stage
            /\ gUnk_3000C20' = IF gUnk_3000C20 = Last THEN 0 ELSE gUnk_3000C20 + 1
        BY <2>1, Sizes DEF StreamFrame, Stream, unk_fbc, TypeOK
      <3> HIDE DEF f, s, stage
      <3>2. CASE gUnk_3000C20 = Last
        BY <1>1, <1>2, <1>3, <3>1, <3>2 DEF Passed, InStream, f, s, stage
      <3>3. CASE gUnk_3000C20 # Last
        BY <1>1, <1>2, <1>3, <3>1, <3>3 DEF Passed, InStream, f, s, stage
      <3> QED BY <3>2, <3>3
    <2>2. CASE StageFrame
      <3>1. stage \notin {f, s} /\ stage' = stage + 1
        BY <2>2 DEF StageFrame
      <3>2. InStream = 0 /\ Passed(f)' >= Passed(f) /\ Passed(s)' >= Passed(s)
        BY <1>1, <1>2, <3>1 DEF Passed, InStream
      <3> HIDE DEF stage, f, s
      <3> QED BY <1>1, <1>3, <3>1, <3>2
    <2> QED BY <2>1, <2>2
  <1> QED BY <1>4 DEF Elapsed

\* A clock that goes by one at most stays behind one that goes by one at least.
LEMMA Later ==
  \A from, old, new, past, passed \in Nat :
    new <= old + 1 /\ passed >= past + 1 /\ old <= from + past => new <= from + passed
  OBVIOUS

\* An operation is there after a step only when it began or went on.
LEMMA WorkEnds ==
  ASSUME [Next]_vars
  PROVE  \/ Begin \/ UNCHANGED vars \/ EnterGame \/ kind' \notin Operations
         \/ (kind \in Operations /\ Work /\ kind' \in Operations)
  <1>1. CASE Resets
    BY <1>1 DEF Resets, Restart, SoftResetCheck, TriggerGameRestart, SoftReset, SramRead_All, Operations
  <1>2. CASE Work
    BY <1>2 DEF Work, SaveStep, IntroStep, EndingStep, DeleteStep, CopyStep, RepairStep, RepairOver,
       RepairGoesOn, In, Operations
  <1>3. CASE Wait \/ OtherWrite
    BY <1>3 DEF Wait, OtherWrite, Idle, Operations, operation
  <1> QED BY <1>1, <1>2, <1>3 DEF Next, Resets

\* The clock stays behind the operation, and a stage after a stream is the first quiet frame.
LEMMA ClockStep ==
  ASSUME SRAM_FLUSH_IDLE_FRAMES >= 3
  PROVE  TInv /\ TInv' /\ Clock /\ [Next]_vars => Clock'
  <1> SUFFICES ASSUME TInv, TInv', Clock, [Next]_vars PROVE Clock'
    OBVIOUS
  <1>1. /\ TypeOK /\ TypeOK' /\ sDirtyAgeFrames \in Nat /\ sDirtyAgeFrames' \in Nat /\ Ahead \in Nat
        /\ gUnk_3000C20' \in Nat
    BY SaveSlotsAssumption, Sizes DEF TInv, TypeOK
  <1>2. CASE kind' \notin Operations
    BY <1>2 DEF Clock, Settling, MakesSave, Operations
  <1>3. CASE Begin
    <2>0. PICK k \in Operations \cup {"repair"}, s \in Slots, t \in Slots : Beginning(k, s, t)
      BY <1>1, <1>3, Beginnings
    <2>1. sDirtyAgeFrames' <= Ahead /\ kind' = k /\ slot' = s /\ dst' = t
      BY <2>0 DEF Beginning, Begins, dirty
    <2>2. Elapsed' \in Nat
      BY <1>1, ElapsedNext
    <2>3. ~ (Settling' /\ Target' \notin astray')
      <3>1. Settling' /\ Target' \notin astray' => gSramOperationStage' = 0
        <4>1. Settling' => k \in {"save", "intro", "ending", "delete", "copy"}
          BY <2>1 DEF Settling, MakesSave
        <4>2. k \in {"save", "intro", "ending"} => gSramOperationStage' = 0
          BY <2>0 DEF Beginning
        <4>3. k \in {"delete", "copy"} => Target' = t
          BY <2>0, <2>1 DEF Beginning, Target
        <4>4. k \in {"delete", "copy"} /\ t \notin astray' => gSramOperationStage' = 0
          BY <2>0 DEF Beginning
        <4> QED BY <4>1, <4>2, <4>3, <4>4
      <3>2. gSramOperationStage' = 0 => ~ Settling'
        BY DEF Settling, MadeAt
      <3> QED BY <3>1, <3>2
    <2>4. sDirtyAgeFrames' <= Ahead + Elapsed'
      <3> DEFINE past == Elapsed'
      <3>1. past \in Nat
        BY <2>2
      <3> HIDE DEF past
      <3>2. sDirtyAgeFrames' <= Ahead + past
        BY <1>1, <2>1, <3>1
      <3> QED BY <3>2 DEF past
    <2> QED BY <2>3, <2>4 DEF Clock
  <1>4. CASE kind \in Operations /\ Work /\ kind' \in Operations
    <2>1. kind' = kind /\ (StreamFrame \/ StageFrame)
      <3>1. StreamFrame \/ StageFrame
        BY <1>1, <1>4, FramesOfWork DEF LastFrame, Operations
      <3> QED BY <3>1 DEF StreamFrame, StageFrame, Stream, operation
    <2>2. sDirtyAgeFrames' <= sDirtyAgeFrames + 1
      BY <1>1, <2>1, StreamClock, QuietClock DEF StreamFrame, Stream, StageFrame
    <2>3. sDirtyAgeFrames' <= Ahead + Elapsed'
      <3>1. Elapsed' >= Elapsed + 1 /\ Elapsed \in Nat /\ sDirtyAgeFrames <= Ahead + Elapsed
        BY <1>1, <1>4, <2>1, ElapsedGrows, ElapsedBounds DEF Clock
      <3>2. Elapsed' \in Nat
        BY <1>1, ElapsedNext
      <3>3. sDirtyAgeFrames \in Nat /\ sDirtyAgeFrames' \in Nat /\ Ahead \in Nat
        BY <1>1
      <3> QED BY <2>2, <3>1, <3>2, <3>3, Later
    <2>4. Settling' => sDirtyIdleFrames' <= 1
      <3> SUFFICES ASSUME Settling' PROVE sDirtyIdleFrames' <= 1
        OBVIOUS
      <3>1. gSramOperationStage \in 0 .. 5 /\ MadeAt' = MadeAt /\ MadeAt \in {2, 3}
            /\ (MakesSave' <=> MakesSave)
        BY <1>1, <2>1 DEF TypeOK, MadeAt, MakesSave
      <3>2. CASE StreamFrame
        <4>1. PICK param \in {0, 1, 2, 4}, t \in Slots :
                /\ gSramOperationStage' \in {gSramOperationStage, gSramOperationStage + 1}
                /\ unk_fbc(param, t) /\ ~ Settling
                /\ IF Busy THEN param \in {0, 1} ELSE Starting /\ param \in {2, 4}
          BY <3>2 DEF StreamFrame, Stream
        <4>2. gSramOperationStage # gSramOperationStage'
          BY <2>1, <4>1 DEF Settling, MakesSave, MadeAt
        <4>3. Busy
          BY <2>1, <3>1, <4>1, <4>2 DEF Settling, Busy, Making, Clearing
        <4> QED BY <1>1, <4>1, <4>3, StreamClock
      <3>3. CASE StageFrame
        <4>1. /\ gSramOperationStage' = gSramOperationStage + 1
              /\ gSramOperationStage \notin {FirstStream, SecondStream}
          BY <3>3 DEF StageFrame
        <4>2. FALSE
          BY <2>1, <3>1, <4>1 DEF Settling, FirstStream, SecondStream, MakesSave, MadeAt
        <4> QED BY <4>2
      <3> QED BY <2>1, <3>2, <3>3
    <2> QED BY <2>3, <2>4 DEF Clock
  <1>5. CASE UNCHANGED vars
    BY <1>5 DEF Clock, vars, operation, progress, dirty, Elapsed, Passed, InStream, FirstStream, SecondStream, Settling,
       MakesSave, MadeAt, Target
  <1>6. CASE EnterGame
    BY <1>6 DEF Clock, EnterGame, operation, Operations, Settling, MakesSave
  <1> QED BY <1>2, <1>3, <1>4, <1>5, <1>6, WorkEnds

\* From its first write to the frame after its last, an operation leaves no time for a snapshot.
LEMMA BusyKeepsCard ==
  ASSUME SRAM_FLUSH_IDLE_FRAMES >= 3, TypeOK, Clock, kind \in Operations, Work, Busy,
         Target \notin astray
  PROVE  card' = card
  <1>1. sDirtyAgeFrames + 1 < SRAM_FLUSH_MAX_FRAMES
    <2>1. Elapsed \in Nat /\ Elapsed <= 2 * CHUNKS + 2 /\ sDirtyAgeFrames <= Ahead + Elapsed
      BY ElapsedBounds DEF Clock
    <2>2. /\ sDirtyAgeFrames \in Nat /\ Ahead \in Nat /\ CHUNKS \in Nat
          /\ SRAM_FLUSH_MAX_FRAMES \in Nat /\ SRAM_FLUSH_MAX_FRAMES > Ahead + 2 * CHUNKS + 3
      BY SaveSlotsAssumption DEF TypeOK
    <2> QED BY <2>1, <2>2
  <1>2. CASE StreamFrame
    <2>1. PICK param \in {0, 1, 2, 4}, t \in Slots : unk_fbc(param, t) /\ param \in {0, 1}
      BY <1>2 DEF StreamFrame, Stream
    <2> QED BY <1>1, <2>1, StreamClock
  <1>3. CASE StageFrame
    <2>1. Quiet /\ sDirtyIdleFrames <= 1
      BY <1>3 DEF StageFrame, Clock
    <2> QED BY <1>1, <2>1, QuietClock
  <1> QED BY <1>2, <1>3, FramesOfWork DEF LastFrame

\* Before its first write a snapshot finds the slots as they were.
LEMMA StartingCard ==
  ASSUME SInv, kind \in Operations, Work, kind' \in Operations, ~ Busy, Target \notin astray
  PROVE  /\ card' \in {card, flash'} /\ flash' = flash /\ now' = now
         /\ \A s \in Slots \ astray : Loaded(flash, s) = now[s]
  <1>1. TypeOK
    BY DEF SInv, TInv
  <1>2. StreamFrame \/ StageFrame
    BY <1>1, FramesOfWork DEF LastFrame, Operations
  <1>3. Starting /\ now' = now
    BY <1>2 DEF StreamFrame, StageFrame, Stream
  <1>4. Loaded(flash, Target) = now[Target]
    <2>1. gSramOperationStage \in Nat
      BY <1>1 DEF TypeOK
    <2> QED BY <1>3, <2>1 DEF SInv, Stages, Reached, Untouched, Unwritten, FirstWrite, Starting
  <1>5. \A s \in Slots \ astray : Loaded(flash, s) = now[s]
    BY <1>4 DEF SInv, OthersRest, AtRest
  <1>6. CASE StreamFrame
    <2>1. PICK param \in {0, 1, 2, 4}, t \in Slots : unk_fbc(param, t) /\ param \in {2, 4}
      BY <1>6 DEF StreamFrame, Stream
    <2>2. flash' = flash
      BY <2>1 DEF unk_fbc, regions
    <2> QED BY <1>1, <1>3, <1>5, <2>1, <2>2, StreamClock
  <1>7. CASE StageFrame
    <2>1. Quiet /\ flash' = flash
      BY <1>7 DEF StageFrame
    <2> QED BY <1>1, <1>3, <1>5, <2>1, QuietClock
  <1> QED BY <1>2, <1>6, <1>7

\* Every frame leaves mzm.sav as it was or makes it what the save memory is.
LEMMA CardOrFlash ==
  ASSUME SInv, SInv', [Next]_vars
  PROVE  card' = card \/ card' = flash'
  <1>1. TypeOK /\ flash' \in Memory
    BY DEF SInv, TInv, TypeOK
  <1>2. CASE Resets
    <2>1. CASE SoftReset
      BY <1>1, <2>1, EndFrameType DEF SoftReset
    <2> QED BY <1>2, <2>1 DEF Resets, Restart, SoftResetCheck, TriggerGameRestart
  <1>3. CASE Wait \/ OtherWrite
    <2>1. PICK wrote \in BOOLEAN : Idle(wrote)
      BY <1>3 DEF Wait, OtherWrite
    <2> QED BY <1>1, <2>1, EndFrameType DEF Idle
  <1>4. CASE kind \in Operations /\ Work
    BY <1>1, <1>4, FramesOfWork, QuietClock, StreamClock DEF StreamFrame, StageFrame, LastFrame, Stream
  <1>5. CASE RepairStep
    <2>1. slot \in Slots /\ (unk_fbc(0, slot) \/ unk_fbc(1, slot))
      BY <1>1, <1>5 DEF RepairStep, TypeOK
    <2> QED BY <1>1, <2>1, StreamClock
  <1>6. Work => kind \in Operations \/ RepairStep
    BY DEF Work, SaveStep, IntroStep, EndingStep, DeleteStep, CopyStep, In, Operations
  <1>7. CASE Begin \/ EnterGame \/ UNCHANGED vars
    BY <1>1, <1>7, Beginnings DEF Beginning, Begins, EnterGame, vars
  <1> QED BY <1>2, <1>3, <1>4, <1>5, <1>6, <1>7 DEF Next, Resets

\* The card changes only to what a start would make the slots of that moment, but for the ones
\* that are astray.
LEMMA CardFollows ==
  ASSUME Settled, SInv, SInv', Clock, [Next]_vars
  PROVE  card' = card \/ \A s \in Slots \ astray' : Loaded(card', s) = now'[s]
  <1>1. TypeOK /\ SRAM_FLUSH_IDLE_FRAMES >= 3
    BY DEF SInv, TInv, Settled
  <1>2. ASSUME kind' \in Operations => Target' \in astray'
        PROVE  card' = card \/ \A s \in Slots \ astray' : Loaded(card', s) = now'[s]
    <2>1. \A s \in Slots \ astray' : AtRest(s)'
      BY <1>2 DEF SInv, OthersRest
    <2>2. \A s \in Slots \ astray' : Loaded(flash', s) = now'[s]
      BY <2>1 DEF AtRest, Loaded
    <2> QED BY <2>2, CardOrFlash
  <1>3. CASE kind \in Operations /\ Work /\ kind' \in Operations
    <2>1. Target' = Target /\ astray' = astray
      <3>1. StreamFrame \/ StageFrame
        BY <1>1, <1>3, FramesOfWork DEF LastFrame, Operations
      <3> QED BY <3>1 DEF StreamFrame, StageFrame, Stream, operation, Target
    <2>2. CASE Target \in astray
      BY <1>2, <2>1, <2>2
    <2>3. CASE Target \notin astray /\ Busy
      BY <1>1, <1>3, <2>3, BusyKeepsCard
    <2>4. CASE Target \notin astray /\ ~ Busy
      BY <1>3, <2>1, <2>4, StartingCard
    <2> QED BY <2>2, <2>3, <2>4
  <1>4. CASE Begin \/ EnterGame \/ UNCHANGED vars
    BY <1>1, <1>4, Beginnings DEF Beginning, Begins, EnterGame, vars
  <1> QED BY <1>2, <1>3, <1>4, WorkEnds

-----------------------------------------------------------------------------
(* The store of the slots: the save memory and the card have only saves that were made, and     *)
(* what a slot holds, on the card too, is of a save made before the one that an operation is    *)
(* about to put in a slot.                                                                      *)

Seen == 0 .. made \cup {Mixed}
Of(V) == [Region -> [Chunk -> V]]

\* The world of the next save is in EWRAM a frame before the save has its number.
SeenAll ==
  /\ flash \in Of(Seen) /\ card \in Of(Seen)
  /\ ewram \in Of(IF In("save", 2) THEN Seen \cup {made + 1} ELSE Seen)

Fresh == MakesSave /\ gSramOperationStage >= MadeAt

\* The newest save a slot, or the card, can have.
Newest == IF Fresh THEN made - 1 ELSE made
Older == 0 .. Newest \cup {Mixed}
Known == \A s \in Slots \ astray : now[s] \in Older /\ Loaded(card, s) \in Older

CInv == SInv /\ Clock /\ SeenAll /\ Known

\* Memories of the saves of a set.
LEMMA OfSets ==
  ASSUME NEW V, 0 \in V, NEW m \in Of(V)
  PROVE  /\ \A W : V \subseteq W => m \in Of(W)
         /\ \A s \in Slots : Loaded(m, s) \in V
         /\ [r \in Region |-> BootFile(m, SlotOf(r))] \in Of(V)
         /\ [r \in Region |-> BootFlash(m, r)] \in Of(V)
         /\ \A n \in Of(V) : \A r \in Region : Moved(n, m, r) \in Of(V)
         /\ \A r \in Region : m[r] \in [Chunk -> V]
         /\ \A r \in Region : \A f \in [Chunk -> V] : [m EXCEPT ![r] = f] \in Of(V)
  <1>1. \A W : V \subseteq W => m \in Of(W)
    <2> SUFFICES ASSUME NEW W, V \subseteq W PROVE m \in Of(W)
      OBVIOUS
    <2>1. \A f \in [Chunk -> V] : f \in [Chunk -> W]
      OBVIOUS
    <2> QED BY <2>1 DEF Of
  <1>2. \A r \in Region : m[r] \in [Chunk -> V]
    BY DEF Of
  <1>3. \A s \in Slots : Loaded(m, s) \in V
    <2>1. \A r \in Region : m[r][0] \in V
      BY <1>2, Sizes
    <2> QED BY <2>1, Regions DEF Loaded
  <1>4. Blank \in [Chunk -> V]
    BY DEF Blank, File
  <1>5. [r \in Region |-> BootFile(m, SlotOf(r))] \in Of(V)
    <2>1. \A r \in Region : BootFile(m, SlotOf(r)) \in [Chunk -> V]
      BY <1>2, <1>4, Regions DEF BootFile
    <2> QED BY <2>1 DEF Of
  <1>6. [r \in Region |-> BootFlash(m, r)] \in Of(V)
    <2>1. \A r \in Region : BootFlash(m, r) \in [Chunk -> V]
      BY <1>2, <1>4, Regions DEF BootFlash
    <2> QED BY <2>1 DEF Of
  <1>7. ASSUME NEW n \in Of(V), NEW r \in Region PROVE Moved(n, m, r) \in Of(V)
    <2>1. \A q \in Region, c \in Chunk : n[q][c] \in V /\ m[q][c] \in V
      BY DEF Of
    <2> QED BY <2>1 DEF Moved, Of
  <1>8. \A r \in Region : \A f \in [Chunk -> V] : [m EXCEPT ![r] = f] \in Of(V)
    BY DEF Of
  <1> QED BY <1>1, <1>2, <1>3, <1>5, <1>6, <1>7, <1>8

\* The first slots hold saves of the cards a program could have left.
LEMMA SeenInit == Init => SeenAll /\ Known
  <1> SUFFICES ASSUME Init PROVE SeenAll /\ Known
    OBVIOUS
  <1>1. /\ made = N /\ N \in Nat /\ 0 \in Seen /\ \A s \in Slots : s \in Seen
        /\ kind = "none" /\ Newest = made
    BY SaveSlotsAssumption DEF Init, Newest, Fresh, MakesSave, Seen, Slots
  <1>2. card \in Of(Seen)
    <2>1. PICK memory \in SoundCards, r \in Region :
            card \in {memory} \cup
              {[memory EXCEPT ![r] = f] : f \in {Begun(SlotOf(r)), Erased(SlotOf(r)), Blank}}
      BY DEF Init
    <2>2. \A s \in Slots : /\ File(s) \in [Chunk -> Seen] /\ Begun(s) \in [Chunk -> Seen]
                          /\ Erased(s) \in [Chunk -> Seen] /\ Blank \in [Chunk -> Seen]
      BY <1>1, Sizes DEF Begun, Erased, File, Blank
    <2>3. memory \in Of(Seen)
      <3>1. PICK used \in SUBSET Slots :
              memory = [q \in Region |-> IF SlotOf(q) \in used THEN File(SlotOf(q)) ELSE Blank]
        BY DEF SoundCards
      <3>2. \A q \in Region : SlotOf(q) \in Slots
        BY Regions
      <3> QED BY <2>2, <3>1, <3>2, Regions DEF Of
    <2>4. SlotOf(r) \in Slots
      BY Regions
    <2>5. \A f \in {Begun(SlotOf(r)), Erased(SlotOf(r)), Blank} : [memory EXCEPT ![r] = f] \in Of(Seen)
      BY <1>1, <2>2, <2>3, <2>4, OfSets
    <2> QED BY <2>1, <2>3, <2>5
  <1>3. flash \in Of(Seen) /\ ewram \in Of(Seen) /\ \A s \in Slots : Loaded(card, s) \in Seen
    BY <1>1, <1>2, OfSets DEF Init
  <1>4. ~ In("save", 2)
    BY <1>1 DEF In
  <1>5. Older = Seen /\ \A s \in Slots : now[s] = Loaded(card, s)
    BY <1>1 DEF Older, Seen, Init
  <1> QED BY <1>2, <1>3, <1>4, <1>5 DEF SeenAll, Known

\* A frame of unk_fbc moves saves that were made.
LEMMA SeenStream ==
  ASSUME TypeOK, flash \in Of(Seen), ewram \in Of(Seen),
         NEW param \in {0, 1, 2, 4}, NEW t \in Slots, unk_fbc(param, t)
  PROVE  flash' \in Of(Seen) /\ ewram' \in Of(Seen)
  <1>1. 0 \in Seen /\ t \in Region /\ Copy(t) \in Region
    BY Regions DEF TypeOK, Seen
  <1>2. \A r \in Region : Moved(ewram, flash, r) \in Of(Seen) /\ Moved(flash, ewram, r) \in Of(Seen)
    BY <1>1, OfSets
  <1> QED BY <1>1, <1>2 DEF unk_fbc, regions

\* The stages that work on EWRAM, but for the ones that make the save, put there what EWRAM or
\* nothing has.
LEMMA SeenStage ==
  ASSUME TypeOK, flash \in Of(Seen), ewram \in Of(Seen), kind \in Operations, Work,
         ~ In("save", 1), \A f : ~ Made(f)
  PROVE  flash' \in Of(Seen) /\ ewram' \in Of(Seen)
  <1> USE DEF In
  <1>1. /\ 0 \in Seen /\ slot \in Slots /\ dst \in Slots
        /\ \A s \in Slots : s \in Region /\ Copy(s) \in Region
    BY Regions DEF TypeOK, Seen
  <1>2. /\ \A r \in Region : ewram[r] \in [Chunk -> Seen]
        /\ Blank \in [Chunk -> Seen]
        /\ [c \in Chunk |-> IF c = Last THEN ewram[slot][c] ELSE 0] \in [Chunk -> Seen]
    <2>1. \A r \in Region : ewram[r] \in [Chunk -> Seen]
      BY <1>1, OfSets
    <2>2. Blank \in [Chunk -> Seen]
      BY <1>1 DEF Blank, File
    <2>3. \A c \in Chunk : ewram[slot][c] \in Seen
      BY <1>1, <2>1
    <2> QED BY <1>1, <2>1, <2>2, <2>3
  <1>3. \A r \in Region : \A f \in [Chunk -> Seen] : [ewram EXCEPT ![r] = f] \in Of(Seen)
    BY <1>1, OfSets
  <1>4. ASSUME NEW param \in {0, 1, 2, 4}, NEW t \in Slots, NEW next, Stream(param, t, next)
        PROVE  flash' \in Of(Seen) /\ ewram' \in Of(Seen)
    BY <1>4, SeenStream DEF Stream
  <1>5. ASSUME NEW next, NEW r \in Region, NEW f \in [Chunk -> Seen], Stage(next),
               ewram' = [ewram EXCEPT ![r] = f] \/ ewram' = ewram
        PROVE  flash' \in Of(Seen) /\ ewram' \in Of(Seen)
    BY <1>3, <1>5 DEF Stage
  <1>6. CASE Ends
    BY <1>6 DEF Ends, regions
  <1>7. ASSUME NEW next, Stage(next), Backup PROVE flash' \in Of(Seen) /\ ewram' \in Of(Seen)
    BY <1>1, <1>2, <1>5, <1>7 DEF Backup
  <1>8. CASE SaveStep
    BY <1>1, <1>4, <1>6, <1>7, <1>8 DEF SaveStep
  <1>9. CASE IntroStep
    <2>1. CASE In("intro", 0)
      <3>1. Stage(1) /\ ewram' = [ewram EXCEPT ![slot] = [c \in Chunk |-> IF c = Last THEN @[c] ELSE 0]]
        BY <1>9, <2>1 DEF IntroStep
      <3> QED BY <1>1, <1>2, <1>5, <3>1
    <2> QED BY <1>1, <1>4, <1>6, <1>7, <1>9, <2>1 DEF IntroStep
  <1>10. CASE EndingStep
    <2>1. CASE In("ending", 0)
      <3>1. Stage(1) /\ ewram' = ewram
        BY <1>10, <2>1 DEF EndingStep
      <3> QED BY <1>1, <1>2, <1>5, <3>1
    <2> QED BY <1>1, <1>4, <1>6, <1>7, <1>10, <2>1 DEF EndingStep
  <1>11. CASE DeleteStep
    BY <1>1, <1>2, <1>4, <1>5, <1>6, <1>11 DEF DeleteStep
  <1>12. CASE CopyStep
    BY <1>1, <1>2, <1>4, <1>5, <1>6, <1>12 DEF CopyStep
  <1>13. CASE RepairStep
    BY <1>13 DEF RepairStep, Operations
  <1> QED BY <1>8, <1>9, <1>10, <1>11, <1>12, <1>13 DEF Work

\* The stage that makes the save, from what EWRAM has before it.
LEMMA SeenMade ==
  ASSUME TypeOK, flash \in Of(Seen), ewram \in Of(Seen \cup {made + 1}), kind \in Operations, Work,
         NEW f, Made(f), kind # "save" => ewram \in Of(Seen)
  PROVE  flash' \in Of(Seen') /\ ewram' \in Of(Seen')
  <1> USE DEF In
  <1>1. /\ made \in Nat /\ made' = made + 1 /\ flash' = flash /\ ewram' = [ewram EXCEPT ![slot] = f]
        /\ slot \in Slots /\ slot \in Region /\ 0 \in Seen /\ gSramOperationStage \in 0 .. 5
        /\ gSramOperationStage' = gSramOperationStage + 1
    BY SaveSlotsAssumption, Regions DEF Made, TypeOK, Seen
  <1>2. Seen \cup {made + 1} = Seen' /\ 0 \in Seen'
    BY <1>1 DEF Seen
  <1>3. flash' \in Of(Seen') /\ ewram \in Of(Seen')
    BY <1>1, <1>2, OfSets
  <1>4. File(made + 1) \in [Chunk -> Seen'] /\ File(Mixed) \in [Chunk -> Seen']
    BY <1>2 DEF File, Seen
  <1>5. ewram[slot] \in [Chunk -> Seen']
    BY <1>1, <1>2, <1>3, OfSets
  <1>6. f \in [Chunk -> Seen']
    <2>1. ewram'[slot] = f
      BY <1>1 DEF TypeOK, Memory
    <2>2. f = File(made + 1) \/ f = Completed(ewram[slot])
      <3>1. \A g : Made(g) => g = f
        <4> SUFFICES ASSUME NEW g, Made(g) PROVE g = f
          OBVIOUS
        <4>1. ewram' = [ewram EXCEPT ![slot] = g] /\ ewram \in [Region -> [Chunk -> Content]]
          BY DEF Made, TypeOK, Memory
        <4>2. ewram'[slot] = g
          BY <1>1, <4>1
        <4> QED BY <2>1, <4>2
      <3>2. \A next, param, t : ~ Stage(next) /\ ~ Stream(param, t, next) /\ ~ Ends
        <4>1. made' # made
          BY <1>1
        <4> QED BY <4>1 DEF Stage, Stream, Ends
      <3> QED BY <3>1, <3>2 DEF Work, SaveStep, IntroStep, EndingStep, DeleteStep, CopyStep, RepairStep,
             Operations
    <2> QED BY <1>4, <1>5, <2>2 DEF Completed
  <1> QED BY <1>1, <1>2, <1>3, <1>6, OfSets

\* No step puts anything on the save memory or the card but the saves that were made.
LEMMA SeenStep == SInv /\ SInv' /\ SeenAll /\ [Next]_vars => SeenAll'
  <1> SUFFICES ASSUME SInv, SInv', SeenAll, [Next]_vars PROVE SeenAll'
    OBVIOUS
  <1>1. TypeOK /\ TypeOK' /\ made \in Nat /\ made' \in Nat /\ made' >= made
    <2>1. TypeOK /\ TypeOK' /\ made \in Nat
      BY DEF SInv, TInv, TypeOK
    <2> QED BY <2>1, MadeGrows
  <1>2. 0 \in Seen /\ 0 \in Seen' /\ Seen \subseteq Seen'
    BY <1>1 DEF Seen
  <1>3. flash \in Of(Seen) /\ card \in Of(Seen) /\ flash \in Of(Seen') /\ card \in Of(Seen')
    BY <1>2, OfSets DEF SeenAll
  <1>4. ASSUME flash' \in Of(Seen'), ewram' \in Of(Seen') PROVE SeenAll'
    <2>1. card' \in Of(Seen')
      BY <1>3, <1>4, CardOrFlash
    <2>2. ewram' \in Of(Seen' \cup {made' + 1})
      BY <1>2, <1>4, OfSets
    <2> QED BY <1>4, <2>1, <2>2 DEF SeenAll
  <1>5. ASSUME flash' \in Of(Seen), ewram' \in Of(Seen) PROVE SeenAll'
    BY <1>2, <1>4, <1>5, OfSets
  <1>6. CASE Resets
    <2>1. SramRead_All(card) \/ SramRead_All(flash)
      BY <1>6 DEF Resets, Restart, SoftResetCheck, TriggerGameRestart, SoftReset
    <2>2. \A m \in Of(Seen) : /\ [r \in Region |-> BootFile(m, SlotOf(r))] \in Of(Seen)
                              /\ [r \in Region |-> BootFlash(m, r)] \in Of(Seen)
      BY <1>2, OfSets
    <2> QED BY <1>3, <1>5, <2>1, <2>2 DEF SramRead_All
  <1>7. CASE Wait \/ OtherWrite \/ EnterGame \/ Begin
    <2>1. kind = "none" /\ UNCHANGED regions
      <3>1. CASE Begin
        BY <1>1, <3>1, Beginnings DEF Beginning, Begins
      <3> QED BY <1>7, <3>1 DEF Wait, OtherWrite, Idle, EnterGame
    <2> QED BY <1>3, <1>5, <2>1 DEF SeenAll, In, regions
  <1>8. CASE UNCHANGED vars
    <2>1. UNCHANGED <<ewram, flash, card, made, kind, gSramOperationStage>>
      BY <1>8 DEF vars, regions, operation, progress
    <2> QED BY <2>1 DEF SeenAll, Seen, In
  <1>9. CASE RepairStep
    <2>1. ewram \in Of(Seen) /\ slot \in Slots /\ (unk_fbc(0, slot) \/ unk_fbc(1, slot))
      BY <1>1, <1>9 DEF RepairStep, SeenAll, In, TypeOK
    <2> QED BY <1>1, <1>3, <1>5, <2>1, SeenStream
  <1>10. CASE kind \in Operations /\ Work
    <2>1. CASE In("save", 1)
      <3>1. /\ Stage(2) /\ ewram' = [ewram EXCEPT ![slot][Last] = made + 1] /\ slot \in Slots
            /\ ewram \in Of(Seen) /\ In("save", 2)' /\ made' = made
        <4>1. Stage(2) /\ ewram' = [ewram EXCEPT ![slot][Last] = made + 1]
          BY <1>10, <2>1 DEF Work, SaveStep, IntroStep, EndingStep, DeleteStep, CopyStep, RepairStep, In
        <4>2. ewram \in Of(Seen)
          BY <2>1 DEF In, SeenAll
        <4> QED BY <1>1, <2>1, <4>1, <4>2 DEF In, Stage, TypeOK, operation
      <3>2. Last \in Chunk /\ slot \in Region
        BY <3>1, Sizes, Regions
      <3>3. ewram' \in Of(Seen \cup {made + 1})
        <4>1. \A r \in Region, c \in Chunk : ewram'[r][c] \in Seen \cup {made + 1}
          BY <3>1, <3>2 DEF Of
        <4>2. ewram' \in Memory
          BY <1>1 DEF TypeOK
        <4> QED BY <4>1, <4>2 DEF Memory, Of
      <3>4. flash' = flash /\ Seen' = Seen /\ (card' = card \/ card' = flash')
        BY <3>1, CardOrFlash DEF Stage, Seen
      <3> QED BY <1>3, <3>1, <3>3, <3>4 DEF SeenAll
    <2>2. CASE \E f : Made(f)
      <3>1. PICK f : Made(f)
        BY <2>2
      <3>2. ewram \in Of(Seen \cup {made + 1}) /\ (kind # "save" => ewram \in Of(Seen))
        BY <1>2, OfSets DEF SeenAll, In
      <3> QED BY <1>1, <1>3, <1>4, <1>10, <3>1, <3>2, SeenMade
    <2>3. CASE ~ In("save", 1) /\ \A f : ~ Made(f)
      <3>1. ~ In("save", 2)
        BY <1>10, <2>3 DEF Work, SaveStep, IntroStep, EndingStep, DeleteStep, CopyStep, RepairStep, In,
           Operations
      <3> QED BY <1>1, <1>3, <1>5, <1>10, <2>3, <3>1, SeenStage DEF SeenAll
    <2> QED BY <2>1, <2>2, <2>3
  <1>11. Work => kind \in Operations \/ RepairStep
    BY DEF Work, SaveStep, IntroStep, EndingStep, DeleteStep, CopyStep, In, Operations
  <1> QED BY <1>6, <1>7, <1>8, <1>9, <1>10, <1>11 DEF Next, Resets

\* What the frames of an operation do to the saves.
LEMMA FrameSaves ==
  /\ \A param, t, next : Stream(param, t, next) =>
       /\ UNCHANGED <<kind, now, made, astray>>
       /\ gSramOperationStage' \in {gSramOperationStage, next}
  /\ \A next : Stage(next) => UNCHANGED <<kind, now, made, astray>> /\ gSramOperationStage' = next
  /\ \A f : Made(f) => /\ UNCHANGED <<kind, now, astray>> /\ made' = made + 1
                       /\ gSramOperationStage' = gSramOperationStage + 1
  /\ Ends => kind' = "none" /\ now' = Held /\ UNCHANGED <<made, astray>>
  <1>1. \A param, t, next : Stream(param, t, next) =>
          /\ UNCHANGED <<kind, now, made, astray>>
          /\ gSramOperationStage' \in {gSramOperationStage, next}
    BY DEF Stream, operation
  <1>2. \A next : Stage(next) => UNCHANGED <<kind, now, made, astray>> /\ gSramOperationStage' = next
    BY DEF Stage, operation
  <1>3. \A f : Made(f) => /\ UNCHANGED <<kind, now, astray>> /\ made' = made + 1
                         /\ gSramOperationStage' = gSramOperationStage + 1
    BY DEF Made, operation
  <1>4. Ends => kind' = "none" /\ now' = Held /\ UNCHANGED <<made, astray>>
    BY DEF Ends
  <1> QED BY <1>1, <1>2, <1>3, <1>4

\* The slot of an operation that is over: the save it made, nothing, the save it copied, or
\* whatever EWRAM has for a slot that is astray.
Kept ==
  \/ Fresh /\ kind' = "none" /\ made' = made /\ \E s \in Slots : now' = [now EXCEPT ![s] = made]
  \/ \E s \in Slots : now' = [now EXCEPT ![s] = 0]
  \/ \E s \in Slots \ astray, t \in Slots : now[s] # 0 /\ now' = [now EXCEPT ![t] = now[s]]
  \/ \E s \in astray, v \in Content : now' = [now EXCEPT ![s] = v]

\* Only the last frame of an operation changes what a slot holds, and only one that begins changes
\* the slots that are astray.
LEMMA KeptStep ==
  ASSUME SInv, [Next]_vars, ~ Resets
  PROVE  \/ now' = now /\ (astray' = astray \/ \E t \in Slots : astray' = astray \cup {t})
         \/ astray' = astray /\ Kept
  <1>0. TypeOK
    BY DEF SInv, TInv
  <1>1. slot \in Slots /\ dst \in Slots /\ 0 \in Chunk /\ astray \subseteq Slots
    BY <1>0, Sizes DEF TypeOK
  <1>2. \A v : File(v)[0] = v
    BY <1>1 DEF File
  <1>3. CASE Begin
    BY <1>0, <1>3, Beginnings DEF Beginning, Begins
  <1>4. CASE Wait \/ OtherWrite \/ EnterGame \/ UNCHANGED vars
    BY <1>4 DEF Wait, OtherWrite, Idle, EnterGame, vars
  <1>5. CASE Work
    <2>1. /\ astray' = astray
          /\ now' = now \/ (Ends /\ kind \in Operations /\ Work)
      BY <1>5, FrameSaves DEF Work, SaveStep, IntroStep, EndingStep, DeleteStep, CopyStep, RepairStep, In,
         Operations
    <2>2. ASSUME Ends, kind \in Operations PROVE Kept
      <3>1. now' = [now EXCEPT ![Target] = ewram[Target][0]] /\ made' = made /\ kind' = "none"
        BY <2>2 DEF Ends, Held
      <3>0. \A f, next, param, t : ~ Made(f) /\ ~ Stage(next) /\ ~ Stream(param, t, next)
        <4>1. kind' # kind
          BY <2>2 DEF Ends, Operations
        <4> QED BY <4>1, FrameSaves
      <3>2. CASE Target \in astray
        <4>1. ewram[Target][0] \in Content
          BY <1>0, <1>1, <3>2, Regions DEF TypeOK, Memory
        <4> QED BY <3>1, <3>2, <4>1 DEF Kept
      <3>3. CASE Target \notin astray /\ MakesSave
        <4>1. Fresh /\ Target = slot /\ gSramOperationStage >= MadeAt
          <5>2. gSramOperationStage \in {4, 5}
            BY <1>5, <2>2, <3>0, <3>3 DEF Work, SaveStep, IntroStep, EndingStep, DeleteStep, CopyStep,
               RepairStep, In, MakesSave, Operations
          <5>3. gSramOperationStage >= MadeAt
            BY <5>2 DEF MadeAt
          <5> QED BY <3>3, <5>3 DEF Fresh, MakesSave, Target
        <4>2. ewram[slot] = File(made)
          BY <3>3, <4>1 DEF SInv, Stages, Reached, SaveStages
        <4> QED BY <1>1, <1>2, <3>1, <4>1, <4>2 DEF Kept
      <3>4. CASE Target \notin astray /\ kind = "delete"
        <4>1. Target = slot /\ gSramOperationStage >= 1
          <5>1. DeleteStep
            BY <1>5, <3>4 DEF Work, SaveStep, IntroStep, EndingStep, DeleteStep, CopyStep, RepairStep, In
          <5>2. gSramOperationStage >= 4
            BY <3>0, <5>1 DEF DeleteStep
          <5> QED BY <1>0, <3>4, <5>2 DEF Target, TypeOK
        <4>2. ewram[slot] = Blank
          BY <3>4, <4>1 DEF SInv, Stages, Reached, DeleteStages
        <4> QED BY <1>1, <1>2, <3>1, <4>1, <4>2 DEF Kept, Blank
      <3>5. CASE Target \notin astray /\ kind = "copy"
        <4>1. Target = dst /\ gSramOperationStage >= 1
          <5>1. CopyStep
            BY <1>5, <3>5 DEF Work, SaveStep, IntroStep, EndingStep, DeleteStep, CopyStep, RepairStep, In
          <5>2. gSramOperationStage >= 4
            BY <3>0, <5>1 DEF CopyStep
          <5> QED BY <1>0, <3>5, <5>2 DEF Target, TypeOK
        <4>2. ewram[dst] = File(now[slot]) /\ slot \notin astray /\ now[slot] # 0
          BY <3>5, <4>1 DEF SInv, Stages, Reached, CopyStages
        <4>3. now' = [now EXCEPT ![dst] = now[slot]]
          <5>1. ewram[dst][0] = now[slot]
            BY <1>2, <4>2
          <5> QED BY <3>1, <4>1, <5>1
        <4> QED BY <1>1, <4>2, <4>3 DEF Kept
      <3> QED BY <2>2, <3>2, <3>3, <3>4, <3>5 DEF Operations, MakesSave
    <2> QED BY <2>1, <2>2
  <1> QED BY <1>3, <1>4, <1>5 DEF Next, Resets

\* The newest save of the slots is never an older one: its number is taken before it is put.
LEMMA NewestGrows ==
  ASSUME SInv, SInv', [Next]_vars, ~ Resets
  PROVE  Newest \in Nat /\ Newest' \in Nat /\ Newest' >= Newest
  <1>1. /\ made \in Nat /\ made' \in Nat /\ made # 0 /\ made' # 0 /\ TypeOK
        /\ gSramOperationStage \in 0 .. 5 /\ gSramOperationStage' \in 0 .. 5
    BY DEF SInv, TInv, TypeOK
  <1>2. CASE made' = made
    <2>1. Fresh' => Fresh
      <3>1. CASE Work
        <4>1. CASE SaveStep \/ IntroStep \/ EndingStep
          BY <1>1, <1>2, <4>1, FrameSaves DEF SaveStep, IntroStep, EndingStep, In, Fresh, MakesSave, MadeAt
        <4>2. CASE DeleteStep \/ CopyStep
          BY <4>2, FrameSaves DEF DeleteStep, CopyStep, In, Fresh, MakesSave
        <4>3. CASE RepairStep
          BY <4>3 DEF RepairStep, RepairOver, RepairGoesOn, Fresh, MakesSave
        <4> QED BY <3>1, <4>1, <4>2, <4>3 DEF Work
      <3>2. CASE ~ Work
        <4>1. CASE Begin
          <5>1. PICK k \in Operations \cup {"repair"}, s \in Slots, t \in Slots : Beginning(k, s, t)
            BY <1>1, <4>1, Beginnings
          <5>2. MakesSave' => gSramOperationStage' = 0
            BY <5>1 DEF Beginning, Begins, MakesSave
          <5> QED BY <5>2 DEF Fresh, MadeAt
        <4>2. CASE UNCHANGED vars
          BY <4>2 DEF vars, operation, progress, Fresh, MakesSave, MadeAt
        <4>3. CASE Wait \/ OtherWrite \/ EnterGame
          BY <4>3 DEF Wait, OtherWrite, Idle, EnterGame, operation, Fresh, MakesSave
        <4> QED BY <3>2, <4>1, <4>2, <4>3 DEF Next, Resets
      <3> QED BY <3>1, <3>2
    <2> QED BY <1>1, <1>2, <2>1 DEF Newest
  <1>3. CASE made' # made
    <2>1. made' = made + 1 /\ ~ Fresh /\ Fresh'
      <3>1. SaveStep \/ IntroStep \/ EndingStep
        <4>1. ~ Begin
          BY <1>1, <1>3, Beginnings DEF Beginning, Begins
        <4> QED BY <1>3, <4>1, FrameSaves DEF Next, Resets, Wait, OtherWrite, Idle, EnterGame, vars, Work,
               DeleteStep, CopyStep, RepairStep
      <3> QED BY <1>1, <1>3, <3>1, FrameSaves DEF SaveStep, IntroStep, EndingStep, In, Fresh, MakesSave, MadeAt
    <2> QED BY <1>1, <2>1 DEF Newest
  <1> QED BY <1>2, <1>3

\* No step puts a save in a slot, or on the card, that is to come.
LEMMA KnownStep ==
  ASSUME Settled, SInv, SInv', Clock, SeenAll, SeenAll', Known, [Next]_vars
  PROVE  Known'
  <1>1. CASE Resets
    <2>1. TypeOK /\ 0 \in Seen /\ 0 \in Seen'
      BY DEF SInv, TInv, TypeOK, Seen
    <2>2. kind' = "none" /\ made' = made
      BY <1>1 DEF Resets, Restart, SoftResetCheck, TriggerGameRestart, SoftReset, SramRead_All
    <2>3. Older' = Seen /\ Older' = Seen'
      BY <2>2 DEF Older, Newest, Fresh, MakesSave, Seen
    <2>4. SramRead_All(card) \/ SramRead_All(flash)
      BY <1>1 DEF Resets, Restart, SoftResetCheck, TriggerGameRestart, SoftReset
    <2>5. \A s \in Slots : Loaded(card, s) \in Seen /\ Loaded(flash, s) \in Seen
      BY <2>1, OfSets DEF SeenAll
    <2>6. \A s \in Slots : now'[s] \in Older'
      BY <2>3, <2>4, <2>5 DEF SramRead_All
    <2>7. \A s \in Slots : Loaded(card', s) \in Older'
      BY <2>1, <2>3, OfSets DEF SeenAll
    <2> QED BY <2>6, <2>7 DEF Known, Loaded
  <1>2. CASE ~ Resets
    <2>1. Newest \in Nat /\ Newest' \in Nat /\ Newest' >= Newest
      BY <1>2, NewestGrows
    <2>2. Older \subseteq Older'
      BY <2>1 DEF Older
    <2>3. astray \subseteq astray' /\ now \in [Slots -> Content]
      BY <1>2, KeptStep DEF SInv, TInv, TypeOK
    <2>4. \A s \in Slots \ astray' : now'[s] \in Older'
      <3>1. CASE now' = now
        BY <2>2, <2>3, <3>1 DEF Known
      <3>2. CASE astray' = astray /\ Kept
        <4>1. CASE Fresh /\ kind' = "none" /\ made' = made /\ \E s \in Slots : now' = [now EXCEPT ![s] = made]
          <5>1. made \in Older'
            <6>1. Newest' = made
              BY <4>1 DEF Newest, Fresh, MakesSave
            <6> QED BY <2>1, <6>1 DEF Older
          <5> QED BY <2>2, <2>3, <3>2, <4>1, <5>1 DEF Known
        <4>2. 0 \in Older'
          BY <2>1 DEF Older
        <4>3. CASE \E s \in Slots : now' = [now EXCEPT ![s] = 0]
          BY <2>2, <2>3, <3>2, <4>2, <4>3 DEF Known
        <4>4. CASE \E s \in Slots \ astray, t \in Slots : now[s] # 0 /\ now' = [now EXCEPT ![t] = now[s]]
          BY <2>2, <2>3, <3>2, <4>4 DEF Known
        <4>5. CASE \E s \in astray, v \in Content : now' = [now EXCEPT ![s] = v]
          BY <2>2, <2>3, <3>2, <4>5 DEF Known
        <4> QED BY <3>2, <4>1, <4>3, <4>4, <4>5 DEF Kept
      <3> QED BY <1>2, <3>1, <3>2, KeptStep
    <2>5. \A s \in Slots \ astray' : Loaded(card', s) \in Older'
      <3>1. CASE card' = card
        BY <2>2, <2>3, <3>1 DEF Known
      <3>2. CASE card' # card
        BY <2>4, <3>2, CardFollows
      <3> QED BY <3>1, <3>2
    <2> QED BY <2>4, <2>5 DEF Known, Loaded
  <1> QED BY <1>1, <1>2

\* The whole invariant, when the memory has to be quiet for three frames.
THEOREM CardInvariant ==
  ASSUME Settled
  PROVE  Spec => []CInv
  <1>1. Init => SInv /\ Clock /\ SeenAll /\ Known
    BY TypeInit, RestInit, SeenInit, SaveSlotsAssumption
       DEF SInv, Clock, Init, Operations, Settling, MakesSave
  <1>2. SInv /\ Clock /\ SeenAll /\ Known /\ [Next]_vars => SInv' /\ Clock' /\ SeenAll' /\ Known'
    BY RestStep, ClockStep, SeenStep, KnownStep DEF Settled, SInv
  <1> QED BY <1>1, <1>2, PTL DEF Spec, CInv

\* A reset in the middle of an operation leaves its slot what it held, the save the operation
\* made, what it copied, the backup on the save memory, or nothing.
LEMMA CutHolds ==
  ASSUME SInv, kind \in Operations, Target \notin astray
  PROVE  \/ Loaded(flash, Target) = now[Target] \/ Loaded(flash, Target) = 0
         \/ Fresh /\ Loaded(flash, Target) = made
         \/ \E s \in Slots : Loaded(flash, Target) = now[s]
         \/ Whole(flash[Copy(Target)]) /\ Loaded(flash, Target) = flash[Copy(Target)][0]
  <1>1. /\ slot \in Slots /\ dst \in Slots /\ Target \in Slots /\ 0 \in Chunk /\ Chunk \subseteq Nat
        /\ gSramOperationStage \in Nat /\ gUnk_3000C20 \in Nat
    BY Sizes DEF SInv, TInv, TypeOK, Target
  <1>2. /\ Untouched /\ (MakesSave => SaveStages) /\ (kind = "delete" => DeleteStages)
        /\ (kind = "copy" => CopyStages)
    BY DEF SInv, Stages, Reached
  <1>3. CASE Unwritten
    BY <1>2, <1>3 DEF Untouched
  <1>4. CASE ~ Whole(flash[Target])
    BY <1>4 DEF Loaded
  <1>5. CASE ~ Unwritten /\ Whole(flash[Target])
    <2>1. Loaded(flash, Target) = flash[Target][0] /\ flash[Target][0] # 0
      BY <1>5 DEF Loaded, Whole
    <2>2. gSramOperationStage > FirstWrite \/ (gSramOperationStage = FirstWrite /\ 0 < gUnk_3000C20)
      BY <1>1, <1>5 DEF Unwritten, FirstWrite, MadeAt
    <2>3. \A v : File(v)[0] = v
      BY <1>1 DEF File
    <2>4. CASE MakesSave
      <3>1. Target = slot /\ FirstWrite = MadeAt
        BY <2>4 DEF MakesSave, Target, FirstWrite
      <3>2. flash[slot][0] = made
        BY <1>1, <1>2, <2>2, <2>3, <2>4, <3>1 DEF SaveStages, Moving
      <3>3. Fresh
        BY <1>1, <2>2, <2>4, <3>1 DEF Fresh, MadeAt
      <3> QED BY <2>1, <3>1, <3>2, <3>3
    <2>5. CASE kind = "delete"
      <3>1. Target = slot /\ FirstWrite = 1
        BY <2>5 DEF MakesSave, Target, FirstWrite
      <3>2. gSramOperationStage = 1 => flash[slot][0] = 0
        BY <1>1, <1>2, <2>2, <2>5, <3>1 DEF DeleteStages, Moving
      <3>3. gSramOperationStage >= 2 => flash[slot][0] = 0
        BY <1>2, <2>3, <2>5 DEF DeleteStages, Blank
      <3> QED BY <1>1, <2>1, <2>2, <3>1, <3>2, <3>3
    <2>6. CASE kind = "copy"
      <3>1. Target = dst /\ FirstWrite = 1
        BY <2>6 DEF MakesSave, Target, FirstWrite
      <3>2. gSramOperationStage = 1 => flash[dst][0] = now[slot]
        BY <1>1, <1>2, <2>2, <2>6, <3>1 DEF CopyStages, Moving
      <3>3. gSramOperationStage >= 2 => flash[dst][0] = now[slot]
        BY <1>2, <2>3, <2>6 DEF CopyStages
      <3> QED BY <1>1, <2>1, <2>2, <3>1, <3>2, <3>3
    <2> QED BY <2>4, <2>5, <2>6 DEF Operations, MakesSave
  <1> QED BY <1>3, <1>4, <1>5

\* A save that was just made is in no slot yet, here or on the card.
LEMMA MadeIsNew ==
  ASSUME CInv, Fresh
  PROVE  /\ made \in Save /\ \A t \in Slots \ astray : made # now[t] /\ made # Loaded(card, t)
  <1>1. made \in Nat /\ made # 0 /\ made <= MaxVersion /\ made # Mixed /\ MaxVersion \in Nat
    BY SaveSlotsAssumption DEF CInv, SInv, TInv, TypeOK
  <1>2. Older = 0 .. made - 1 \cup {Mixed}
    BY DEF Older, Newest, CInv
  <1>3. made \notin Older
    BY <1>1, <1>2
  <1>4. made \in Save
    BY <1>1 DEF Save
  <1> QED BY <1>3, <1>4 DEF CInv, Known

\* The card holds the slots of one moment between two operations, and every start brings back a
\* whole save or none: no half of an operation that runs to its end reaches mzm.sav, no save is
\* lost to a bad file and a deleted slot does not come back.  A reset in the middle of an
\* operation leaves its slot what it held, what the operation puts in it, the backup on the
\* save memory or nothing, and the other slots what they held.
THEOREM CardImplementsStore ==
  ASSUME Settled
  PROVE  Spec => ImplementsSlotStore
  <1> DEFINE stored == [s \in Slots |-> Loaded(card, s)]
             spare == [s \in Slots |-> IF Whole(flash[Copy(s)]) THEN flash[Copy(s)][0] ELSE 0]
  <1>1. Content = Save \cup {0}
    BY DEF Content
  <1>2. ASSUME NEW m \in Memory
        PROVE  [s \in Slots |-> IF Whole(m[Copy(s)]) THEN m[Copy(s)][0] ELSE 0] \in [Slots -> Save \cup {0}]
    <2>1. \A s \in Slots : m[Copy(s)][0] \in Content
      BY Regions, Sizes DEF Memory
    <2> QED BY <1>1, <2>1
  <1>3. Init => Store!Init
    <2> SUFFICES ASSUME Init
                 PROVE  /\ stored \in [Slots -> Save \cup {0}] /\ now = stored
                        /\ spare \in [Slots -> Save \cup {0}] /\ astray = {}
      BY DEF Store!Init, Store!Holding
    <2>1. card \in Memory /\ flash \in Memory
      BY TypeInit DEF TInv, TypeOK
    <2>2. spare \in [Slots -> Save \cup {0}]
      BY <1>2, <2>1
    <2> QED BY <1>1, <2>1, <2>2, BootType DEF Init
  <1>4. ASSUME CInv, CInv', [Next]_vars PROVE [Store!Next]_<<now, stored, spare, astray>>
    <2>1. TypeOK /\ TypeOK'
      BY <1>4 DEF CInv, SInv, TInv
    <2>2. /\ stored' = [s \in Slots |-> Loaded(card', s)]
          /\ spare' = [s \in Slots |-> IF Whole(flash'[Copy(s)]) THEN flash'[Copy(s)][0] ELSE 0]
      BY DEF Loaded
    <2>3. /\ now \in [Slots -> Save \cup {0}] /\ now' \in [Slots -> Save \cup {0}]
          /\ astray \subseteq Slots
      BY <1>1, <2>1 DEF TypeOK
    <2>4. spare' \in Store!Holding /\ stored' \in Store!Holding /\ now' \in Store!Holding
      <3>1. card' \in Memory /\ flash' \in Memory
        BY <2>1 DEF TypeOK
      <3>2. spare' \in [Slots -> Save \cup {0}]
        BY <1>2, <2>2, <3>1
      <3>3. stored' \in [Slots -> Save \cup {0}]
        BY <1>1, <2>2, <3>1, BootType
      <3> QED BY <2>3, <3>2, <3>3 DEF Store!Holding
    <2>5. stored' = stored \/ \A s \in Slots \ astray' : stored'[s] = now'[s]
      BY <1>4, <2>2, CardFollows DEF CInv
    <2>6. Store!Follow
      BY <2>4, <2>5 DEF Store!Follow
    <2>7. CASE Restart
      <3>1. now' = stored /\ stored' = stored /\ astray' = {}
        BY <2>2, <2>7 DEF Restart, SramRead_All
      <3> QED BY <2>4, <3>1 DEF Store!Next, Store!Restart
    <2>8. CASE Resets /\ ~ Restart
      <3>1. astray' = {} /\ \A s \in Slots : now'[s] = Loaded(flash, s)
        BY <2>1, <2>8, ResetRests
      <3>2. \A s \in Slots \ astray : (kind \in Operations /\ s = Target) \/ now'[s] = now[s]
        BY <1>4, <3>1 DEF CInv, SInv, OthersRest, AtRest
      <3>3. CASE kind \in Operations
        <4>1. Target \in Slots
          BY <2>1 DEF TypeOK, Target
        <4>2. \/ Target \in astray
              \/ now'[Target] \in {now[t] : t \in Slots} \cup {spare[Target], 0}
              \/ Store!New(now'[Target])
          <5>1. CASE Fresh /\ now'[Target] = made
            <6>1. Store!New(made)
              BY <1>4, <5>1, MadeIsNew DEF Store!New
            <6> QED BY <5>1, <6>1
          <5> QED BY <1>4, <3>1, <3>3, <4>1, <5>1, CutHolds DEF CInv
        <4>3. Store!Cut(Target)
          BY <2>4, <2>6, <3>1, <3>2, <4>2 DEF Store!Cut
        <4> QED BY <4>1, <4>3 DEF Store!Next
      <3>4. CASE kind \notin Operations
        <4>1. 1 \in Slots
          BY Regions
        <4>2. 1 \in astray \/ now'[1] \in {now[t] : t \in Slots} \cup {spare[1], 0}
          BY <3>2, <3>4, <4>1
        <4>3. Store!Cut(1)
          BY <2>4, <2>6, <3>1, <3>2, <3>4, <4>2 DEF Store!Cut
        <4> QED BY <4>1, <4>3 DEF Store!Next
      <3> QED BY <3>3, <3>4
    <2>9. CASE ~ Resets
      <3>1. CASE now' = now /\ \E t \in Slots : astray' = astray \cup {t}
        BY <2>4, <2>6, <3>1 DEF Store!Next, Store!Step, Store!Stray
      <3>2. CASE now' = now /\ astray' = astray
        BY <2>4, <2>6, <3>2 DEF Store!Next, Store!Step
      <3>3. CASE astray' = astray /\ Kept
        <4>1. CASE Fresh /\ kind' = "none" /\ made' = made /\ \E s \in Slots : now' = [now EXCEPT ![s] = made]
          <5>1. Store!New(made) /\ made \in Save
            BY <1>4, <4>1, MadeIsNew DEF Store!New
          <5> QED BY <2>4, <2>6, <3>3, <4>1, <5>1 DEF Store!Next, Store!Step, Store!Operate, Store!Put
        <4>2. CASE \E s \in Slots : now' = [now EXCEPT ![s] = 0]
          BY <2>4, <2>6, <3>3, <4>2 DEF Store!Next, Store!Step, Store!Operate, Store!Erase
        <4>3. CASE \E s \in Slots \ astray, t \in Slots : now[s] # 0 /\ now' = [now EXCEPT ![t] = now[s]]
          BY <2>4, <2>6, <3>3, <4>3 DEF Store!Next, Store!Step, Store!Operate, Store!Copy
        <4>4. CASE \E s \in astray, v \in Content : now' = [now EXCEPT ![s] = v]
          BY <1>1, <2>3, <2>4, <2>6, <3>3, <4>4 DEF Store!Next, Store!Step, Store!Operate, Store!Any
        <4> QED BY <3>3, <4>1, <4>2, <4>3, <4>4 DEF Kept
      <3> QED BY <1>4, <2>9, <3>1, <3>2, <3>3, KeptStep DEF CInv
    <2> QED BY <2>7, <2>8, <2>9 DEF Resets
  <1> QED BY <1>3, <1>4, CardInvariant, PTL DEF Spec, ImplementsSlotStore, Store!Spec
=============================================================================
