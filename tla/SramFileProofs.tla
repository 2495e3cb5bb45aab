--------------------------- MODULE SramFileProofs ---------------------------
(***************************************************************************)
(* What SramFile promises for every number of versions, chunks, faults and  *)
(* limits of frames.  The invariants: Typed, with the two buffers and what  *)
(* the writer holds; Rising, that versions only grow on their way from      *)
(* memory to the card; Safe, what the three files are worth at each step of *)
(* the swap when writes are cut; Remembered and Places, where a whole save  *)
(* is when operations fail instead; Opened and Ordered, for the refinement  *)
(* of SaveCard, what holds of the .tmp and of versions up to one fault.     *)
(***************************************************************************)
EXTENDS SramFile, TLAPS

\* The two threads and the buffers: the one being filled is not the one being written.
Threads ==
  /\ at = "copy" <=> copyTo # -1
  /\ \A b \in Buffer : sSramSnapshot[b] = Mixed => b = copyTo
  /\ copyTo # -1 => copyTo # sWritingBuffer
  /\ writer = "idle" => sWritingBuffer = -1 /\ held = None /\ at # "sync"
  /\ writer # "idle" => held \in Version
  /\ writer # "idle" /\ at # "sync" =>
       sWritingBuffer # -1 /\ sSramSnapshot[sWritingBuffer] = held /\ sSaveThreadStarted
  /\ at = "sync" => held = gSramMem /\ ~ sSaveThreadStarted
  /\ ~ sSaveThreadStarted => sQueuedBuffer = -1 /\ copyTo = -1

\* The files: only a .tmp that is not swapped in yet can be cut short.
Sound ==
  /\ Mixed \notin {sav, tmp, bak} /\ sav # Cut /\ bak # Cut
  /\ writer \in {"removeBak", "renameSav", "renameTmp"} => tmp = held

Stopped == ~ on => at = "game" /\ copyTo = -1 /\ writer = "idle" /\ ~ saving /\ ~ sSramDirty
                   /\ sQueuedBuffer = -1 /\ ~ sSaveThreadStarted

Inv == TypeOK /\ Threads /\ Sound /\ Stopped

\* With a card that works and at most two writes cut short, versions rise from the card to the
\* writer, the queue and the memory.
Good == errors = 0 /\ cuts <= 2
Newest == Larger(written, loaded)

Rising ==
  /\ saving => gSramMem < made
  /\ Good =>
       /\ written <= made /\ loaded <= made
       /\ \A file \in {sav, tmp, bak} : Whole(file) => file <= made
       /\ on => gSramMem <= made /\ Newest <= gSramMem
       /\ writer # "idle" => Newest <= held /\ held <= gSramMem
       /\ sQueuedBuffer # -1 /\ sQueuedBuffer # copyTo =>
            /\ Newest <= sSramSnapshot[sQueuedBuffer]
            /\ sSramSnapshot[sQueuedBuffer] <= gSramMem
            /\ writer # "idle" => held <= sSramSnapshot[sQueuedBuffer]

\* The program is not in the middle of a swap.
Settles == writer \in {"idle", "end"}

Swap ==
  errors = 0 =>
    /\ writer = "renameSav" => bak = None
    /\ writer = "renameTmp" => sav = None

\* No write was ever cut short: mzm.sav is the newest, except between the renames.
Uncut ==
  errors = 0 /\ cuts = 0 =>
    /\ sav # None => sav >= Newest
    /\ sav = None => \/ Newest = 0 /\ bak = None /\ (Settles => ~ Whole(tmp))
                     \/ writer = "renameTmp" /\ bak # None /\ bak >= written

\* One was: the files still hold the last version written to the end.
CutOnce ==
  errors = 0 /\ cuts <= 1 =>
    /\ sav # None => sav >= written
    /\ Whole(tmp) => tmp >= written
    /\ sav = None => \/ written = 0
                     \/ bak # None /\ bak >= written
                     \/ writer \in {"renameSav", "renameTmp"}
    /\ Settles => Loaded >= Newest

CutTwice == errors = 0 /\ cuts <= 2 /\ Settles => Loaded >= written

Safe == Swap /\ Uncut /\ CutOnce /\ CutTwice

IInv == Inv /\ Rising /\ Safe

(***************************************************************************)
(* Types, threads and files: one step per action.                          *)
(***************************************************************************)

\* The counters of frames.
LEMMA Frames ==
  /\ 0 \in IdleFrames /\ 0 \in AgeFrames
  /\ \A n \in IdleFrames : ~ (n + 1 >= SRAM_FLUSH_IDLE_FRAMES) => n + 1 \in IdleFrames
  /\ \A n \in AgeFrames : ~ (n + 1 >= SRAM_FLUSH_MAX_FRAMES) => n + 1 \in AgeFrames
<1>1. SRAM_FLUSH_IDLE_FRAMES \in Nat /\ SRAM_FLUSH_IDLE_FRAMES > 1
  BY SramFileAssumption
<1>2. SRAM_FLUSH_MAX_FRAMES \in Nat /\ SRAM_FLUSH_MAX_FRAMES > 0
  BY SramFileAssumption
<1> QED
  BY <1>1, <1>2 DEF IdleFrames, AgeFrames

LEMMA Versions ==
  /\ 0 \in Version /\ Version \subseteq Nat /\ Version \subseteq Int
  /\ None \notin Version /\ Cut \notin Version /\ Mixed \notin Version
  /\ None # Cut /\ None # Mixed /\ Cut # Mixed
  /\ \A a, b \in Version : Larger(a, b) \in Version
  BY SramFileAssumption DEF Version, Larger

LEMMA InvInit == Init => Inv
<1>1. Init => FramesOK
  BY Frames DEF Init, FramesOK
<1>2. Init => FaultsOK
  BY SramFileAssumption DEF Init, FaultsOK
<1>3. Init => TypeOK
  BY Versions, <1>1, <1>2 DEF Init, TypeOK, File, Buffer
<1> QED
  BY Versions, <1>3 DEF Init, Inv, Threads, Sound, Stopped, Buffer

LEMMA InvStep == Inv /\ [Next]_vars => Inv'
<1> SUFFICES ASSUME Inv, [Next]_vars PROVE Inv'
  OBVIOUS
<1> USE Versions DEF Inv, File, Buffer
<1>1. CASE Boot
  <2>0. FramesOK'
    BY <1>1, Frames DEF TypeOK, FramesOK, Sound, Stopped, Threads, TypeOK, Boot, Loaded, Whole, vars, memory, dirty, queue, frame, write, files, seen
  <2>5. FaultsOK'
    BY <1>1, SramFileAssumption DEF TypeOK, FaultsOK, Sound, Stopped, Threads, TypeOK, Boot, Loaded, Whole, vars, memory, dirty, queue, frame, write, files, seen
  <2>1. TypeOK'
    BY <1>1, <2>0, <2>5 DEF Sound, Stopped, Threads, TypeOK, Boot, Loaded, Whole, vars, memory, dirty, queue, frame, write, files, seen
  <2>2. Threads'
    BY <1>1 DEF Stopped, Threads, TypeOK, Boot, Loaded, Whole, vars, memory, dirty, queue, frame, write, files, seen
  <2>3. Sound'
    BY <1>1 DEF Sound, Stopped, Threads, TypeOK, Boot, Loaded, Whole, vars, memory, dirty, queue, frame, write, files, seen
  <2>4. Stopped'
    BY <1>1 DEF Stopped, TypeOK, Boot, Loaded, Whole, vars, memory, dirty, queue, frame, write, files, seen
  <2> QED BY <2>1, <2>2, <2>3, <2>4 DEF Inv
<1>2. CASE Dies
  <2>0. FramesOK'
    BY <1>2, Frames DEF TypeOK, FramesOK, Dies, Halfway, vars, memory, dirty, queue, frame, write, files, seen
  <2>5. FaultsOK'
    BY <1>2, SramFileAssumption DEF TypeOK, FaultsOK, Dies, Halfway, vars, memory, dirty, queue, frame, write, files, seen
  <2>1. TypeOK'
    BY <1>2, <2>0, <2>5 DEF Threads, TypeOK, Dies, Halfway, vars, memory, dirty, queue, frame, write, files, seen
  <2>2. Threads'
    BY <1>2 DEF Threads, TypeOK, Dies, Halfway, vars, memory, dirty, queue, frame, write, files, seen
  <2>3. Sound'
    BY <1>2 DEF Sound, Threads, TypeOK, Dies, Halfway, vars, memory, dirty, queue, frame, write, files, seen
  <2>4. Stopped'
    BY <1>2 DEF Stopped, TypeOK, Dies, Halfway, vars, memory, dirty, queue, frame, write, files, seen
  <2> QED BY <2>1, <2>2, <2>3, <2>4 DEF Inv
<1>3. CASE SramWrite
  <2>0. FramesOK'
    BY <1>3, Frames DEF TypeOK, FramesOK, SramWrite, NextChunk, vars, memory, dirty, queue, frame, write, files, seen
  <2>5. FaultsOK'
    BY <1>3, SramFileAssumption DEF TypeOK, FaultsOK, SramWrite, NextChunk, vars, memory, dirty, queue, frame, write, files, seen
  <2>1. TypeOK'
    BY <1>3, <2>0, <2>5 DEF Threads, TypeOK, SramWrite, NextChunk, vars, memory, dirty, queue, frame, write, files, seen
  <2>2. Threads'
    BY <1>3 DEF Threads, TypeOK, SramWrite, NextChunk, vars, memory, dirty, queue, frame, write, files, seen
  <2>3. Sound'
    BY <1>3 DEF Sound, Threads, TypeOK, SramWrite, NextChunk, vars, memory, dirty, queue, frame, write, files, seen
  <2>4. Stopped'
    BY <1>3 DEF Stopped, TypeOK, SramWrite, NextChunk, vars, memory, dirty, queue, frame, write, files, seen
  <2> QED BY <2>1, <2>2, <2>3, <2>4 DEF Inv
<1>4. CASE SramReadBack
  <2>0. FramesOK'
    BY <1>4, Frames DEF TypeOK, FramesOK, SramReadBack, vars, memory, dirty, queue, frame, write, files, seen
  <2>5. FaultsOK'
    BY <1>4, SramFileAssumption DEF TypeOK, FaultsOK, SramReadBack, vars, memory, dirty, queue, frame, write, files, seen
  <2>1. TypeOK'
    BY <1>4, <2>0, <2>5 DEF Threads, TypeOK, SramReadBack, vars, memory, dirty, queue, frame, write, files, seen
  <2>2. Threads'
    BY <1>4 DEF Threads, TypeOK, SramReadBack, vars, memory, dirty, queue, frame, write, files, seen
  <2>3. Sound'
    BY <1>4 DEF Sound, Threads, TypeOK, SramReadBack, vars, memory, dirty, queue, frame, write, files, seen
  <2>4. Stopped'
    BY <1>4 DEF Stopped, TypeOK, SramReadBack, vars, memory, dirty, queue, frame, write, files, seen
  <2> QED BY <2>1, <2>2, <2>3, <2>4 DEF Inv
<1>5. CASE NoSramWrite
  <2>0. FramesOK'
    BY <1>5, Frames DEF TypeOK, FramesOK, NoSramWrite, vars, memory, dirty, queue, frame, write, files, seen
  <2>5. FaultsOK'
    BY <1>5, SramFileAssumption DEF TypeOK, FaultsOK, NoSramWrite, vars, memory, dirty, queue, frame, write, files, seen
  <2>1. TypeOK'
    BY <1>5, <2>0, <2>5 DEF Threads, TypeOK, NoSramWrite, vars, memory, dirty, queue, frame, write, files, seen
  <2>2. Threads'
    BY <1>5 DEF Threads, TypeOK, NoSramWrite, vars, memory, dirty, queue, frame, write, files, seen
  <2>3. Sound'
    BY <1>5 DEF Sound, Threads, TypeOK, NoSramWrite, vars, memory, dirty, queue, frame, write, files, seen
  <2>4. Stopped'
    BY <1>5 DEF Stopped, TypeOK, NoSramWrite, vars, memory, dirty, queue, frame, write, files, seen
  <2> QED BY <2>1, <2>2, <2>3, <2>4 DEF Inv
<1>6. CASE FlushLater
  <2>0. FramesOK'
    BY <1>6, Frames DEF TypeOK, FramesOK, FlushLater, ShowFailed, Settled, Capped, vars, memory, dirty, queue, frame, write, files, seen
  <2>5. FaultsOK'
    BY <1>6, SramFileAssumption DEF TypeOK, FaultsOK, FlushLater, ShowFailed, Settled, Capped, vars, memory, dirty, queue, frame, write, files, seen
  <2>6. told' \in Version /\ sWriteFailed' \in Version
    BY <1>6 DEF TypeOK, FlushLater, ShowFailed
  <2>7. sSramDirty' \in BOOLEAN /\ sSaveThreadStarted' \in BOOLEAN
    BY <1>6 DEF TypeOK, FlushLater, dirty
  <2>1. TypeOK'
    BY <1>6, <2>0, <2>5, <2>6, <2>7 DEF TypeOK, FlushLater, vars, memory, dirty, queue, frame, write, files, seen
  <2>2. Threads'
    BY <1>6 DEF Threads, TypeOK, FlushLater, ShowFailed, Settled, Capped, vars, memory, dirty, queue, frame, write, files, seen
  <2>3. Sound'
    BY <1>6 DEF Sound, Threads, TypeOK, FlushLater, ShowFailed, Settled, Capped, vars, memory, dirty, queue, frame, write, files, seen
  <2>4. Stopped'
    BY <1>6 DEF Stopped, TypeOK, FlushLater, ShowFailed, Settled, Capped, vars, memory, dirty, queue, frame, write, files, seen
  <2> QED BY <2>1, <2>2, <2>3, <2>4 DEF Inv
<1>7. CASE FlushNow
  <2>0. FramesOK'
    BY <1>7, Frames DEF TypeOK, FramesOK, FlushNow, FreeBuffer, ShowFailed, vars, memory, dirty, queue, frame, write, files, seen
  <2>5. FaultsOK'
    BY <1>7, SramFileAssumption DEF TypeOK, FaultsOK, FlushNow, FreeBuffer, ShowFailed, vars, memory, dirty, queue, frame, write, files, seen
  <2>6. told' \in Version /\ sWriteFailed' \in Version
    BY <1>7 DEF TypeOK, FlushNow, ShowFailed
  <2>7. copyTo' \in Buffer /\ sSramSnapshot' \in [Buffer -> Version \cup {Mixed}]
    BY <1>7 DEF TypeOK, FlushNow, FreeBuffer
  <2>8. /\ at' = "copy" /\ sSaveThreadStarted' = TRUE /\ sSramDirty' = FALSE
        /\ UNCHANGED <<on, memory, sQueuedBuffer, sWritingBuffer, write, files, seen>>
    BY <1>7 DEF FlushNow
  <2>1. TypeOK'
    <3>1. /\ on' \in BOOLEAN /\ gSramMem' \in Version /\ saving' \in BOOLEAN /\ made' \in Version
          /\ sQueuedBuffer' \in Buffer \cup {-1} /\ sWritingBuffer' \in Buffer \cup {-1}
      BY <2>8 DEF TypeOK, memory
    <3>2. /\ writer' = writer /\ held' \in Version \cup {None}
          /\ sav' \in File /\ tmp' \in File /\ bak' \in File
          /\ written' \in Version /\ loaded' \in Version
      BY <2>8 DEF TypeOK, write, files, seen
    <3> QED
      BY <2>0, <2>5, <2>6, <2>7, <2>8, <3>1, <3>2 DEF TypeOK
  <2>2. Threads'
    BY <1>7 DEF Threads, TypeOK, FlushNow, FreeBuffer, ShowFailed, vars, memory, dirty, queue, frame, write, files, seen
  <2>3. Sound'
    BY <1>7 DEF Sound, Threads, TypeOK, FlushNow, FreeBuffer, ShowFailed, vars, memory, dirty, queue, frame, write, files, seen
  <2>4. Stopped'
    BY <1>7 DEF Stopped, TypeOK, FlushNow, FreeBuffer, ShowFailed, vars, memory, dirty, queue, frame, write, files, seen
  <2> QED BY <2>1, <2>2, <2>3, <2>4 DEF Inv
<1>8. CASE QueueSnapshot
  <2>0. FramesOK'
    BY <1>8, Frames DEF TypeOK, FramesOK, QueueSnapshot, vars, memory, dirty, queue, frame, write, files, seen
  <2>5. FaultsOK'
    BY <1>8, SramFileAssumption DEF TypeOK, FaultsOK, QueueSnapshot, vars, memory, dirty, queue, frame, write, files, seen
  <2>1. TypeOK'
    BY <1>8, <2>0, <2>5 DEF Threads, TypeOK, QueueSnapshot, vars, memory, dirty, queue, frame, write, files, seen
  <2>2. Threads'
    BY <1>8 DEF Threads, TypeOK, QueueSnapshot, vars, memory, dirty, queue, frame, write, files, seen
  <2>3. Sound'
    BY <1>8 DEF Sound, Threads, TypeOK, QueueSnapshot, vars, memory, dirty, queue, frame, write, files, seen
  <2>4. Stopped'
    BY <1>8 DEF Stopped, TypeOK, QueueSnapshot, vars, memory, dirty, queue, frame, write, files, seen
  <2> QED BY <2>1, <2>2, <2>3, <2>4 DEF Inv
<1>9. CASE FlushHere
  <2>0. FramesOK'
    BY <1>9, Frames DEF TypeOK, FramesOK, FlushHere, ShowFailed, vars, memory, dirty, queue, frame, write, files, seen
  <2>5. FaultsOK'
    BY <1>9, SramFileAssumption DEF TypeOK, FaultsOK, FlushHere, ShowFailed, vars, memory, dirty, queue, frame, write, files, seen
  <2>1. TypeOK'
    BY <1>9, <2>0, <2>5 DEF Threads, TypeOK, FlushHere, ShowFailed, vars, memory, dirty, queue, frame, write, files, seen
  <2>2. Threads'
    BY <1>9 DEF Threads, TypeOK, FlushHere, ShowFailed, vars, memory, dirty, queue, frame, write, files, seen
  <2>3. Sound'
    BY <1>9 DEF Sound, Threads, TypeOK, FlushHere, ShowFailed, vars, memory, dirty, queue, frame, write, files, seen
  <2>4. Stopped'
    BY <1>9 DEF Stopped, TypeOK, FlushHere, ShowFailed, vars, memory, dirty, queue, frame, write, files, seen
  <2> QED BY <2>1, <2>2, <2>3, <2>4 DEF Inv
<1>10. CASE TakeSnapshot
  <2>0. FramesOK'
    BY <1>10, Frames DEF TypeOK, FramesOK, TakeSnapshot, vars, memory, dirty, queue, frame, write, files, seen
  <2>5. FaultsOK'
    BY <1>10, SramFileAssumption DEF TypeOK, FaultsOK, TakeSnapshot, vars, memory, dirty, queue, frame, write, files, seen
  <2>1. TypeOK'
    BY <1>10, <2>0, <2>5 DEF Threads, TypeOK, TakeSnapshot, vars, memory, dirty, queue, frame, write, files, seen
  <2>2. Threads'
    BY <1>10 DEF Threads, TypeOK, TakeSnapshot, vars, memory, dirty, queue, frame, write, files, seen
  <2>3. Sound'
    BY <1>10 DEF Sound, Threads, TypeOK, TakeSnapshot, vars, memory, dirty, queue, frame, write, files, seen
  <2>4. Stopped'
    BY <1>10 DEF Stopped, TypeOK, TakeSnapshot, vars, memory, dirty, queue, frame, write, files, seen
  <2> QED BY <2>1, <2>2, <2>3, <2>4 DEF Inv
<1>11. CASE OpenTmp
  <2>0. FramesOK'
    BY <1>11, Frames DEF TypeOK, FramesOK, OpenTmp, WriteStep, CardError, GivesUp, vars, memory, dirty, queue, frame, write, files, seen
  <2>5. FaultsOK'
    BY <1>11, SramFileAssumption DEF TypeOK, FaultsOK, OpenTmp, WriteStep, CardError, GivesUp, vars, memory, dirty, queue, frame, write, files, seen
  <2>1. TypeOK'
    BY <1>11, <2>0, <2>5 DEF Threads, TypeOK, OpenTmp, WriteStep, CardError, GivesUp, vars, memory, dirty, queue, frame, write, files, seen
  <2>2. Threads'
    BY <1>11 DEF Threads, TypeOK, OpenTmp, WriteStep, CardError, GivesUp, vars, memory, dirty, queue, frame, write, files, seen
  <2>3. Sound'
    BY <1>11 DEF Sound, Threads, TypeOK, OpenTmp, WriteStep, CardError, GivesUp, vars, memory, dirty, queue, frame, write, files, seen
  <2>4. Stopped'
    BY <1>11 DEF Stopped, TypeOK, OpenTmp, WriteStep, CardError, GivesUp, vars, memory, dirty, queue, frame, write, files, seen
  <2> QED BY <2>1, <2>2, <2>3, <2>4 DEF Inv
<1>12. CASE WriteTmp
  <2>0. FramesOK'
    BY <1>12, Frames DEF TypeOK, FramesOK, WriteTmp, WriteStep, CardError, GivesUp, vars, memory, dirty, queue, frame, write, files, seen
  <2>5. FaultsOK'
    BY <1>12, SramFileAssumption DEF TypeOK, FaultsOK, WriteTmp, WriteStep, CardError, GivesUp, vars, memory, dirty, queue, frame, write, files, seen
  <2>1. TypeOK'
    BY <1>12, <2>0, <2>5 DEF Threads, TypeOK, WriteTmp, WriteStep, CardError, GivesUp, vars, memory, dirty, queue, frame, write, files, seen
  <2>2. Threads'
    BY <1>12 DEF Threads, TypeOK, WriteTmp, WriteStep, CardError, GivesUp, vars, memory, dirty, queue, frame, write, files, seen
  <2>3. Sound'
    BY <1>12 DEF Sound, Threads, TypeOK, WriteTmp, WriteStep, CardError, GivesUp, vars, memory, dirty, queue, frame, write, files, seen
  <2>4. Stopped'
    BY <1>12 DEF Stopped, TypeOK, WriteTmp, WriteStep, CardError, GivesUp, vars, memory, dirty, queue, frame, write, files, seen
  <2> QED BY <2>1, <2>2, <2>3, <2>4 DEF Inv
<1>13. CASE RemoveBak
  <2>0. FramesOK'
    BY <1>13, Frames DEF TypeOK, FramesOK, RemoveBak, WriteStep, CardError, vars, memory, dirty, queue, frame, write, files, seen
  <2>5. FaultsOK'
    BY <1>13, SramFileAssumption DEF TypeOK, FaultsOK, RemoveBak, WriteStep, CardError, vars, memory, dirty, queue, frame, write, files, seen
  <2>1. TypeOK'
    BY <1>13, <2>0, <2>5 DEF Threads, TypeOK, RemoveBak, WriteStep, CardError, vars, memory, dirty, queue, frame, write, files, seen
  <2>2. Threads'
    BY <1>13 DEF Threads, TypeOK, RemoveBak, WriteStep, CardError, vars, memory, dirty, queue, frame, write, files, seen
  <2>3. Sound'
    BY <1>13 DEF Sound, Threads, TypeOK, RemoveBak, WriteStep, CardError, vars, memory, dirty, queue, frame, write, files, seen
  <2>4. Stopped'
    BY <1>13 DEF Stopped, TypeOK, RemoveBak, WriteStep, CardError, vars, memory, dirty, queue, frame, write, files, seen
  <2> QED BY <2>1, <2>2, <2>3, <2>4 DEF Inv
<1>14. CASE RenameSav
  <2>0. FramesOK'
    BY <1>14, Frames DEF TypeOK, FramesOK, RenameSav, WriteStep, CardError, vars, memory, dirty, queue, frame, write, files, seen
  <2>5. FaultsOK'
    BY <1>14, SramFileAssumption DEF TypeOK, FaultsOK, RenameSav, WriteStep, CardError, vars, memory, dirty, queue, frame, write, files, seen
  <2>1. TypeOK'
    BY <1>14, <2>0, <2>5 DEF Sound, Threads, TypeOK, RenameSav, WriteStep, CardError, vars, memory, dirty, queue, frame, write, files, seen
  <2>2. Threads'
    BY <1>14 DEF Threads, TypeOK, RenameSav, WriteStep, CardError, vars, memory, dirty, queue, frame, write, files, seen
  <2>3. Sound'
    BY <1>14 DEF Sound, Threads, TypeOK, RenameSav, WriteStep, CardError, vars, memory, dirty, queue, frame, write, files, seen
  <2>4. Stopped'
    BY <1>14 DEF Stopped, TypeOK, RenameSav, WriteStep, CardError, vars, memory, dirty, queue, frame, write, files, seen
  <2> QED BY <2>1, <2>2, <2>3, <2>4 DEF Inv
<1>15. CASE RenameTmp
  <2>0. FramesOK'
    BY <1>15, Frames DEF TypeOK, FramesOK, RenameTmp, WriteStep, CardError, GivesUp, vars, memory, dirty, queue, frame, write, files, seen
  <2>5. FaultsOK'
    BY <1>15, SramFileAssumption DEF TypeOK, FaultsOK, RenameTmp, WriteStep, CardError, GivesUp, vars, memory, dirty, queue, frame, write, files, seen
  <2>1. TypeOK'
    BY <1>15, <2>0, <2>5 DEF Sound, Threads, TypeOK, RenameTmp, WriteStep, CardError, GivesUp, vars, memory, dirty, queue, frame, write, files, seen
  <2>2. Threads'
    BY <1>15 DEF Threads, TypeOK, RenameTmp, WriteStep, CardError, GivesUp, vars, memory, dirty, queue, frame, write, files, seen
  <2>3. Sound'
    BY <1>15 DEF Sound, Threads, TypeOK, RenameTmp, WriteStep, CardError, GivesUp, vars, memory, dirty, queue, frame, write, files, seen
  <2>4. Stopped'
    BY <1>15 DEF Stopped, TypeOK, RenameTmp, WriteStep, CardError, GivesUp, vars, memory, dirty, queue, frame, write, files, seen
  <2> QED BY <2>1, <2>2, <2>3, <2>4 DEF Inv
<1>16. CASE WriteEnds
  <2>0. FramesOK'
    BY <1>16, Frames DEF TypeOK, FramesOK, WriteEnds, vars, memory, dirty, queue, frame, write, files, seen
  <2>5. FaultsOK'
    BY <1>16, SramFileAssumption DEF TypeOK, FaultsOK, WriteEnds, vars, memory, dirty, queue, frame, write, files, seen
  <2>1. TypeOK'
    BY <1>16, <2>0, <2>5 DEF Threads, TypeOK, WriteEnds, vars, memory, dirty, queue, frame, write, files, seen
  <2>2. Threads'
    BY <1>16 DEF Threads, TypeOK, WriteEnds, vars, memory, dirty, queue, frame, write, files, seen
  <2>3. Sound'
    BY <1>16 DEF Sound, Threads, TypeOK, WriteEnds, vars, memory, dirty, queue, frame, write, files, seen
  <2>4. Stopped'
    BY <1>16 DEF Stopped, TypeOK, WriteEnds, vars, memory, dirty, queue, frame, write, files, seen
  <2> QED BY <2>1, <2>2, <2>3, <2>4 DEF Inv
<1>17. CASE UNCHANGED vars
  BY <1>17 DEF TypeOK, FramesOK, FaultsOK, Threads, Sound, Stopped, vars, memory, dirty, queue, frame, write, files, seen
<1> QED
  BY <1>1, <1>2, <1>3, <1>4, <1>5, <1>6, <1>7, <1>8, <1>9, <1>10, <1>11, <1>12, <1>13, <1>14, <1>15, <1>16, <1>17
     DEF Next, PowerCut, Exit, Game, Flush, SaveThread

(***************************************************************************)
(* Versions rise: a start finds no less than was written (CutTwice), and    *)
(* from there on every hand passes on what it got.                          *)
(***************************************************************************)

LEMMA RisingInit == Init => Rising
  BY SramFileAssumption DEF Init, Rising, Good, Newest, Larger, Whole

LEMMA GoodBefore == Inv /\ [Next]_vars /\ Good' => Good
<1> SUFFICES ASSUME Inv, [Next]_vars, Good' PROVE Good
  OBVIOUS
<1>1. CASE Dies
  BY <1>1 DEF Inv, TypeOK, FaultsOK, Dies, Good
<1>2. CASE SaveThread
  BY <1>2 DEF Inv, TypeOK, FaultsOK, SaveThread, TakeSnapshot, OpenTmp, WriteTmp, RemoveBak,
     RenameSav, RenameTmp, WriteEnds, WriteStep, CardError, Good
<1>3. CASE Boot \/ Game \/ Flush
  BY <1>3 DEF Boot, Game, SramWrite, SramReadBack, NoSramWrite, Flush, FlushLater, FlushNow,
     QueueSnapshot, FlushHere, Good
<1>4. CASE UNCHANGED vars
  BY <1>4 DEF vars, Good
<1> QED
  BY <1>1, <1>2, <1>3, <1>4 DEF Next, PowerCut, Exit

LEMMA RisingStep == Inv /\ Rising /\ CutTwice /\ [Next]_vars => Rising'
<1> SUFFICES ASSUME Inv, Rising, CutTwice, [Next]_vars PROVE Rising'
  OBVIOUS
<1>0. /\ Good' => Good
      /\ gSramMem \in Int /\ made \in Int /\ written \in Int /\ loaded \in Int
      /\ CHUNKS \in Int /\ CHUNKS > 0
  BY GoodBefore, Versions, SramFileAssumption DEF Inv, TypeOK
<1> USE Versions DEF Inv, File, Buffer
<1>1. CASE Boot
  <2>1. Good => Loaded \in Int /\ Loaded >= written /\ Loaded <= made
    <3>1. \A file \in {sav, tmp, bak} : Whole(file) => file \in Int
      BY DEF TypeOK, Sound, Whole
    <3>2. Good => Loaded >= written
      BY <1>1 DEF Boot, Good, CutTwice, Settles, Stopped
    <3>3. Good => /\ 0 <= made
                  /\ \A file \in {sav, tmp, bak} : Whole(file) => file <= made
      BY SramFileAssumption DEF Rising, TypeOK, Version
    <3> QED
      BY <1>0, <3>1, <3>2, <3>3 DEF Loaded
  <2>2. /\ gSramMem' = Loaded /\ loaded' = Loaded /\ written' = written /\ made' = made
        /\ writer' = "idle" /\ sQueuedBuffer' = -1 /\ ~ saving'
        /\ UNCHANGED <<sav, tmp, bak>>
    BY <1>1 DEF Boot, Stopped, memory, queue, write, files
  <2> QED
    BY <1>0, <2>1, <2>2 DEF Rising, Newest, Larger, Whole
<1>2. CASE Dies
  BY <1>0, <1>2 DEF Rising, Good, Newest, Larger, Whole, CutTwice, Settles, TypeOK, Threads, Sound, Stopped, Dies, Halfway, memory, dirty, queue, frame, write, files, seen
<1>3. CASE SramWrite
  <2>1. /\ gSramMem' \in Int /\ made' \in Int /\ made' >= made
        /\ gSramMem' <= made' /\ (saving' => gSramMem' < made')
        /\ saving \/ gSramMem' > made
        /\ saving => gSramMem' = gSramMem + 1
    <3>1. gSramMem' \in Int /\ made' \in Int /\ (saving' => gSramMem' # made')
      BY <1>3, Versions DEF SramWrite, NextChunk
    <3>2. CASE saving
      <4>1. gSramMem' = gSramMem + 1 /\ made' = made /\ gSramMem < made
        BY <1>3, <3>2 DEF SramWrite, NextChunk, Rising
      <4> QED
        BY <1>0, <3>1, <3>2, <4>1
    <3>3. CASE ~ saving
      <4>1. gSramMem' = made + 1 /\ made' = made + CHUNKS
        BY <1>3, <3>3 DEF SramWrite, NextChunk
      <4> QED
        BY <1>0, <3>1, <3>3, <4>1
    <3> QED
      BY <3>2, <3>3
  <2>2. /\ Good => gSramMem' >= gSramMem
        /\ Good => gSramMem' >= Newest
    BY <1>0, <1>3, <2>1 DEF SramWrite, Rising, Newest, Larger
  <2>3. UNCHANGED <<on, queue, copyTo, write, files, seen, cuts, errors>> /\ on
    BY <1>3 DEF SramWrite
  <2>4. /\ writer # "idle" => held \in Int
        /\ sQueuedBuffer # -1 /\ sQueuedBuffer # copyTo => sSramSnapshot[sQueuedBuffer] \in Int
        /\ \A file \in {sav, tmp, bak} : Whole(file) => file \in Int
    BY DEF TypeOK, Threads, Sound, Whole
  <2>5. Newest' = Newest /\ Newest \in Int /\ (Good' => Good)
    BY <1>0, <2>3 DEF Newest, Larger, seen
  <2>6. /\ written' = written /\ loaded' = loaded /\ writer' = writer /\ held' = held
        /\ sav' = sav /\ tmp' = tmp /\ bak' = bak /\ on' = on
        /\ sQueuedBuffer' = sQueuedBuffer /\ copyTo' = copyTo /\ sSramSnapshot' = sSramSnapshot
    BY <2>3 DEF queue, write, files, seen
  <2>7. Good => /\ written <= made' /\ loaded <= made'
                /\ \A file \in {sav, tmp, bak} : Whole(file) => file <= made'
    <3>1. Good => /\ written <= made /\ loaded <= made
                  /\ \A file \in {sav, tmp, bak} : Whole(file) => file <= made
      BY DEF Rising
    <3>2. made \in Int /\ made' \in Int /\ made <= made' /\ written \in Int /\ loaded \in Int
      BY <1>0, <2>1
    <3>3. ASSUME NEW file \in {sav, tmp, bak}, Good, Whole(file) PROVE file <= made'
      <4>1. file \in Int /\ file <= made
        BY <2>4, <3>1, <3>3
      <4> QED
        BY <3>2, <4>1
    <3>4. Good => written <= made' /\ loaded <= made'
      BY <3>1, <3>2
    <3> QED
      BY <3>3, <3>4
  <2>8. Good /\ writer # "idle" => held <= gSramMem'
    BY <1>0, <2>1, <2>2, <2>4 DEF Rising
  <2>9. Good /\ sQueuedBuffer # -1 /\ sQueuedBuffer # copyTo =>
          sSramSnapshot[sQueuedBuffer] <= gSramMem'
    BY <1>0, <2>1, <2>2, <2>4 DEF Rising
  <2> QED
    BY <2>1, <2>2, <2>5, <2>6, <2>7, <2>8, <2>9 DEF Rising, Whole
<1>4. CASE SramReadBack
  BY <1>0, <1>4 DEF Rising, Good, Newest, Larger, Whole, CutTwice, Settles, TypeOK, Threads, Sound, Stopped, SramReadBack, memory, dirty, queue, frame, write, files, seen
<1>5. CASE NoSramWrite
  BY <1>0, <1>5 DEF Rising, Good, Newest, Larger, Whole, CutTwice, Settles, TypeOK, Threads, Sound, Stopped, NoSramWrite, memory, dirty, queue, frame, write, files, seen
<1>6. CASE FlushLater
  BY <1>0, <1>6 DEF Rising, Good, Newest, Larger, Whole, CutTwice, Settles, TypeOK, Threads, Sound, Stopped, FlushLater, memory, dirty, queue, frame, write, files, seen
<1>7. CASE FlushNow
  BY <1>0, <1>7 DEF Rising, Good, Newest, Larger, Whole, CutTwice, Settles, TypeOK, Threads, Sound, Stopped, FlushNow, FreeBuffer, memory, dirty, queue, frame, write, files, seen
<1>8. CASE QueueSnapshot
  BY <1>0, <1>8 DEF Rising, Good, Newest, Larger, Whole, CutTwice, Settles, TypeOK, Threads, Sound, Stopped, QueueSnapshot, memory, dirty, queue, frame, write, files, seen
<1>9. CASE FlushHere
  BY <1>0, <1>9 DEF Rising, Good, Newest, Larger, Whole, CutTwice, Settles, TypeOK, Threads, Sound, Stopped, FlushHere, memory, dirty, queue, frame, write, files, seen
<1>10. CASE TakeSnapshot
  BY <1>0, <1>10 DEF Rising, Good, Newest, Larger, Whole, CutTwice, Settles, TypeOK, Threads, Sound, Stopped, TakeSnapshot, memory, dirty, queue, frame, write, files, seen
<1>11. CASE OpenTmp
  BY <1>0, <1>11 DEF Rising, Good, Newest, Larger, Whole, CutTwice, Settles, TypeOK, Threads, Sound, Stopped, OpenTmp, WriteStep, CardError, GivesUp, memory, dirty, queue, frame, write, files, seen
<1>12. CASE WriteTmp
  BY <1>0, <1>12 DEF Rising, Good, Newest, Larger, Whole, CutTwice, Settles, TypeOK, Threads, Sound, Stopped, WriteTmp, WriteStep, CardError, GivesUp, memory, dirty, queue, frame, write, files, seen
<1>13. CASE RemoveBak
  BY <1>0, <1>13 DEF Rising, Good, Newest, Larger, Whole, CutTwice, Settles, TypeOK, Threads, Sound, Stopped, RemoveBak, WriteStep, CardError, memory, dirty, queue, frame, write, files, seen
<1>14. CASE RenameSav
  BY <1>0, <1>14 DEF Rising, Good, Newest, Larger, Whole, CutTwice, Settles, TypeOK, Threads, Sound, Stopped, RenameSav, WriteStep, CardError, memory, dirty, queue, frame, write, files, seen
<1>15. CASE RenameTmp
  BY <1>0, <1>15 DEF Rising, Good, Newest, Larger, Whole, CutTwice, Settles, TypeOK, Threads, Sound, Stopped, RenameTmp, WriteStep, CardError, GivesUp, memory, dirty, queue, frame, write, files, seen
<1>16. CASE WriteEnds
  BY <1>0, <1>16 DEF Rising, Good, Newest, Larger, Whole, CutTwice, Settles, TypeOK, Threads, Sound, Stopped, WriteEnds, memory, dirty, queue, frame, write, files, seen
<1>17. CASE UNCHANGED vars
  BY <1>17 DEF Rising, Good, Newest, Whole, vars, memory, dirty, queue, frame, write, files, seen
<1> QED
  BY <1>1, <1>2, <1>3, <1>4, <1>5, <1>6, <1>7, <1>8, <1>9, <1>10, <1>11, <1>12, <1>13, <1>14, <1>15, <1>16, <1>17
     DEF Next, PowerCut, Exit, Game, Flush, SaveThread

(***************************************************************************)
(* The files at each step of the swap.                                     *)
(***************************************************************************)

LEMMA SafeInit == Init => Safe
  BY SramFileAssumption DEF Init, Safe, Swap, Uncut, CutOnce, CutTwice, Newest, Larger, Loaded, Whole

LEMMA SafeStep == Inv /\ Rising /\ Safe /\ [Next]_vars => Safe'
<1> SUFFICES ASSUME Inv, Rising, Safe, [Next]_vars PROVE Safe'
  OBVIOUS
<1>0. /\ written \in Nat /\ loaded \in Nat /\ cuts \in Nat /\ errors \in Nat
      /\ (writer # "idle" => held \in Nat /\ held # None /\ held # Cut)
      /\ \A file \in {sav, tmp, bak} : Whole(file) <=> file \in Nat
      /\ sav # Cut /\ bak # Cut
      /\ writer \in {"removeBak", "renameSav", "renameTmp"} => tmp = held
      /\ ~ on => writer = "idle"
  BY Versions, SramFileAssumption DEF Inv, TypeOK, FaultsOK, Threads, Sound, Stopped, Whole, File
<1>00. errors = 0 /\ cuts <= 2 /\ writer # "idle" => written <= held /\ loaded <= held
  BY <1>0 DEF Rising, Good, Newest, Larger
<1> USE Versions DEF Safe
<1>1. CASE Boot
  <2>1. Swap'
    BY <1>0, <1>00, <1>1 DEF Swap, Uncut, CutOnce, CutTwice, Newest, Larger, Loaded, Whole, Settles, Boot, write, files, seen
  <2>2. Uncut'
    BY <1>0, <1>00, <1>1 DEF Swap, Uncut, CutOnce, CutTwice, Newest, Larger, Loaded, Whole, Settles, Boot, write, files, seen
  <2>3. CutOnce'
    BY <1>0, <1>00, <1>1 DEF Swap, Uncut, CutOnce, CutTwice, Newest, Larger, Loaded, Whole, Settles, Boot, write, files, seen
  <2>4. CutTwice'
    BY <1>0, <1>00, <1>1 DEF Swap, Uncut, CutOnce, CutTwice, Newest, Larger, Loaded, Whole, Settles, Boot, write, files, seen
  <2> QED BY <2>1, <2>2, <2>3, <2>4
<1>2. CASE Dies
  <2>0. /\ writer' = "idle" /\ errors' = errors /\ UNCHANGED <<sav, tmp, bak, written, loaded>>
        /\ IF Settles THEN cuts' = cuts ELSE cuts' = cuts + 1
    BY <1>2 DEF Dies, Halfway, Settles, files, seen
  <2>1. Swap'
    BY <2>0 DEF Swap
  <2>2. Uncut'
    BY <1>0, <2>0 DEF Uncut, Settles, Newest, Whole
  <2>5. errors = 0 /\ cuts = 0 => Loaded >= Newest
    BY <1>0, <1>00 DEF Uncut, Newest, Larger, Loaded, Whole
  <2>6. errors = 0 /\ cuts <= 1 => Loaded >= written
    BY <1>0, <1>00 DEF CutOnce, Loaded, Whole
  <2>7. Loaded' = Loaded /\ Newest' = Newest /\ Settles' /\ Whole(tmp)' = Whole(tmp)
    BY <2>0 DEF Loaded, Newest, Settles, Whole
  <2>8. errors = 0 /\ cuts <= 1 /\ cuts' <= 1 /\ sav = None =>
          written = 0 \/ (bak # None /\ bak >= written)
    <3>1. CASE cuts = 0
      <4>1. Newest = 0 => written = 0
        BY <1>0 DEF Newest, Larger
      <4> QED
        BY <3>1, <4>1 DEF Uncut
    <3>2. CASE Settles
      BY <3>2 DEF CutOnce, Settles
    <3> QED
      BY <1>0, <2>0, <3>1, <3>2
  <2>3. CutOnce'
    BY <1>0, <2>0, <2>5, <2>7, <2>8 DEF CutOnce
  <2>4. CutTwice'
    BY <1>0, <2>0, <2>6, <2>7 DEF CutTwice
  <2> QED BY <2>1, <2>2, <2>3, <2>4
<1>3. CASE Game
  <2>1. Swap'
    BY <1>0, <1>00, <1>3 DEF Swap, Uncut, CutOnce, CutTwice, Newest, Larger, Loaded, Whole, Settles, Game, SramWrite, SramReadBack, NoSramWrite, write, files, seen
  <2>2. Uncut'
    BY <1>0, <1>00, <1>3 DEF Swap, Uncut, CutOnce, CutTwice, Newest, Larger, Loaded, Whole, Settles, Game, SramWrite, SramReadBack, NoSramWrite, write, files, seen
  <2>3. CutOnce'
    BY <1>0, <1>00, <1>3 DEF Swap, Uncut, CutOnce, CutTwice, Newest, Larger, Loaded, Whole, Settles, Game, SramWrite, SramReadBack, NoSramWrite, write, files, seen
  <2>4. CutTwice'
    BY <1>0, <1>00, <1>3 DEF Swap, Uncut, CutOnce, CutTwice, Newest, Larger, Loaded, Whole, Settles, Game, SramWrite, SramReadBack, NoSramWrite, write, files, seen
  <2> QED BY <2>1, <2>2, <2>3, <2>4
<1>4. CASE Flush
  <2>0. /\ UNCHANGED <<sav, tmp, bak, written, loaded, cuts, errors>>
        /\ writer' = writer \/ (writer = "idle" /\ writer' = "open")
    <3>1. CASE FlushHere
      <4>1. writer = "idle"
        BY <3>1 DEF FlushHere, Inv, Threads
      <4> QED
        BY <3>1, <4>1 DEF FlushHere, files, seen
    <3>2. CASE FlushLater \/ FlushNow \/ QueueSnapshot
      BY <3>2 DEF FlushLater, FlushNow, QueueSnapshot, files, seen, write
    <3> QED
      BY <1>4, <3>1, <3>2 DEF Flush
  <2>5. Loaded' = Loaded /\ Newest' = Newest /\ Whole(tmp)' = Whole(tmp)
    BY <2>0 DEF Loaded, Newest, Whole
  <2>1. Swap'
    BY <2>0 DEF Swap
  <2>2. Uncut'
    BY <2>0, <2>5 DEF Uncut, Settles
  <2>3. CutOnce'
    BY <2>0, <2>5 DEF CutOnce, Settles
  <2>4. CutTwice'
    BY <2>0, <2>5 DEF CutTwice, Settles
  <2> QED BY <2>1, <2>2, <2>3, <2>4
<1>5. CASE TakeSnapshot
  <2>1. Swap'
    BY <1>0, <1>00, <1>5 DEF Swap, Uncut, CutOnce, CutTwice, Newest, Larger, Loaded, Whole, Settles, TakeSnapshot, write, files, seen
  <2>2. Uncut'
    BY <1>0, <1>00, <1>5 DEF Swap, Uncut, CutOnce, CutTwice, Newest, Larger, Loaded, Whole, Settles, TakeSnapshot, write, files, seen
  <2>3. CutOnce'
    BY <1>0, <1>00, <1>5 DEF Swap, Uncut, CutOnce, CutTwice, Newest, Larger, Loaded, Whole, Settles, TakeSnapshot, write, files, seen
  <2>4. CutTwice'
    BY <1>0, <1>00, <1>5 DEF Swap, Uncut, CutOnce, CutTwice, Newest, Larger, Loaded, Whole, Settles, TakeSnapshot, write, files, seen
  <2> QED BY <2>1, <2>2, <2>3, <2>4
<1>6. CASE OpenTmp
  <2>1. Swap'
    BY <1>0, <1>00, <1>6 DEF Swap, Uncut, CutOnce, CutTwice, Newest, Larger, Loaded, Whole, Settles, OpenTmp, WriteStep, CardError, GivesUp, write, files, seen
  <2>2. Uncut'
    BY <1>0, <1>00, <1>6 DEF Swap, Uncut, CutOnce, CutTwice, Newest, Larger, Loaded, Whole, Settles, OpenTmp, WriteStep, CardError, GivesUp, write, files, seen
  <2>3. CutOnce'
    BY <1>0, <1>00, <1>6 DEF Swap, Uncut, CutOnce, CutTwice, Newest, Larger, Loaded, Whole, Settles, OpenTmp, WriteStep, CardError, GivesUp, write, files, seen
  <2>4. CutTwice'
    BY <1>0, <1>00, <1>6 DEF Swap, Uncut, CutOnce, CutTwice, Newest, Larger, Loaded, Whole, Settles, OpenTmp, WriteStep, CardError, GivesUp, write, files, seen
  <2> QED BY <2>1, <2>2, <2>3, <2>4
<1>7. CASE WriteTmp
  <2>0. /\ (tmp' = held /\ writer' = "removeBak") \/ errors' # 0
        /\ UNCHANGED <<sav, bak, written, loaded, cuts>> /\ writer = "write"
        /\ errors' = 0 => errors = 0
    BY <1>0, <1>7 DEF WriteTmp, WriteStep, CardError, GivesUp, Inv, Threads
  <2>1. Swap'
    BY <1>0, <2>0 DEF Swap
  <2>2. Uncut'
    BY <1>0, <2>0 DEF Uncut, Newest, Settles
  <2>3. CutOnce'
    BY <1>0, <1>00, <2>0 DEF CutOnce, Whole, Settles
  <2>4. CutTwice'
    BY <1>0, <2>0 DEF CutTwice, Settles
  <2> QED BY <2>1, <2>2, <2>3, <2>4
<1>8. CASE RemoveBak
  <2>1. Swap'
    BY <1>0, <1>00, <1>8 DEF Swap, Uncut, CutOnce, CutTwice, Newest, Larger, Loaded, Whole, Settles, RemoveBak, WriteStep, CardError, write, files, seen
  <2>2. Uncut'
    BY <1>0, <1>00, <1>8 DEF Swap, Uncut, CutOnce, CutTwice, Newest, Larger, Loaded, Whole, Settles, RemoveBak, WriteStep, CardError, write, files, seen
  <2>3. CutOnce'
    BY <1>0, <1>00, <1>8 DEF Swap, Uncut, CutOnce, CutTwice, Newest, Larger, Loaded, Whole, Settles, RemoveBak, WriteStep, CardError, write, files, seen
  <2>4. CutTwice'
    BY <1>0, <1>00, <1>8 DEF Swap, Uncut, CutOnce, CutTwice, Newest, Larger, Loaded, Whole, Settles, RemoveBak, WriteStep, CardError, write, files, seen
  <2> QED BY <2>1, <2>2, <2>3, <2>4
<1>9. CASE RenameSav
  <2>1. Swap'
    BY <1>0, <1>00, <1>9 DEF Swap, Uncut, CutOnce, CutTwice, Newest, Larger, Loaded, Whole, Settles, RenameSav, WriteStep, CardError, write, files, seen
  <2>2. Uncut'
    BY <1>0, <1>00, <1>9 DEF Swap, Uncut, CutOnce, CutTwice, Newest, Larger, Loaded, Whole, Settles, RenameSav, WriteStep, CardError, write, files, seen
  <2>3. CutOnce'
    BY <1>0, <1>00, <1>9 DEF Swap, Uncut, CutOnce, CutTwice, Newest, Larger, Loaded, Whole, Settles, RenameSav, WriteStep, CardError, write, files, seen
  <2>4. CutTwice'
    BY <1>0, <1>00, <1>9 DEF Swap, Uncut, CutOnce, CutTwice, Newest, Larger, Loaded, Whole, Settles, RenameSav, WriteStep, CardError, write, files, seen
  <2> QED BY <2>1, <2>2, <2>3, <2>4
<1>10. CASE RenameTmp
  <2>1. Swap'
    BY <1>0, <1>00, <1>10 DEF Swap, Uncut, CutOnce, CutTwice, Newest, Larger, Loaded, Whole, Settles, RenameTmp, WriteStep, CardError, GivesUp, write, files, seen
  <2>2. Uncut'
    BY <1>0, <1>00, <1>10 DEF Swap, Uncut, CutOnce, CutTwice, Newest, Larger, Loaded, Whole, Settles, RenameTmp, WriteStep, CardError, GivesUp, write, files, seen
  <2>3. CutOnce'
    BY <1>0, <1>00, <1>10 DEF Swap, Uncut, CutOnce, CutTwice, Newest, Larger, Loaded, Whole, Settles, RenameTmp, WriteStep, CardError, GivesUp, write, files, seen
  <2>4. CutTwice'
    BY <1>0, <1>00, <1>10 DEF Swap, Uncut, CutOnce, CutTwice, Newest, Larger, Loaded, Whole, Settles, RenameTmp, WriteStep, CardError, GivesUp, write, files, seen
  <2> QED BY <2>1, <2>2, <2>3, <2>4
<1>11. CASE WriteEnds
  <2>1. Swap'
    BY <1>0, <1>00, <1>11 DEF Swap, Uncut, CutOnce, CutTwice, Newest, Larger, Loaded, Whole, Settles, WriteEnds, write, files, seen
  <2>2. Uncut'
    BY <1>0, <1>00, <1>11 DEF Swap, Uncut, CutOnce, CutTwice, Newest, Larger, Loaded, Whole, Settles, WriteEnds, write, files, seen
  <2>3. CutOnce'
    BY <1>0, <1>00, <1>11 DEF Swap, Uncut, CutOnce, CutTwice, Newest, Larger, Loaded, Whole, Settles, WriteEnds, write, files, seen
  <2>4. CutTwice'
    BY <1>0, <1>00, <1>11 DEF Swap, Uncut, CutOnce, CutTwice, Newest, Larger, Loaded, Whole, Settles, WriteEnds, write, files, seen
  <2> QED BY <2>1, <2>2, <2>3, <2>4
<1>12. CASE UNCHANGED vars
  BY <1>12 DEF Swap, Uncut, CutOnce, CutTwice, Newest, Larger, Loaded, Whole, Settles, vars, write, files, seen
<1> QED
  BY <1>1, <1>2, <1>3, <1>4, <1>5, <1>6, <1>7, <1>8, <1>9, <1>10, <1>11, <1>12
     DEF Next, PowerCut, Exit, SaveThread

(***************************************************************************)
(* A card that fails.  A save outlives two failed operations because each   *)
(* takes away one of the places it is kept in, and a write that succeeds    *)
(* gives them back.                                                        *)
(***************************************************************************)

\* A snapshot waits in the queue, and is not being replaced.
Queued == sQueuedBuffer # -1 /\ sQueuedBuffer # copyTo

\* There is a save to lose, and the faults that are allowed for.
Lasting == written # 0 /\ cuts = 0 /\ errors <= 2

\* Once a save was made no blank memory follows it: not in the queue, not in the writer, and
\* not after a start.
Remembered ==
  /\ writer # "idle" /\ held # 0 => gSramMem # 0 /\ (Queued => sSramSnapshot[sQueuedBuffer] # 0)
  /\ Queued /\ sSramSnapshot[sQueuedBuffer] # 0 => gSramMem # 0
  /\ Lasting => /\ on => gSramMem # 0
                /\ writer # "idle" => held # 0
                /\ Queued => sSramSnapshot[sQueuedBuffer] # 0

\* The file holds a save: whole, and not blank.
Save(file) == Whole(file) /\ file # 0

\* No write has touched the files, or the write is over with them.
Outside == writer \in {"idle", "open", "end"}

\* How many places a save is kept in, by the failures there were.
Places ==
  Lasting =>
    /\ sav # 0 /\ tmp # 0
    /\ errors = 0 => IF writer = "renameTmp" THEN Save(bak) ELSE sav # None
    /\ errors <= 1 /\ Outside => sav # None \/ (Save(tmp) /\ Save(bak))
    /\ errors <= 1 /\ writer = "write" => sav # None \/ Save(bak)
    /\ Outside => sav # None \/ Save(tmp) \/ Save(bak)

\* What the steps need of Inv.
LEMMA FilesAre ==
  ASSUME Inv
  PROVE  /\ sav \in Version \cup {None} /\ bak \in Version \cup {None} /\ tmp \in Version \cup {None, Cut}
         /\ 0 \in Version /\ Version \subseteq Nat /\ {None, Cut} \cap Version = {} /\ None # Cut
         /\ writer \in {"removeBak", "renameSav", "renameTmp"} => tmp = held
         /\ writer # "idle" => held \in Version
         /\ ~ on => writer = "idle"
         /\ cuts \in Nat /\ errors \in Nat
  BY Versions DEF Inv, TypeOK, FaultsOK, Sound, Threads, Stopped, File

\* A start finds a save.
LEMMA PlacesAreLoaded ==
  ASSUME Inv, Places, Lasting, Outside
  PROVE  Loaded # 0
  <1>1. (Whole(sav) => sav # 0) /\ (Whole(tmp) => tmp # 0)
    BY DEF Places
  <1>2. sav # None => Save(sav)
    BY <1>1, FilesAre DEF Whole, Save
  <1>3. Save(sav) \/ Save(tmp) \/ Save(bak)
    BY <1>2 DEF Places
  <1> QED BY <1>1, <1>3 DEF Loaded, Save

LEMMA RememberedStep ==
  ASSUME Inv, Remembered, Places, [Next]_vars
  PROVE  Remembered'
  <1> USE DEF Remembered, Queued, Lasting
  <1>1. CASE Boot
    <2>1. /\ ~ Queued /\ writer = "idle" /\ UNCHANGED <<queue, copyTo, writer, Lasting>>
      BY <1>1 DEF Boot, Inv, Stopped, frame, write
    <2>2. Lasting => gSramMem' # 0
      BY <1>1, <2>1, PlacesAreLoaded DEF Boot, Outside
    <2> QED BY <2>1, <2>2 DEF queue
  <1>2. CASE Dies
    BY <1>2 DEF Dies
  <1>3. CASE SramWrite
    <2>1. gSramMem' # 0
      BY <1>3, FilesAre DEF SramWrite, NextChunk, Inv, TypeOK
    <2> QED BY <1>3, <2>1 DEF SramWrite, queue, write, seen
  <1>4. CASE SramReadBack \/ NoSramWrite \/ FlushLater
    BY <1>4 DEF SramReadBack, NoSramWrite, FlushLater, memory, queue, write, seen
  <1>5. CASE FlushNow
    <2>1. copyTo = -1
      BY <1>5 DEF FlushNow, Inv, Threads
    <2>2. copyTo' = FreeBuffer /\ \A b \in Buffer : b # copyTo' => sSramSnapshot'[b] = sSramSnapshot[b]
      BY <1>5 DEF FlushNow, Inv, TypeOK
    <2>3. UNCHANGED <<on, gSramMem, sQueuedBuffer, writer, held, written, cuts, errors>>
      BY <1>5 DEF FlushNow, memory, write, seen
    <2>4. sQueuedBuffer \in Buffer \cup {-1}
      BY DEF Inv, TypeOK
    <2> QED BY <2>1, <2>2, <2>3, <2>4
  <1>6. CASE QueueSnapshot
    <2>1. on /\ copyTo \in Buffer /\ sQueuedBuffer' = copyTo /\ sSramSnapshot'[copyTo] = gSramMem
      BY <1>6 DEF QueueSnapshot, Inv, TypeOK, Threads
    <2>2. UNCHANGED <<on, gSramMem, writer, held, written, cuts, errors>>
      BY <1>6 DEF QueueSnapshot, memory, write, seen
    <2> QED BY <2>1, <2>2
  <1>7. CASE FlushHere
    <2>1. sQueuedBuffer' = -1 /\ held' = gSramMem /\ on /\ UNCHANGED <<on, gSramMem, Lasting>>
      BY <1>7 DEF FlushHere, Inv, Threads, memory, queue, seen
    <2> QED BY <2>1
  <1>8. CASE TakeSnapshot
    <2>1. Queued
      BY <1>8 DEF TakeSnapshot, Inv, Threads
    <2>2. /\ sQueuedBuffer' = -1 /\ held' = sSramSnapshot[sQueuedBuffer]
          /\ UNCHANGED <<on, gSramMem, written, cuts, errors>>
      BY <1>8 DEF TakeSnapshot, memory, seen
    <2> QED BY <2>1, <2>2
  <1>9. CASE OpenTmp \/ WriteTmp \/ RemoveBak \/ RenameSav
    <2>1. /\ UNCHANGED <<on, gSramMem, queue, copyTo, held, written, cuts>> /\ writer # "idle"
          /\ errors' = errors \/ errors' = errors + 1
      BY <1>9 DEF OpenTmp, WriteTmp, RemoveBak, RenameSav, WriteStep, CardError, GivesUp, memory, frame
    <2>2. Lasting' => Lasting
      BY <2>1, FilesAre
    <2> QED BY <2>1, <2>2 DEF queue
  <1>10. CASE RenameTmp
    <2>1. /\ UNCHANGED <<on, gSramMem, queue, copyTo, held, cuts>> /\ writer # "idle"
          /\ errors' = errors \/ errors' = errors + 1
          /\ written' \in {written, held}
      BY <1>10 DEF RenameTmp, WriteStep, CardError, GivesUp, memory, frame
    <2>2. Lasting' => Lasting \/ held # 0
      BY <2>1, FilesAre
    <2> QED BY <2>1, <2>2 DEF queue
  <1>11. CASE WriteEnds
    BY <1>11 DEF WriteEnds, memory, seen
  <1>12. CASE UNCHANGED vars
    BY <1>12 DEF vars, memory, queue, frame, write, seen
  <1> QED
    BY <1>1, <1>2, <1>3, <1>4, <1>5, <1>6, <1>7, <1>8, <1>9, <1>10, <1>11, <1>12
    DEF Next, PowerCut, Exit, Game, Flush, SaveThread

LEMMA PlacesStep ==
  ASSUME Inv, Safe, Remembered, Places, [Next]_vars
  PROVE  Places'
  <1> USE DEF Places, Lasting, Outside
  <1>1. ASSUME UNCHANGED <<files, written, cuts, errors>>, writer' = writer \/ (Outside /\ Outside')
        PROVE  Places'
    BY <1>1 DEF files, Save, Whole
  <1>2. CASE Boot \/ Game
    BY <1>1, <1>2 DEF Boot, Game, SramWrite, SramReadBack, NoSramWrite, write, seen
  <1>3. CASE Dies
    <2>1. CASE Halfway
      BY <1>3, <2>1, FilesAre DEF Dies
    <2>2. CASE ~ Halfway
      BY <1>1, <1>3, <2>2 DEF Dies, Halfway, seen
    <2> QED BY <2>1, <2>2
  <1>4. CASE FlushLater \/ FlushNow \/ QueueSnapshot
    BY <1>1, <1>4 DEF FlushLater, FlushNow, QueueSnapshot, write, seen
  <1>5. CASE FlushHere \/ TakeSnapshot \/ WriteEnds
    BY <1>1, <1>5 DEF FlushHere, TakeSnapshot, WriteEnds, seen, Inv, Threads
  <1>6. CASE OpenTmp
    <2>1. /\ writer = "open" /\ UNCHANGED <<sav, bak, written, cuts>>
          /\ \/ tmp' = Cut /\ writer' = "write" /\ errors' = errors
             \/ tmp' = tmp /\ writer' = "end" /\ errors' = errors + 1
      BY <1>6 DEF OpenTmp, WriteStep, CardError, GivesUp
    <2> QED BY <2>1, FilesAre DEF Save, Whole
  <1>7. CASE WriteTmp
    <2>1. /\ writer = "write" /\ UNCHANGED <<sav, bak, written, cuts>>
          /\ \/ tmp' = held /\ writer' = "removeBak" /\ errors' = errors
             \/ tmp' \in {None, Cut} /\ writer' = "end" /\ errors' = errors + 1
      BY <1>7 DEF WriteTmp, WriteStep, CardError, GivesUp, Inv, Threads
    <2>2. Lasting' => held # 0
      BY <2>1, FilesAre DEF Remembered
    <2> QED BY <2>1, <2>2, FilesAre DEF Save, Whole
  <1>8. CASE RemoveBak
    <2>1. /\ writer = "removeBak" /\ writer' = "renameSav" /\ UNCHANGED <<sav, tmp, written, cuts>>
          /\ errors' = errors \/ errors' = errors + 1
      BY <1>8 DEF RemoveBak, WriteStep, CardError
    <2> QED BY <2>1, FilesAre DEF Save, Whole
  <1>9. CASE RenameSav
    <2>1. /\ writer = "renameSav" /\ writer' = "renameTmp" /\ UNCHANGED <<tmp, written, cuts>>
          /\ \/ sav # None /\ bak = None /\ sav' = None /\ bak' = sav /\ errors' = errors
             \/ UNCHANGED <<sav, bak>> /\ errors' = errors + 1
             \/ UNCHANGED <<sav, bak>> /\ (sav = None \/ bak # None) /\ errors' = errors
      BY <1>9 DEF RenameSav, WriteStep, CardError
    <2>2. errors = 0 => bak = None
      BY <2>1 DEF Safe, Swap
    <2> QED BY <2>1, <2>2, FilesAre DEF Save, Whole
  <1>10. CASE RenameTmp
    <2>1. /\ writer = "renameTmp" /\ writer' = "end" /\ UNCHANGED <<bak, cuts>> /\ tmp = held
          /\ \/ sav = None /\ sav' = tmp /\ tmp' = None /\ written' = held /\ errors' = errors
             \/ sav # None /\ UNCHANGED <<sav, tmp, written>> /\ errors' = errors
             \/ sav = None /\ UNCHANGED <<sav, tmp, written>> /\ errors' = errors + 1
      BY <1>10, FilesAre DEF RenameTmp, WriteStep, CardError, GivesUp
    <2>2. Lasting /\ sav = None => Save(tmp)
      BY <2>1, FilesAre DEF Save, Whole
    <2> QED BY <2>1, <2>2, FilesAre DEF Save, Whole
  <1>11. CASE UNCHANGED vars
    BY <1>1, <1>11 DEF vars, write, seen
  <1> QED
    BY <1>2, <1>3, <1>4, <1>5, <1>6, <1>7, <1>8, <1>9, <1>10, <1>11
    DEF Next, PowerCut, Exit, Flush, SaveThread

(***************************************************************************)
(* One card, when at most one thing went wrong on it: what a start would    *)
(* find changes when a snapshot lands, and versions rise to it in order.    *)
(***************************************************************************)

Faults == cuts + errors

\* The .tmp being written is empty; without a fault, no save is under .tmp alone between writes.
Opened ==
  /\ writer = "write" => tmp = Cut
  /\ Faults = 0 /\ sav = None /\ Outside => ~ Whole(tmp)

\* What a start would find, what is written, what is queued and the memory, oldest first.
Ordered ==
  Faults <= 1 =>
    /\ Found <= made
    /\ on => Found <= gSramMem /\ gSramMem <= made
    /\ writer # "idle" => Found <= held /\ held <= gSramMem
    /\ Queued => /\ Found <= sSramSnapshot[sQueuedBuffer] /\ sSramSnapshot[sQueuedBuffer] <= gSramMem
                 /\ writer # "idle" => held <= sSramSnapshot[sQueuedBuffer]

Swaps == OpenTmp \/ WriteTmp \/ RemoveBak \/ RenameSav \/ RenameTmp

\* A step that is none of the swap's, for the files and the writer.
LEMMA Aside ==
  ASSUME Inv, [Next]_vars, ~ Swaps, ~ Dies
  PROVE  /\ UNCHANGED <<files, written, cuts, errors>>
         /\ (writer' = writer /\ held' = held) \/ (Outside /\ Outside')
  <1>1. CASE Boot \/ Game
    BY <1>1 DEF Boot, Game, SramWrite, SramReadBack, NoSramWrite, write, seen
  <1>2. CASE FlushLater \/ FlushNow \/ QueueSnapshot
    BY <1>2 DEF FlushLater, FlushNow, QueueSnapshot, write, seen
  <1>3. CASE FlushHere \/ TakeSnapshot \/ WriteEnds
    BY <1>3 DEF FlushHere, TakeSnapshot, WriteEnds, seen, Inv, Threads, Outside
  <1>4. CASE UNCHANGED vars
    BY <1>4 DEF vars, write, seen
  <1> QED BY <1>1, <1>2, <1>3, <1>4 DEF Next, PowerCut, Exit, Flush, SaveThread, Swaps

\* What the steps of the swap do to the files.
LEMMA SwapFiles ==
  ASSUME Inv, Swaps
  PROVE  /\ UNCHANGED <<on, memory, queue, copyTo, held, cuts>> /\ writer # "idle"
         /\ \/ /\ writer = "open" /\ writer' = "write" /\ tmp' = Cut
               /\ UNCHANGED <<sav, bak, errors>>
            \/ /\ writer = "open" /\ writer' = "end"
               /\ errors' = errors + 1 /\ UNCHANGED files
            \/ /\ writer = "write" /\ writer' = "removeBak" /\ tmp' = held
               /\ UNCHANGED <<sav, bak, errors>>
            \/ /\ writer = "write" /\ writer' = "end" /\ tmp' \in {None, Cut}
               /\ errors' = errors + 1 /\ UNCHANGED <<sav, bak>>
            \/ /\ writer = "removeBak" /\ writer' = "renameSav" /\ UNCHANGED <<sav, tmp>>
               /\ errors' \in {errors, errors + 1}
            \/ /\ writer = "renameSav" /\ writer' = "renameTmp" /\ UNCHANGED tmp
               /\ \/ sav' = None /\ sav # None /\ errors' = errors
                  \/ UNCHANGED sav /\ UNCHANGED bak /\ errors' \in {errors, errors + 1}
            \/ /\ writer = "renameTmp" /\ writer' = "end" /\ UNCHANGED bak
               /\ \/ sav = None /\ sav' = tmp /\ tmp' = None /\ errors' = errors
                  \/ sav # None /\ UNCHANGED <<sav, tmp, errors>>
                  \/ sav = None /\ UNCHANGED <<sav, tmp>> /\ errors' = errors + 1
  <1> USE DEF WriteStep, CardError, GivesUp, memory, queue, files, frame
  <1>1. CASE OpenTmp
    BY <1>1 DEF OpenTmp
  <1>2. CASE WriteTmp
    BY <1>2 DEF WriteTmp, Inv, Threads
  <1>3. CASE RemoveBak
    BY <1>3 DEF RemoveBak
  <1>4. CASE RenameSav
    BY <1>4 DEF RenameSav
  <1>5. CASE RenameTmp
    BY <1>5 DEF RenameTmp
  <1> QED BY <1>1, <1>2, <1>3, <1>4, <1>5 DEF Swaps

LEMMA FaultsRise ==
  ASSUME Inv, [Next]_vars
  PROVE  Faults \in Nat /\ Faults' \in Nat /\ Faults' >= Faults /\ (Dies /\ Halfway => Faults' = Faults + 1)
  <1>1. cuts \in Nat /\ errors \in Nat
    BY FilesAre
  <1>2. CASE Dies
    BY <1>1, <1>2 DEF Dies, Faults
  <1>3. CASE Swaps
    BY <1>1, <1>3, SwapFiles DEF Faults, Dies, Halfway
  <1>4. CASE ~ Dies /\ ~ Swaps
    BY <1>1, <1>4, Aside DEF Faults
  <1> QED BY <1>2, <1>3, <1>4

LEMMA OpenedStep ==
  ASSUME Inv, Inv', Opened, [Next]_vars
  PROVE  Opened'
  <1> USE DEF Opened, Outside
  <1>1. CASE Dies
    <2>1. CASE Halfway
      <3>1. Faults' # 0
        BY <1>1, <2>1, FaultsRise
      <3>2. writer' = "idle"
        BY <1>1 DEF Dies
      <3> QED BY <3>1, <3>2
    <2>2. CASE ~ Halfway
      BY <1>1, <2>2 DEF Dies, Halfway, Faults, files, Whole
    <2> QED BY <2>1, <2>2
  <1>2. CASE Swaps
    BY <1>2, SwapFiles, FilesAre, FaultsRise DEF Faults, files, Whole
  <1>3. CASE ~ Dies /\ ~ Swaps
    BY <1>3, Aside DEF Faults, files, Whole
  <1> QED BY <1>1, <1>2, <1>3

\* What a start would find stays, or a snapshot lands.
LEMMA FoundStep ==
  ASSUME Inv, Inv', Opened, [Next]_vars, Faults' <= 1
  PROVE  Found' = Found \/ (Swaps /\ Halfway /\ Found' = held)
  <1>1. Faults \in Nat /\ Faults' \in Nat /\ Faults <= 1
    BY FaultsRise
  <1>2. CASE Dies
    <2>1. Found' = Loaded
      BY <1>2 DEF Dies, Found, Loaded, files, Whole
    <2>2. Found = Loaded
      BY <1>1, <1>2, FaultsRise DEF Found, Halfway, Faults
    <2> QED BY <2>1, <2>2
  <1>3. CASE Swaps
    BY <1>1, <1>3, SwapFiles, FilesAre DEF Found, Loaded, Whole, Opened, Faults, files, Halfway, Outside
  <1>4. CASE ~ Dies /\ ~ Swaps
    BY <1>4, Aside DEF Found, Loaded, Whole, files, Outside
  <1> QED BY <1>2, <1>3, <1>4

\* Versions, where the numbers are compared.
LEMMA Numbers ==
  ASSUME Inv
  PROVE  /\ gSramMem \in Nat /\ made \in Nat /\ Found \in Version /\ Version \subseteq Nat
         /\ writer # "idle" => held \in Nat
         /\ Queued => sQueuedBuffer \in Buffer /\ sSramSnapshot[sQueuedBuffer] \in Version
  <1>1. Found \in Version
    BY FilesAre DEF Found, Loaded, Whole
  <1>2. Queued => sQueuedBuffer \in Buffer /\ sSramSnapshot[sQueuedBuffer] \in Version
    BY DEF Queued, Inv, TypeOK, Threads
  <1> QED BY <1>1, <1>2, FilesAre DEF Inv, TypeOK

LEMMA OrderedStep ==
  ASSUME Inv, Inv', Rising, Opened, Ordered, [Next]_vars
  PROVE  Ordered'
  <1> SUFFICES ASSUME Faults' <= 1 PROVE Ordered'
    BY DEF Ordered
  <1>1. Faults <= 1 /\ Faults \in Nat
    BY FaultsRise
  <1>2. /\ gSramMem \in Nat /\ made \in Nat /\ Found \in Nat /\ gSramMem' \in Nat /\ made' \in Nat
        /\ writer # "idle" => held \in Nat
        /\ Queued => sSramSnapshot[sQueuedBuffer] \in Nat
    BY Numbers DEF Inv, TypeOK
  <1>3. /\ Found' \in Nat /\ Found' <= made
        /\ on => Found' <= gSramMem
        /\ writer # "idle" => Found' <= held
        /\ Queued => Found' <= sSramSnapshot[sQueuedBuffer]
    <2>1. Found' = Found \/ (Halfway /\ Found' = held)
      BY FoundStep
    <2>2. CASE Found' = Found
      BY <1>1, <1>2, <2>2 DEF Ordered
    <2>3. CASE Halfway /\ Found' = held
      <3>1. writer # "idle" /\ on
        BY <2>3, FilesAre DEF Halfway
      <3> QED BY <1>1, <1>2, <2>3, <3>1 DEF Ordered
    <2> QED BY <2>1, <2>2, <2>3
  <1> USE <1>1, <1>2 DEF Ordered, Queued
  <1>4. CASE Boot
    <2>1. /\ gSramMem' = Loaded /\ writer = "idle" /\ sQueuedBuffer = -1
          /\ UNCHANGED <<made, writer, sQueuedBuffer, files>>
      BY <1>4 DEF Boot, Inv, Stopped, queue, write
    <2>2. Loaded = Found /\ Loaded = Found'
      BY <2>1 DEF Found, Loaded, Whole, files
    <2> QED BY <2>1, <2>2
  <1>5. CASE Dies
    BY <1>3, <1>5 DEF Dies
  <1>6. CASE Swaps
    <2>1. UNCHANGED <<on, gSramMem, made, queue, copyTo, held>> /\ writer # "idle"
      BY <1>6, SwapFiles DEF memory
    <2> QED BY <1>3, <2>1 DEF queue
  <1>7. CASE SramWrite
    <2>1. gSramMem' > gSramMem /\ gSramMem' <= made'
      BY <1>7, SramFileAssumption DEF SramWrite, NextChunk, Rising
    <2>2. UNCHANGED <<on, queue, copyTo, write>>
      BY <1>7 DEF SramWrite
    <2> QED BY <1>3, <1>7, <2>1, <2>2 DEF queue, write, SramWrite
  <1>8. CASE SramReadBack \/ NoSramWrite \/ FlushLater
    BY <1>3, <1>8 DEF SramReadBack, NoSramWrite, FlushLater, memory, queue, write
  <1>9. CASE FlushNow
    <2>1. copyTo' # sQueuedBuffer => sQueuedBuffer = -1 \/ sSramSnapshot'[sQueuedBuffer] = sSramSnapshot[sQueuedBuffer]
      BY <1>9 DEF FlushNow, Inv, TypeOK
    <2>2. UNCHANGED <<on, gSramMem, made, sQueuedBuffer, writer, held>> /\ copyTo = -1
      BY <1>9 DEF FlushNow, memory, write, Inv, Threads
    <2> QED BY <1>3, <2>1, <2>2
  <1>10. CASE QueueSnapshot
    <2>1. on /\ copyTo \in Buffer /\ sQueuedBuffer' = copyTo /\ sSramSnapshot'[copyTo] = gSramMem
      BY <1>10 DEF QueueSnapshot, Inv, TypeOK, Threads
    <2>2. UNCHANGED <<on, gSramMem, made, writer, held>>
      BY <1>10 DEF QueueSnapshot, memory, write
    <2> QED BY <1>3, <2>1, <2>2
  <1>11. CASE FlushHere
    <2>1. /\ sQueuedBuffer' = -1 /\ held' = gSramMem /\ on /\ UNCHANGED <<on, gSramMem, made>>
          /\ writer' = "open"
      BY <1>11 DEF FlushHere, Inv, Threads, memory, queue
    <2> QED BY <1>3, <2>1
  <1>12. CASE TakeSnapshot
    <2>1. /\ Queued /\ sQueuedBuffer' = -1 /\ held' = sSramSnapshot[sQueuedBuffer]
          /\ UNCHANGED <<on, gSramMem, made>> /\ writer' = "open"
      BY <1>12 DEF TakeSnapshot, Inv, Threads, memory
    <2> QED BY <1>3, <2>1
  <1>13. CASE WriteEnds
    BY <1>3, <1>13 DEF WriteEnds, memory
  <1>14. CASE UNCHANGED vars
    BY <1>3, <1>14 DEF vars, memory, queue, frame, write
  <1> QED
    BY <1>4, <1>5, <1>6, <1>7, <1>8, <1>9, <1>10, <1>11, <1>12, <1>13, <1>14
    DEF Next, PowerCut, Exit, Game, Flush, SaveThread, Swaps

(***************************************************************************)
(* Theorems.                                                               *)
(***************************************************************************)

\* The three invariants hold in every state of the program (sram.c as a whole).
THEOREM Holds == Spec => []IInv
<1>1. Init => IInv
  BY InvInit, RisingInit, SafeInit DEF IInv
<1>2. IInv /\ [Next]_vars => IInv'
  BY InvStep, RisingStep, SafeStep DEF IInv, Safe
<1> QED
  BY <1>1, <1>2, PTL DEF Spec

\* Every variable keeps to its type, and the counters of Port_FlushSramIfDirty below their limits.
THEOREM Typed == Spec => []TypeOK
<1>1. IInv => TypeOK
  BY DEF IInv, Inv
<1> QED
  BY <1>1, Holds, PTL

\* No file the loader takes mixes two versions (QueueSnapshot against SaveThreadMain), and
\* mzm.sav itself is never cut short, whatever fails and wherever the power goes.
THEOREM OneVersion == Spec => [](FilesAreOneVersion /\ sav # Cut)
<1>1. IInv => FilesAreOneVersion /\ sav # Cut
  BY DEF IInv, Inv, Sound, FilesAreOneVersion
<1> QED
  BY <1>1, Holds, PTL

\* With one write cut short (SramWriteAtomic), the next start loses nothing; with two, the last
\* save that was written to the end is still found.
THEOREM Cuts == Spec => []CutsLoseLittle
<1>1. ASSUME IInv, errors = 0, ~ on PROVE Settles
  BY <1>1 DEF IInv, Inv, Stopped, Settles
<1>2. ASSUME IInv, errors = 0, ~ on, cuts <= 1 PROVE Loaded >= Larger(written, loaded)
  BY <1>1, <1>2 DEF IInv, Safe, CutOnce, Newest
<1>3. ASSUME IInv, errors = 0, ~ on, cuts <= 2 PROVE Loaded >= written
  BY <1>1, <1>3 DEF IInv, Safe, CutTwice
<1>4. IInv => CutsLoseLittle
  BY <1>2, <1>3 DEF CutsLoseLittle
<1> QED
  BY <1>4, Holds, PTL

\* Two failed operations of the card, at any step of any write, leave a save to start from when
\* no write was cut short (SramWriteAtomic, Port_LoadSram).
THEOREM ErrorsSurvived == Spec => []ErrorsLeaveASave
<1>1. Init => Remembered /\ Places
  BY DEF Init, Remembered, Places, Lasting, Queued
<1>2. IInv /\ Remembered /\ Places /\ [Next]_vars => (Remembered /\ Places)'
  BY RememberedStep, PlacesStep DEF IInv
<1>3. IInv /\ Places => ErrorsLeaveASave
  BY FilesAre, PlacesAreLoaded DEF IInv, ErrorsLeaveASave, Lasting, Outside
<1> QED
  BY <1>1, <1>2, <1>3, Holds, PTL DEF Spec

\* mzm.sav, .tmp and .bak, the two buffers and the two threads are one card with one memory on it
\* (sram.c as a whole), as long as one write was cut short or one operation failed at most: what a
\* start would find changes in one step, to a snapshot that was taken, and never to an older one.
THEOREM OneCard == Spec => ImplementsSaveCard
<1>1. Init => IInv /\ Opened /\ Ordered /\ Card!Init
  <2>1. Init => IInv
    BY InvInit, RisingInit, SafeInit DEF IInv
  <2>2. Init => Loaded = 0 /\ Faults = 0 /\ writer = "idle" /\ Waiting = {}
    BY DEF Init, Loaded, Whole, Faults, Waiting, Halfway
  <2> QED BY <2>1, <2>2 DEF Init, Opened, Ordered, Queued, Card!Init, Found, Faults, Whole
<1>2. IInv /\ Opened /\ Ordered /\ [Next]_vars => IInv' /\ Opened' /\ Ordered'
  BY InvStep, RisingStep, SafeStep, OpenedStep, OrderedStep DEF IInv, Safe
<1>3. ASSUME IInv, IInv', Opened, Ordered, [Next]_vars
      PROVE  [Card!Next]_<<on, gSramMem, Waiting, Found, cuts + errors>>
  <2>1. Faults \in Nat /\ Faults' \in Nat /\ Faults' >= Faults /\ Inv /\ Inv' /\ Rising
    BY <1>3, FaultsRise DEF IInv
  <2> SUFFICES ASSUME Faults' <= 1 PROVE Card!Step \/ UNCHANGED <<on, gSramMem, Waiting, Found, cuts + errors>>
    BY <2>1 DEF Card!Next, Faults
  <2>2. Found' = Found \/ (Swaps /\ Halfway /\ Found' = held)
    BY <1>3, <2>1, FoundStep
  <2>3. Waiting = (IF Queued THEN {sSramSnapshot[sQueuedBuffer]} ELSE {}) \cup (IF Halfway THEN {held} ELSE {})
    BY DEF Waiting, Queued
  <2>4. CASE Boot
    <3>1. ~ on /\ on' /\ gSramMem' = Loaded /\ writer = "idle" /\ UNCHANGED <<queue, copyTo, write, files, cuts, errors>>
      BY <1>3, <2>1, <2>4 DEF Boot, Inv, Stopped, frame
    <3>2. Loaded = Found /\ Found' = Found
      BY <3>1 DEF Found, Loaded, Whole, files, write
    <3>3. Waiting' = Waiting
      BY <3>1 DEF Waiting, Halfway, queue, write
    <3> QED BY <3>1, <3>2, <3>3 DEF Card!Step, Card!Start
  <2>5. CASE Dies
    <3>1. Waiting' = {} /\ ~ on' /\ gSramMem' = 0
      BY <2>5 DEF Dies, Waiting, Halfway
    <3>2. Found' = Found
      <4>1. Found' = Loaded
        BY <2>5 DEF Dies, Found, Loaded, files, Whole
      <4>2. Found = Loaded
        BY <2>1, <2>5, <1>3, FaultsRise DEF Found, Halfway, Faults
      <4> QED BY <4>1, <4>2
    <3> QED BY <3>1, <3>2 DEF Card!Step, Card!Stop
  <2>6. CASE Swaps
    <3>1. on /\ Waiting' \subseteq Waiting /\ UNCHANGED <<on, gSramMem>>
      <4>1. UNCHANGED <<on, gSramMem, queue, copyTo, held>> /\ writer # "idle" /\ on
        BY <2>1, <2>6, SwapFiles, FilesAre DEF memory
      <4>2. Halfway' => Halfway
        BY <2>1, <2>6, SwapFiles DEF Halfway
      <4> QED BY <4>1, <4>2 DEF Waiting, queue
    <3>2. CASE Found' = Found
      BY <3>1, <3>2 DEF Card!Step, Card!Take
    <3>3. CASE Halfway /\ Found' = held
      <4>1. held \in Waiting
        BY <3>3 DEF Waiting
      <4>2. Found <= held
        BY <1>3, <2>1, <3>3 DEF Ordered, Halfway
      <4> QED BY <3>1, <3>3, <4>1, <4>2 DEF Card!Step, Card!Land
    <3> QED BY <2>2, <3>2, <3>3
  <2>7. CASE ~ Boot /\ ~ Dies /\ ~ Swaps
    <3>1. Found' = Found
      BY <2>2, <2>7
    <3>2. UNCHANGED <<cuts, errors>>
      BY <1>3, <2>1, <2>7, Aside
    <3>3. CASE SramWrite
      <4>1. gSramMem \in Nat /\ gSramMem <= made
        BY <1>3, <2>1, <3>3, Numbers DEF Ordered, SramWrite
      <4>2. gSramMem' \in Version /\ gSramMem' > gSramMem
        BY <2>1, <3>3, <4>1 DEF SramWrite, NextChunk, Inv, TypeOK, Version
      <4>3. on /\ UNCHANGED <<on, queue, copyTo, write>>
        BY <3>3 DEF SramWrite
      <4>4. Waiting' = Waiting
        BY <4>3 DEF Waiting, Halfway, queue, write
      <4> QED BY <3>1, <4>2, <4>3, <4>4 DEF Card!Step, Card!Write
    <3>4. CASE SramReadBack \/ NoSramWrite \/ FlushLater \/ UNCHANGED vars
      <4>1. UNCHANGED <<on, gSramMem, queue, copyTo, write>>
        BY <3>4 DEF SramReadBack, NoSramWrite, FlushLater, vars, memory, queue, write, frame
      <4>2. Waiting' = Waiting
        BY <4>1 DEF Waiting, Halfway, queue, write
      <4> QED BY <3>1, <3>2, <4>1, <4>2
    <3>5. on /\ Waiting' \subseteq Waiting \cup {gSramMem} /\ UNCHANGED <<on, gSramMem>> =>
            Card!Step
      BY <3>1 DEF Card!Step, Card!Take
    <3>6. CASE FlushNow
      <4>1. UNCHANGED <<on, gSramMem, sQueuedBuffer, writer, held>> /\ copyTo = -1 /\ on
        BY <2>1, <3>6 DEF FlushNow, memory, write, Inv, Threads
      <4>2. Queued' => Queued /\ sSramSnapshot'[sQueuedBuffer] = sSramSnapshot[sQueuedBuffer]
        BY <2>1, <3>6, <4>1 DEF FlushNow, Inv, TypeOK, Queued
      <4> QED BY <3>5, <4>1, <4>2 DEF Waiting, Queued, Halfway
    <3>7. CASE QueueSnapshot
      <4>1. on /\ copyTo \in Buffer /\ sQueuedBuffer' = copyTo /\ sSramSnapshot'[copyTo] = gSramMem
        BY <2>1, <3>7 DEF QueueSnapshot, Inv, TypeOK, Threads
      <4>2. UNCHANGED <<on, gSramMem, writer, held>>
        BY <3>7 DEF QueueSnapshot, memory, write
      <4> QED BY <3>5, <4>1, <4>2 DEF Waiting, Halfway
    <3>8. CASE FlushHere
      <4>1. sQueuedBuffer' = -1 /\ held' = gSramMem /\ on /\ UNCHANGED <<on, gSramMem>>
        BY <2>1, <3>8 DEF FlushHere, Inv, Threads, memory, queue
      <4> QED BY <3>5, <4>1 DEF Waiting
    <3>9. CASE TakeSnapshot
      <4>1. /\ Queued /\ sQueuedBuffer' = -1 /\ held' = sSramSnapshot[sQueuedBuffer]
            /\ on /\ UNCHANGED <<on, gSramMem>>
        BY <2>1, <3>9 DEF TakeSnapshot, Inv, Threads, Queued, memory
      <4> QED BY <2>3, <3>5, <4>1 DEF Waiting
    <3>10. CASE WriteEnds
      <4>1. writer' = "idle" /\ on /\ UNCHANGED <<on, gSramMem, sSramSnapshot, sQueuedBuffer, copyTo>>
        BY <3>10 DEF WriteEnds, memory
      <4> QED BY <2>3, <3>5, <4>1 DEF Waiting, Queued, Halfway
    <3> QED BY <1>3, <2>7, <3>3, <3>4, <3>6, <3>7, <3>8, <3>9, <3>10 DEF Next, PowerCut, Exit, Game, Flush, SaveThread, Swaps
  <2> QED BY <2>4, <2>5, <2>6, <2>7
<1> QED
  BY <1>1, <1>2, <1>3, PTL DEF Spec, ImplementsSaveCard, Card!Spec

\* While a save goes on, the flush of a frame finds the count of idle frames at zero.
Chunked == saving /\ at # "game" => sDirtyIdleFrames = 0

\* Only the cap queues a snapshot in the middle of a save (Port_FlushSramIfDirty): the chunk of
\* the frame has just started the count of idle frames again.
THEOREM WholeSaves == Spec => WholeUnlessCapped
<1>1. Init => Chunked
  BY DEF Init, Chunked
<1>2. Inv /\ Chunked /\ [Next]_vars => Chunked'
  <2> SUFFICES ASSUME Inv, Chunked, [Next]_vars PROVE Chunked'
    OBVIOUS
  <2>1. CASE Dies \/ Boot \/ NoSramWrite \/ SramReadBack
    BY <2>1 DEF Inv, Stopped, Chunked, Dies, Boot, NoSramWrite, SramReadBack, memory, dirty, frame
  <2>2. CASE SramWrite
    BY <2>2 DEF Chunked, SramWrite
  <2>3. CASE Flush
    BY <2>3 DEF Chunked, Flush, FlushLater, FlushNow, QueueSnapshot, FlushHere, memory, dirty
  <2>4. CASE SaveThread
    BY <2>4 DEF Chunked, SaveThread, TakeSnapshot, OpenTmp, WriteTmp, RemoveBak, RenameSav,
       RenameTmp, WriteEnds, WriteStep, memory, dirty, frame
  <2>5. CASE UNCHANGED vars
    BY <2>5 DEF Chunked, vars, memory, dirty, frame
  <2> QED
    BY <2>1, <2>2, <2>3, <2>4, <2>5 DEF Next, PowerCut, Exit, Game
<1>3. Chunked /\ [Next]_vars => [FlushNow /\ saving => Capped]_vars
  <2> SUFFICES ASSUME Chunked, FlushNow, saving PROVE Capped
    OBVIOUS
  <2>1. sDirtyIdleFrames = 0
    BY DEF Chunked, FlushNow
  <2>2. ~ Settled
    BY <2>1, SramFileAssumption DEF Settled
  <2> QED
    BY <2>2 DEF FlushNow
<1>4. IInv => Inv
  BY DEF IInv
<1> QED
  BY <1>1, <1>2, <1>3, <1>4, Holds, PTL DEF Spec, WholeUnlessCapped
=============================================================================
