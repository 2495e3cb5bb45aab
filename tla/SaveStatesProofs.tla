-------------------------- MODULE SaveStatesProofs --------------------------
(***************************************************************************)
(* Proofs about SaveStates for every number of ids, every clock, every set *)
(* of snapshots and every delay.  What is proved of the list and of the    *)
(* files assumes that nobody stores files over FTP and that every state an *)
(* earlier session left has a readable header: without either it is false. *)
(* The card may fail and the console may be switched off at any step,      *)
(* except where a theorem says that they do not.                           *)
(***************************************************************************)
EXTENDS SaveStates, TLAPS

\* NewFile and SsInfoFromHeader make what they are said to make.
LEMMA NewFileType ==
  ASSUME NEW t \in Time, TypeOK
  PROVE  NewFile(t) \in File /\ NewFile(t).version # 0
  BY SaveStatesAssumption DEF NewFile, File, TypeOK

LEMMA InfoType ==
  ASSUME NEW f \in File, NEW thumb \in BOOLEAN
  PROVE  SsInfoFromHeader(f, thumb) \in Info
  BY SaveStatesAssumption DEF SsInfoFromHeader, Info, File, SsHeaderLoadable

LEMMA ScanType ==
  ASSUME TypeOK
  PROVE  Scan \in [Id -> Info \cup {None}]
  <1>1. \A i \in Id : SsReadEntry(i) => file[i] \in File
    BY DEF SsReadEntry, TypeOK
  <1> QED BY <1>1, InfoType DEF Scan

\* Every variable keeps to its type, in every step.
LEMMA TypeStep ==
  ASSUME TypeOK, ControlInv, [Next]_vars
  PROVE  TypeOK'
  <1> USE DEF TypeOK, ControlInv, Saving
  <1>1. CASE GameFrame
    BY <1>1 DEF GameFrame, card, list, jobVars
  <1>2. CASE Request
    BY <1>2, SaveStatesAssumption DEF Request, SsRequest, card, list, game, jobVars, Jobs
  <1>3. CASE ServiceIdle
    BY <1>3, SaveStatesAssumption DEF ServiceIdle, ServiceBegins, Debounced, card, list, jobVars, game
  <1>4. CASE ServiceDelay
    BY <1>4, SaveStatesAssumption DEF ServiceDelay, ServiceBegins, Debounced, card, list, game
  <1>5. CASE ServiceHold
    <2>1. sJobWaited' \in 0 .. GiveUp + 1
      BY <1>5, SaveStatesAssumption DEF ServiceHold, NeedsGameplay
    <2>2. sJob' \in Jobs /\ sMsg' \in Messages
      BY <1>5 DEF ServiceHold, Jobs, Messages
    <2> QED
      BY <1>5, <2>1, <2>2, SaveStatesAssumption
      DEF ServiceHold, ServiceBegins, Debounced, card, list, game
  <1>6. CASE SsScanNow
    BY <1>6, SaveStatesAssumption, ScanType
    DEF SsScanNow, Due, ServiceBegins, Debounced, JobEnds, card, game, Jobs
  <1>7. CASE SsDoLoad
    <2>1. sMsg' \in Messages /\ sJob' \in Jobs
      BY <1>7 DEF SsDoLoad, JobEnds, Messages, Jobs
    <2>2. avail' \in BOOLEAN /\ live' \in Snap
      <3>1. LoadOutcome(file[sJobId]) = "loaded" => file[sJobId] # None
        BY DEF LoadOutcome
      <3>2. sJobId \in Id
        BY <1>7 DEF SsDoLoad
      <3>3. LoadOutcome(file[sJobId]) = "loaded" => file[sJobId].snap \in Snap
        BY <3>1, <3>2 DEF File
      <3> QED BY <1>7, <3>3 DEF SsDoLoad, game
    <2> QED
      BY <1>7, <2>1, <2>2, SaveStatesAssumption
      DEF SsDoLoad, Due, ServiceBegins, Debounced, JobEnds, card, list
  <1>8. CASE SsDoThumb
    BY <1>8, SaveStatesAssumption
    DEF SsDoThumb, Due, ServiceBegins, Debounced, JobEnds, card, list, game, Jobs
  <1>9. CASE DeleteState
    BY <1>9, SaveStatesAssumption
    DEF DeleteState, Due, ServiceBegins, Debounced, list, jobVars, game
  <1>10. CASE DeleteThumb
    BY <1>10, SaveStatesAssumption DEF DeleteThumb, ThumbRemoved, JobEnds, game, Jobs, Messages
  <1>11. CASE SaveBegin
    <2>1. PICK id \in Id, captured \in BOOLEAN, t \in Time :
            swap' = [id |-> id, pic |-> IF captured THEN live ELSE None, new |-> NewFile(t)]
      BY <1>11 DEF SaveBegin
    <2>2. swap' \in Swap
      BY <2>1, NewFileType DEF Swap
    <2>3. sEntries' \in [Id -> Info \cup {None}]
      BY <1>11, ScanType DEF SaveBegin
    <2> QED
      BY <1>11, <2>2, <2>3, SaveStatesAssumption
      DEF SaveBegin, Due, ServiceBegins, Debounced, card, jobVars, game
  <1>12. CASE SaveWrite
    <2>1. tmp' \in [Id -> File \cup {Torn, None}]
      BY <1>12 DEF SaveWrite, TmpRemoved, Swap
    <2> QED
      BY <1>12, <2>1, SaveStatesAssumption
      DEF SaveWrite, SaveGoesOn, SaveFails, JobEnds, list, jobVars, game, Jobs, Messages
  <1>13. CASE SaveRemoveOld
    BY <1>13, SaveStatesAssumption DEF SaveRemoveOld, SaveGoesOn, list, jobVars, game, Swap
  <1>14. CASE SaveRename
    <2>1. swap.id \in Id
      BY <1>14 DEF SaveRename, Swap
    <2>2. tmp' \in [Id -> File \cup {Torn, None}] /\ file' \in [Id -> File \cup {None}]
      <3>1. pc = "rename" /\ tmp[swap.id] = swap.new /\ swap.new \in File
        BY <1>14 DEF SaveRename, Swap
      <3> QED BY <1>14, <2>1, <3>1 DEF SaveRename, SaveFails, TmpRemoved
    <2>3. swap' \in Swap \cup {None} /\ pc' \in {"thumb", "frame"}
      BY <1>14 DEF SaveRename, SaveGoesOn, SaveFails
    <2> QED
      BY <1>14, <2>2, <2>3, SaveStatesAssumption
      DEF SaveRename, SaveGoesOn, SaveFails, JobEnds, list, jobVars, game, Jobs, Messages
  <1>15. CASE SaveThumb
    <2>1. swap \in Swap /\ swap.id \in Id /\ swap.new \in File /\ swap.pic \in Snap \cup {None}
      BY <1>15 DEF SaveThumb, Swap
    <2>2. thm' \in [Id -> Snap \cup {Torn, None}]
      BY <1>15, <2>1 DEF SaveThumb, ThumbNotWritten, ThumbRemoved
    <2>3. PICK thumb \in BOOLEAN : SaveDone(thumb)
      BY <1>15 DEF SaveThumb
    <2>4. SsInfoFromHeader(swap.new, thumb) \in Info
      BY <2>1, InfoType
    <2> QED
      BY <1>15, <2>2, <2>3, <2>4, SaveStatesAssumption
      DEF SaveThumb, SaveDone, JobEnds, game, Jobs, Messages
  <1>16. CASE PowerCycle
    <2>1. sEntries' \in [Id -> Info \cup {None}]
      BY <1>16 DEF PowerCycle
    <2>2. 0 \in 0 .. JobDelay /\ 0 \in 0 .. GiveUp + 1 /\ 0 \in 0 .. ReadyFrames
      BY SaveStatesAssumption
    <2>3. sJob' \in Jobs /\ sMsg' \in Messages /\ sScanned' \in BOOLEAN /\ avail' \in BOOLEAN
      BY <1>16 DEF PowerCycle, Jobs, Messages
    <2> QED
      BY <1>16, <2>1, <2>2, <2>3 DEF PowerCycle, card
  <1>17. CASE \E i \in Id : FtpStore(i)
    BY <1>17, SaveStatesAssumption DEF FtpStore, list, jobVars, game
  <1>18. CASE UNCHANGED vars
    BY <1>18 DEF vars, card, list, jobVars, game
  <1> QED
    BY <1>1, <1>2, <1>3, <1>4, <1>5, <1>6, <1>7, <1>8, <1>9, <1>10, <1>11, <1>12, <1>13,
       <1>14, <1>15, <1>16, <1>17, <1>18 DEF Next, ServicePending

\* The logic thread is where the job it holds has brought it.
LEMMA ControlStep ==
  ASSUME TypeOK, ControlInv, [Next]_vars
  PROVE  ControlInv'
  <1> USE DEF ControlInv, Saving
  <1>1. CASE GameFrame
    BY <1>1 DEF GameFrame, card, list, jobVars
  <1>2. CASE Request
    BY <1>2, SaveStatesAssumption DEF Request, SsRequest, card, list, game, jobVars
  <1>3. CASE ServiceIdle
    BY <1>3 DEF ServiceIdle, ServiceBegins, card, list, jobVars, game
  <1>4. CASE ServiceDelay
    BY <1>4 DEF ServiceDelay, ServiceBegins, card, list, game
  <1>5. CASE ServiceHold
    <2>1. sJob' # "NONE" => sJobWaited' <= GiveUp
      BY <1>5, SaveStatesAssumption DEF ServiceHold, NeedsGameplay, TypeOK
    <2>2. sJob' \in {sJob, "NONE"}
      BY <1>5 DEF ServiceHold
    <2> QED
      BY <1>5, <2>1, <2>2 DEF ServiceHold, ServiceBegins, card, list, game
  <1>6. CASE SsScanNow
    BY <1>6 DEF SsScanNow, Due, ServiceBegins, JobEnds, card, game
  <1>7. CASE SsDoLoad
    BY <1>7 DEF SsDoLoad, Due, ServiceBegins, JobEnds, card, list
  <1>8. CASE SsDoThumb
    BY <1>8 DEF SsDoThumb, Due, ServiceBegins, JobEnds, card, list, game
  <1>9. CASE DeleteState
    BY <1>9 DEF DeleteState, Due, ServiceBegins, list, jobVars, game
  <1>10. CASE DeleteThumb
    BY <1>10 DEF DeleteThumb, JobEnds, game
  <1>11. CASE SaveBegin
    <2>1. PICK id \in Id, captured \in BOOLEAN, t \in Time :
            /\ IF sJob = "SAVE" THEN IsNextId(id, sEntries') ELSE id = sJobId
            /\ swap' = [id |-> id, pic |-> IF captured THEN live ELSE None, new |-> NewFile(t)]
      BY <1>11 DEF SaveBegin
    <2>2. swap' # None
      <3>1. swap' \in Swap
        BY <2>1, NewFileType DEF Swap, TypeOK
      <3> QED BY <3>1, SaveStatesAssumption
    <2>3. swap'.new.version # 0 /\ swap'.id = id
      BY <2>1, NewFileType
    <2>4. sJob = "SAVE" => sEntries'[id] = None
      BY <2>1, SaveStatesAssumption DEF IsNextId, Listed, Id
    <2> QED
      BY <1>11, <2>1, <2>2, <2>3, <2>4
      DEF SaveBegin, Due, NeedsGameplay, ServiceBegins, card, jobVars, game
  <1>12. CASE SaveWrite
    <2>1. CASE pc' = "frame"
      BY <1>12, <2>1 DEF SaveWrite, SaveGoesOn, SaveFails, JobEnds
    <2>2. CASE pc' = "remove"
      <3>1. tmp' = [tmp EXCEPT ![swap.id] = swap.new] /\ SaveGoesOn("remove")
        BY <1>12, <2>2 DEF SaveWrite, SaveFails
      <3>2. swap.id \in Id
        BY <1>12 DEF SaveWrite, TypeOK, Swap
      <3> QED BY <1>12, <3>1, <3>2 DEF SaveWrite, SaveGoesOn, list, jobVars, TypeOK
    <2> QED BY <1>12, <2>1, <2>2 DEF SaveWrite, SaveGoesOn, SaveFails
  <1>13. CASE SaveRemoveOld
    BY <1>13 DEF SaveRemoveOld, SaveGoesOn, list, jobVars, game
  <1>14. CASE SaveRename
    BY <1>14 DEF SaveRename, SaveGoesOn, SaveFails, JobEnds, list, jobVars, game
  <1>15. CASE SaveThumb
    BY <1>15 DEF SaveThumb, SaveDone, JobEnds, game
  <1>16. CASE PowerCycle
    BY <1>16 DEF PowerCycle, card
  <1>17. CASE \E i \in Id : FtpStore(i)
    BY <1>17 DEF FtpStore, list, jobVars, game
  <1>18. CASE UNCHANGED vars
    BY <1>18 DEF vars, card, list, jobVars, game
  <1> QED
    BY <1>1, <1>2, <1>3, <1>4, <1>5, <1>6, <1>7, <1>8, <1>9, <1>10, <1>11, <1>12, <1>13,
       <1>14, <1>15, <1>16, <1>17, <1>18 DEF Next, ServicePending

LEMMA InitType ==
  ASSUME Init
  PROVE  TypeOK /\ ControlInv
  <1>1. OldFiles \cup {None} \subseteq File \cup {None}
    BY SaveStatesAssumption
  <1>2. 0 \in 0 .. JobDelay /\ 0 \in 0 .. GiveUp + 1 /\ 0 \in 0 .. ReadyFrames
    BY SaveStatesAssumption
  <1>3. file \in [Id -> File \cup {None}]
    BY <1>1 DEF Init
  <1>4. tmp \in [Id -> File \cup {Torn, None}] /\ sEntries \in [Id -> Info \cup {None}]
    BY <1>1 DEF Init
  <1>5. TypeOK
    BY <1>2, <1>3, <1>4 DEF Init, TypeOK, Jobs, Messages
  <1> QED BY <1>5 DEF Init, ControlInv, Saving

\* Every variable keeps to its type, and inside a job the logic thread holds what
\* the job needs: whatever the card, the FTP server and the power switch do.
THEOREM Typed == Spec => [](TypeOK /\ ControlInv)
  <1>1. Init => TypeOK /\ ControlInv
    BY InitType
  <1>2. TypeOK /\ ControlInv /\ [Next]_vars => (TypeOK /\ ControlInv)'
    BY TypeStep, ControlStep
  <1> QED BY <1>1, <1>2, PTL DEF Spec

-----------------------------------------------------------------------------
(* The list and the card, when only the console writes to the card. *)

Undisturbed == FtpWrites = FALSE /\ \A f \in OldFiles : f.version # 0

\* What entry i says of the card: nothing readable is missing, and what is there
\* is described by its header.
EntryTells(i) ==
  /\ SsReadEntry(i) => sEntries[i] # None
  /\ sEntries[i] # None /\ file[i] # None =>
       \E thumb \in BOOLEAN : sEntries[i] = SsInfoFromHeader(file[i], thumb)

\* ListTellsTheCard at every program point: only the entry of a state that has just
\* been renamed in is behind, and a new save's id stays free until then.
ListInv ==
  /\ \A i \in Id : file[i] # None => file[i].version # 0
  /\ sScanned => \A i \in Id : (pc = "thumb" /\ swap.id = i) \/ EntryTells(i)
  /\ pc = "thumb" => file[swap.id] = swap.new
  /\ pc \in {"write", "remove", "rename"} /\ sJob = "SAVE" => file[swap.id] = None

\* A scan tells of every state on the card.
LEMMA ScanTells ==
  ASSUME TypeOK, NEW i \in Id
  PROVE  /\ SsReadEntry(i) => Scan[i] # None
         /\ Scan[i] # None => Scan[i] = SsInfoFromHeader(file[i], thm[i] # None)
  <1>1. SsReadEntry(i) => SsInfoFromHeader(file[i], thm[i] # None) \in Info
    BY InfoType DEF SsReadEntry, TypeOK
  <1> QED BY <1>1, SaveStatesAssumption DEF Scan

\* A step that leaves the card and the list alone leaves what the entries tell.
LEMMA SameTells ==
  ASSUME NEW i \in Id, file'[i] = file[i], sEntries'[i] = sEntries[i]
  PROVE  EntryTells(i)' <=> EntryTells(i)
  BY DEF EntryTells, SsReadEntry, SsInfoFromHeader, SsHeaderLoadable

\* A new save chooses an id no readable state has.
LEMMA NextIdIsFree ==
  ASSUME TypeOK, ListInv, Due, NeedsGameplay, sJob = "SAVE", NEW id \in Id,
         IsNextId(id, IF sScanned THEN sEntries ELSE Scan)
  PROVE  file[id] = None
  <1>1. file[id] # None => SsReadEntry(id)
    BY DEF ListInv, SsReadEntry
  <1>2. pc = "frame"
    BY DEF Due, ServiceBegins
  <1>3. SsReadEntry(id) => (IF sScanned THEN sEntries ELSE Scan)[id] # None
    BY <1>2, ScanTells DEF ListInv, EntryTells
  <1>4. id \notin Listed(IF sScanned THEN sEntries ELSE Scan)
    BY SaveStatesAssumption DEF IsNextId, Id
  <1> QED BY <1>1, <1>3, <1>4 DEF Listed

LEMMA ListStep ==
  ASSUME Undisturbed, TypeOK, ControlInv, ListInv, [Next]_vars
  PROVE  ListInv'
  <1>1. ASSUME UNCHANGED <<file, sEntries, sScanned>>, pc # "thumb", pc' # "thumb",
               pc' \in {"write", "remove", "rename"} /\ sJob' = "SAVE" =>
                 pc \in {"write", "remove", "rename"} /\ sJob = "SAVE" /\ swap'.id = swap.id
        PROVE  ListInv'
    BY <1>1, SameTells DEF ListInv
  <1>2. CASE GameFrame
    BY <1>1, <1>2 DEF GameFrame, card, list, jobVars
  <1>3. CASE Request
    BY <1>1, <1>3 DEF Request, card, list
  <1>4. CASE ServiceIdle \/ ServiceDelay \/ ServiceHold
    BY <1>1, <1>4 DEF ServiceIdle, ServiceDelay, ServiceHold, ServiceBegins, card, list
  <1>5. CASE SsScanNow
    <2>1. sEntries' = Scan /\ file' = file /\ thm' = thm /\ pc' = "frame"
      BY <1>5 DEF SsScanNow, Due, ServiceBegins, card
    <2>2. ASSUME NEW i \in Id PROVE EntryTells(i)'
      BY <2>1, ScanTells DEF EntryTells, SsReadEntry, SsInfoFromHeader, SsHeaderLoadable
    <2> QED BY <2>1, <2>2 DEF ListInv
  <1>6. CASE SsDoLoad \/ SsDoThumb
    BY <1>1, <1>6 DEF SsDoLoad, SsDoThumb, Due, ServiceBegins, card, list
  <1>7. CASE DeleteState
    <2>1. /\ pc' = "deleteThumb" /\ pc = "frame" /\ UNCHANGED <<thm, sEntries, sScanned>>
          /\ \A i \in Id : file'[i] \in {file[i], None}
      BY <1>7 DEF DeleteState, Due, ServiceBegins, list, TypeOK
    <2>2. ASSUME NEW i \in Id, EntryTells(i) PROVE EntryTells(i)'
      BY <2>1, <2>2 DEF EntryTells, SsReadEntry, SsInfoFromHeader, SsHeaderLoadable
    <2> QED BY <2>1, <2>2 DEF ListInv
  <1>8. CASE DeleteThumb
    <2>1. /\ pc' = "frame" /\ pc = "deleteThumb" /\ UNCHANGED <<file, sScanned>>
          /\ \A i \in Id : sEntries'[i] = sEntries[i] \/ (file[i] = None /\ sEntries'[i] = None)
      BY <1>8 DEF DeleteThumb, TypeOK
    <2>2. ASSUME NEW i \in Id, EntryTells(i) PROVE EntryTells(i)'
      BY <2>1, <2>2 DEF EntryTells, SsReadEntry, SsInfoFromHeader, SsHeaderLoadable
    <2> QED BY <2>1, <2>2 DEF ListInv
  <1>9. CASE SaveBegin
    <2> DEFINE entries == IF sScanned THEN sEntries ELSE Scan
    <2>1. PICK id \in Id, captured \in BOOLEAN, t \in Time :
            /\ IF sJob = "SAVE" THEN IsNextId(id, entries) ELSE id = sJobId
            /\ swap' = [id |-> id, pic |-> IF captured THEN live ELSE None, new |-> NewFile(t)]
      BY <1>9 DEF SaveBegin
    <2>2. /\ pc' = "write" /\ pc = "frame" /\ UNCHANGED <<file, thm, sJob>> /\ sEntries' = entries
          /\ Due /\ NeedsGameplay
      BY <1>9 DEF SaveBegin, Due, ServiceBegins, card, jobVars
    <2>3. sJob = "SAVE" => file[swap'.id] = None
      BY <2>1, <2>2, NextIdIsFree
    <2>4. ASSUME NEW i \in Id PROVE EntryTells(i)'
      <3>1. CASE sScanned
        BY <2>2, <3>1, SameTells DEF ListInv
      <3>2. CASE ~ sScanned
        BY <2>2, <3>2, ScanTells DEF EntryTells, SsReadEntry, SsInfoFromHeader, SsHeaderLoadable
      <3> QED BY <3>1, <3>2
    <2> QED BY <2>2, <2>3, <2>4 DEF ListInv
  <1>10. CASE SaveWrite
    BY <1>1, <1>10 DEF SaveWrite, SaveGoesOn, SaveFails, list, jobVars
  <1>11. CASE SaveRemoveOld
    <2>1. /\ pc' = "rename" /\ pc = "remove" /\ UNCHANGED <<thm, sEntries, sScanned, sJob, swap>>
          /\ \A i \in Id : file'[i] \in {file[i], None}
      BY <1>11 DEF SaveRemoveOld, SaveGoesOn, list, jobVars, TypeOK
    <2>2. ASSUME NEW i \in Id, EntryTells(i) PROVE EntryTells(i)'
      BY <2>1, <2>2 DEF EntryTells, SsReadEntry, SsInfoFromHeader, SsHeaderLoadable
    <2>3. swap.id \in Id
      BY <2>1 DEF TypeOK, ControlInv, Saving, Swap
    <2> QED BY <2>1, <2>2, <2>3 DEF ListInv
  <1>12. CASE SaveRename
    <2>1. pc = "rename" /\ UNCHANGED <<thm, sEntries, sScanned>>
      BY <1>12 DEF SaveRename, SaveGoesOn, SaveFails, list
    <2>2. CASE pc' = "frame"
      BY <1>1, <1>12, <2>1, <2>2 DEF SaveRename, SaveGoesOn, SaveFails
    <2>3. CASE pc' = "thumb"
      <3>1. file' = [file EXCEPT ![swap.id] = tmp[swap.id]] /\ UNCHANGED swap
        BY <1>12, <2>3 DEF SaveRename, SaveGoesOn, SaveFails
      <3>2. swap.id \in Id /\ tmp[swap.id] = swap.new /\ swap.new.version # 0
        BY <2>1 DEF TypeOK, ControlInv, Saving, Swap
      <3>3. file'[swap.id] = swap.new /\ \A i \in Id : i # swap.id => file'[i] = file[i]
        BY <3>1, <3>2 DEF TypeOK
      <3>4. \A i \in Id : i # swap.id => (EntryTells(i)' <=> EntryTells(i))
        BY <2>1, <3>3, SameTells
      <3> QED BY <2>1, <2>3, <3>1, <3>2, <3>3, <3>4 DEF ListInv
    <2> QED BY <1>12, <2>2, <2>3 DEF SaveRename, SaveGoesOn, SaveFails
  <1>13. CASE SaveThumb
    <2>1. PICK thumb \in BOOLEAN :
            sEntries' = [sEntries EXCEPT ![swap.id] = SsInfoFromHeader(swap.new, thumb)]
      BY <1>13 DEF SaveThumb, SaveDone
    <2>2. pc = "thumb" /\ pc' = "frame" /\ UNCHANGED <<file, sScanned>>
      BY <1>13 DEF SaveThumb, SaveDone
    <2>3. swap \in Swap /\ swap.id \in Id /\ swap.new \in File
      BY <2>2 DEF TypeOK, ControlInv, Saving, Swap
    <2>4. ASSUME NEW i \in Id, i = swap.id PROVE EntryTells(i)'
      <3>1. SsInfoFromHeader(swap.new, thumb) # None
        BY <2>3, InfoType, SaveStatesAssumption
      <3>2. sEntries'[swap.id] = SsInfoFromHeader(swap.new, thumb) /\ file'[swap.id] = swap.new
        BY <2>1, <2>2, <2>3 DEF TypeOK, ListInv
      <3> QED
        BY <2>4, <3>1, <3>2 DEF EntryTells, SsReadEntry, SsInfoFromHeader, SsHeaderLoadable
    <2>5. ASSUME NEW i \in Id, i # swap.id, EntryTells(i) PROVE EntryTells(i)'
      <3>1. sEntries'[i] = sEntries[i]
        BY <2>1, <2>5 DEF TypeOK
      <3> QED BY <2>2, <2>5, <3>1, SameTells
    <2> QED BY <2>2, <2>4, <2>5 DEF ListInv
  <1>14. CASE PowerCycle
    BY <1>14 DEF PowerCycle, card, ListInv
  <1>15. CASE \E i \in Id : FtpStore(i)
    BY <1>15 DEF FtpStore, Undisturbed
  <1>16. CASE UNCHANGED vars
    <2>1. \A i \in Id : EntryTells(i)' <=> EntryTells(i)
      BY <1>16, SameTells DEF vars, card, list
    <2> QED BY <1>16, <2>1 DEF vars, card, list, jobVars, ListInv
  <1> QED
    BY <1>2, <1>3, <1>4, <1>5, <1>6, <1>7, <1>8, <1>9, <1>10, <1>11, <1>12, <1>13, <1>14, <1>15,
       <1>16 DEF Next, ServicePending

LEMMA ListInit ==
  ASSUME Undisturbed, Init
  PROVE  ListInv
  <1>1. \A i \in Id : file[i] # None => file[i] \in OldFiles
    BY DEF Init
  <1> QED BY <1>1 DEF ListInv, Init, Undisturbed

\* The inductive invariant behind the three theorems that follow.
THEOREM ListStays ==
  ASSUME Undisturbed
  PROVE  Spec => [](TypeOK /\ ControlInv /\ ListInv)
  <1>1. Init => TypeOK /\ ControlInv /\ ListInv
    BY InitType, ListInit
  <1>2. TypeOK /\ ControlInv /\ ListInv /\ [Next]_vars => (TypeOK /\ ControlInv /\ ListInv)'
    BY TypeStep, ControlStep, ListStep
  <1> QED BY <1>1, <1>2, PTL DEF Spec

\* The list in RAM tells what is on the card, although it is read once and patched
\* by every job, and although the console may be switched off inside each of them.
THEOREM ListTells ==
  ASSUME Undisturbed
  PROVE  Spec => []ListTellsTheCard
  <1>1. ListInv => ListTellsTheCard
    BY DEF ListInv, ListTellsTheCard, EntryTells
  <1> QED BY <1>1, ListStays, PTL

\* No new save replaces a state: the id it chooses is free on the card.
THEOREM NewSaveIsNew ==
  ASSUME Undisturbed
  PROVE  Spec => NewSaveTakesAFreeId
  <1> DEFINE A == pc = "frame" /\ pc' = "write" /\ sJob = "SAVE" => file[swap'.id] = None
  <1>1. ASSUME TypeOK, ListInv, Next, pc = "frame", pc' = "write", sJob = "SAVE"
        PROVE  file[swap'.id] = None
    <2>1. SaveBegin
      BY <1>1
      DEF Next, ServicePending, GameFrame, Request, ServiceIdle, ServiceDelay, ServiceHold, SsScanNow,
          SsDoLoad, SsDoThumb, DeleteState, DeleteThumb, SaveWrite, SaveRemoveOld, SaveRename, SaveThumb,
          PowerCycle, FtpStore
    <2>2. PICK id \in Id, captured \in BOOLEAN, t \in Time :
            /\ IsNextId(id, IF sScanned THEN sEntries ELSE Scan)
            /\ swap' = [id |-> id, pic |-> IF captured THEN live ELSE None, new |-> NewFile(t)]
      BY <1>1, <2>1 DEF SaveBegin
    <2>3. Due /\ NeedsGameplay
      BY <2>1 DEF SaveBegin
    <2> QED BY <1>1, <2>2, <2>3, NextIdIsFree
  <1>2. TypeOK /\ ListInv /\ [Next]_vars => [A]_vars
    BY <1>1
  <1> QED BY <1>2, ListStays, PTL DEF Spec, NewSaveTakesAFreeId

\* The LOAD button is offered exactly for the states a load does not refuse by their
\* header: what SsInfoFromHeader keeps in the list, read once, is what SsDoLoad finds.
THEOREM OfferedIsLoadable ==
  ASSUME Undisturbed
  PROVE  Spec => []CompatibleMeansLoadable
  <1>1. ASSUME TypeOK, ListInv, pc = "frame", sScanned, NEW i \in Id, sEntries[i] # None, file[i] # None
        PROVE  sEntries[i].compatible <=> LoadOutcome(file[i]) \in {"loaded", "corrupt"}
    <2>1. file[i] \in File /\ file[i].version # 0
      BY <1>1 DEF TypeOK, ListInv
    <2>2. sEntries[i].compatible = SsHeaderLoadable(file[i])
      <3>1. PICK thumb \in BOOLEAN : sEntries[i] = SsInfoFromHeader(file[i], thumb)
        BY <1>1 DEF ListInv, EntryTells
      <3> QED BY <3>1 DEF SsInfoFromHeader
    <2>3. SsHeaderLoadable(file[i]) <=> LoadOutcome(file[i]) \in {"loaded", "corrupt"}
      BY <1>1, <2>1 DEF SsHeaderLoadable, LoadOutcome, File
    <2> QED BY <2>2, <2>3
  <1>2. TypeOK /\ ListInv => CompatibleMeansLoadable
    BY <1>1 DEF CompatibleMeansLoadable
  <1> QED BY <1>2, ListStays, PTL

-----------------------------------------------------------------------------
(* Whatever the card, the FTP server and the power switch do. *)

\* A state leaves the card only by its own deletion, or once its complete replacement
\* is on the card: that of its own overwrite, or of a new save that the list in RAM
\* made believe that the id was free.
THEOREM NoStateLost == Spec => NoStateIsLost
  <1> DEFINE Allowed(i) == \/ sJob = "DELETE" /\ sJobId = i
                           \/ /\ swap # None /\ swap.id = i /\ tmp[i] = swap.new
                              /\ \/ sJob = "OVERWRITE" /\ sJobId = i
                                 \/ sJob = "SAVE" /\ sScanned /\ sEntries[i] = None
             A == \A i \in Id : file[i] # None /\ file'[i] = None => Allowed(i)
  <1>1. ASSUME TypeOK, ControlInv, Next, NEW i \in Id, file[i] # None, file'[i] = None
        PROVE  Allowed(i)
    <2>1. CASE DeleteState
      BY <1>1, <2>1 DEF DeleteState, TypeOK
    <2>2. CASE SaveRemoveOld
      <3>1. pc = "remove" /\ swap # None /\ swap \in Swap /\ swap.id = i
        BY <1>1, <2>2 DEF SaveRemoveOld, TypeOK, ControlInv, Saving
      <3> QED BY <1>1, <3>1 DEF ControlInv, Saving
    <2>3. CASE SaveRename
      <3>1. pc = "rename" /\ swap.id \in Id /\ tmp[swap.id] = swap.new /\ swap.new \in File
        BY <1>1, <2>3 DEF SaveRename, TypeOK, ControlInv, Saving, Swap
      <3> QED BY <1>1, <2>3, <3>1, SaveStatesAssumption DEF SaveRename, SaveFails, TypeOK
    <2>4. CASE \E j \in Id : FtpStore(j)
      <3>1. PICK j \in Id, f \in OldFiles : file' = [file EXCEPT ![j] = f]
        BY <2>4 DEF FtpStore
      <3> QED BY <1>1, <3>1, SaveStatesAssumption DEF TypeOK
    <2>5. file' = file \/ DeleteState \/ SaveRemoveOld \/ SaveRename \/ \E j \in Id : FtpStore(j)
      BY <1>1
      DEF Next, ServicePending, GameFrame, Request, ServiceIdle, ServiceDelay, ServiceHold, SsScanNow,
          SsDoLoad, SsDoThumb, DeleteThumb, SaveBegin, SaveWrite, SaveGoesOn, SaveFails, SaveThumb, SaveDone,
          PowerCycle, card
    <2> QED BY <1>1, <2>1, <2>2, <2>3, <2>4, <2>5
  <1>2. TypeOK /\ ControlInv /\ [Next]_vars => [A]_vars
    BY <1>1
  <1> QED BY <1>2, Typed, PTL DEF Spec, NoStateIsLost

\* A load applies a whole state of this ROM or build, or leaves the machine alone.
THEOREM LoadWhole == Spec => LoadIsAllOrNothing
  <1> DEFINE A == pc = "frame" /\ sJob = "LOAD" /\ sJob' = "NONE" /\ live' # live /\ sMsg' # "" =>
                    /\ file[sJobId] # None /\ file[sJobId].whole /\ SsHeaderLoadable(file[sJobId])
                    /\ live' = file[sJobId].snap /\ sMsg' = "loaded"
  <1>1. ASSUME TypeOK, ControlInv, Next, pc = "frame", sJob = "LOAD", sJob' = "NONE", live' # live, sMsg' # ""
        PROVE  /\ file[sJobId] # None /\ file[sJobId].whole /\ SsHeaderLoadable(file[sJobId])
               /\ live' = file[sJobId].snap /\ sMsg' = "loaded"
    <2>1. SsDoLoad
      BY <1>1
      DEF Next, ServicePending, GameFrame, Request, SsRequest, ServiceIdle, ServiceDelay, ServiceHold,
          NeedsGameplay, SsScanNow, SsDoThumb, DeleteState, DeleteThumb, SaveBegin, SaveWrite,
          SaveRemoveOld, SaveRename, SaveThumb, SaveDone, PowerCycle, FtpStore, jobVars, game
    <2>2. LoadOutcome(file[sJobId]) = "loaded" /\ live' = file[sJobId].snap /\ sMsg' = "loaded"
      BY <1>1, <2>1 DEF SsDoLoad, JobEnds, game
    <2>3. file[sJobId] # None /\ file[sJobId].whole
      BY <2>2 DEF LoadOutcome
    <2>4. file[sJobId] \in File
      BY <1>1, <2>3 DEF TypeOK, ControlInv
    <2>5. SsHeaderLoadable(file[sJobId])
      BY <2>2, <2>3, <2>4 DEF LoadOutcome, SsHeaderLoadable, File
    <2> QED BY <2>2, <2>3, <2>5
  <1>2. TypeOK /\ ControlInv /\ [Next]_vars => [A]_vars
    BY <1>1
  <1> QED BY <1>2, Typed, PTL DEF Spec, LoadIsAllOrNothing

-----------------------------------------------------------------------------
(* The screenshots.  A console switched off between the rename and the     *)
(* screenshot leaves the previous picture, and so does a state that is     *)
(* replaced over FTP.                                                      *)

\* The picture that is offered of state i is of that state.
Depicts(i) == file[i] # None /\ thm[i] \in Snap => thm[i] = file[i].snap
Offered(i) == sEntries[i] # None /\ sEntries[i].hasThumb

\* PictureIsOfItsState at every program point: before the scan every picture is of
\* the state beside it, afterwards those the list offers are, except that of the state
\* that has just been renamed in; the one about to be written was taken of the
\* contents that are being saved.
PictureInv ==
  /\ ~ sScanned => \A i \in Id : Depicts(i)
  /\ sScanned => \A i \in Id : (pc = "thumb" /\ swap.id = i) \/ (Offered(i) => Depicts(i))
  /\ sJob = "SCAN" => ~ sScanned
  /\ Saving => swap.pic \in {swap.new.snap, None}
  /\ pc = "thumb" => file[swap.id] = swap.new

\* What a scan offers is beside its state.
LEMMA ScanOffers ==
  ASSUME TypeOK, NEW i \in Id, Scan[i] # None, Scan[i].hasThumb
  PROVE  file[i] # None /\ thm[i] # None
  BY DEF Scan, SsReadEntry, SsInfoFromHeader

\* A step that takes files and pictures away makes no picture wrong.
LEMMA LessDepicts ==
  ASSUME NEW i \in Id, Depicts(i), file'[i] \in {file[i], None}, thm'[i] = thm[i] \/ thm'[i] \notin Snap
  PROVE  Depicts(i)'
  BY DEF Depicts

LEMMA PictureStep ==
  ASSUME CrashMayHappen = FALSE, FtpWrites = FALSE, TypeOK, ControlInv, PictureInv, [Next]_vars
  PROVE  PictureInv'
  <1> USE DEF Saving
  <1>0. None \notin Snap
    BY SaveStatesAssumption
  <1>1. ASSUME /\ UNCHANGED <<sScanned, swap>> /\ (sJob' = "SCAN" => sJob = "SCAN" \/ ~ sScanned)
               /\ pc # "thumb" /\ pc' # "thumb" /\ (pc' \in {"write", "remove", "rename"} => Saving)
               /\ \A i \in Id : /\ file'[i] \in {file[i], None} /\ (thm'[i] = thm[i] \/ thm'[i] \notin Snap)
                                 /\ sEntries'[i] \in {sEntries[i], None}
        PROVE  PictureInv'
    BY <1>1, LessDepicts DEF PictureInv, Offered
  <1>2. CASE GameFrame
    BY <1>1, <1>2 DEF GameFrame, card, list, jobVars
  <1>3. CASE Request
    BY <1>1, <1>3 DEF Request, SsRequest, card, list, jobVars
  <1>4. CASE ServiceIdle \/ ServiceDelay \/ ServiceHold
    BY <1>1, <1>4 DEF ServiceIdle, ServiceDelay, ServiceHold, ServiceBegins, card, list, jobVars
  <1>5. CASE SsScanNow
    <2>1. /\ sEntries' = Scan /\ UNCHANGED <<file, thm>> /\ pc' = "frame" /\ sScanned' = TRUE
          /\ sJob' = "NONE" /\ ~ sScanned
      BY <1>5 DEF SsScanNow, Due, ServiceBegins, JobEnds, card, PictureInv
    <2> QED BY <2>1, LessDepicts DEF PictureInv
  <1>6. CASE SsDoLoad \/ SsDoThumb
    BY <1>1, <1>6 DEF SsDoLoad, SsDoThumb, Due, ServiceBegins, JobEnds, card, list
  <1>7. CASE DeleteState
    <2>1. /\ pc = "frame" /\ pc' = "deleteThumb" /\ UNCHANGED <<thm, sEntries, sScanned, swap, sJob>>
          /\ \A i \in Id : file'[i] \in {file[i], None}
      BY <1>7 DEF DeleteState, Due, ServiceBegins, list, jobVars, TypeOK
    <2> QED BY <1>1, <2>1
  <1>8. CASE DeleteThumb
    <2>1. /\ pc = "deleteThumb" /\ pc' = "frame" /\ UNCHANGED <<file, sScanned, swap>> /\ sJob' = "NONE"
          /\ \A i \in Id : sEntries'[i] \in {sEntries[i], None}
      BY <1>8 DEF DeleteThumb, JobEnds, TypeOK
    <2>2. \A i \in Id : thm'[i] \in {thm[i], None}
      BY <1>8 DEF DeleteThumb, ThumbRemoved, TypeOK
    <2> QED BY <1>0, <1>1, <2>1, <2>2
  <1>9. CASE SaveBegin
    <2>1. PICK id \in Id, captured \in BOOLEAN, t \in Time :
            swap' = [id |-> id, pic |-> IF captured THEN live ELSE None, new |-> NewFile(t)]
      BY <1>9 DEF SaveBegin
    <2>2. swap'.pic \in {swap'.new.snap, None}
      BY <2>1 DEF NewFile
    <2>3. /\ pc = "frame" /\ pc' = "write" /\ UNCHANGED <<file, thm, sJob>> /\ sScanned' = TRUE
          /\ sJob \in {"SAVE", "OVERWRITE"} /\ (sScanned => sEntries' = sEntries)
      BY <1>9 DEF SaveBegin, Due, ServiceBegins, NeedsGameplay, card, jobVars
    <2>4. \A i \in Id : Depicts(i) => Depicts(i)'
      BY <2>3, LessDepicts
    <2> QED BY <2>2, <2>3, <2>4 DEF PictureInv, Offered
  <1>10. CASE SaveWrite
    <2>1. CASE pc' = "frame"
      BY <1>1, <1>10, <2>1 DEF SaveWrite, SaveGoesOn, SaveFails, JobEnds, list, PictureInv, Offered, Depicts
    <2>2. CASE pc' = "remove"
      BY <1>1, <1>10, <2>2 DEF SaveWrite, SaveGoesOn, SaveFails, list, jobVars
    <2> QED BY <1>10, <2>1, <2>2 DEF SaveWrite, SaveGoesOn, SaveFails
  <1>11. CASE SaveRemoveOld
    <2>1. \A i \in Id : file'[i] \in {file[i], None}
      BY <1>11 DEF SaveRemoveOld, TypeOK
    <2> QED BY <1>1, <1>11, <2>1 DEF SaveRemoveOld, SaveGoesOn, list, jobVars
  <1>12. CASE SaveRename
    <2>1. CASE pc' = "frame"
      BY <1>12, <2>1 DEF SaveRename, SaveGoesOn, SaveFails, JobEnds, list, PictureInv, Offered, Depicts
    <2>2. CASE pc' = "thumb"
      <3>1. /\ pc = "rename" /\ UNCHANGED <<thm, swap, sEntries, sScanned, sJob>>
            /\ file' = [file EXCEPT ![swap.id] = tmp[swap.id]]
        BY <1>12, <2>2 DEF SaveRename, SaveGoesOn, SaveFails, list, jobVars
      <3>2. swap.id \in Id /\ tmp[swap.id] = swap.new /\ sScanned /\ sJob # "SCAN"
        BY <3>1 DEF TypeOK, ControlInv, Swap
      <3>3. file'[swap.id] = swap.new /\ \A i \in Id : i # swap.id => file'[i] = file[i]
        BY <3>1, <3>2 DEF TypeOK
      <3>4. ASSUME NEW i \in Id, i # swap.id, Offered(i)' PROVE Depicts(i)'
        BY <3>1, <3>2, <3>3, <3>4 DEF PictureInv, Offered, Depicts
      <3>5. swap'.pic \in {swap'.new.snap, None}
        BY <3>1 DEF PictureInv
      <3> QED BY <2>2, <3>1, <3>2, <3>3, <3>4, <3>5 DEF PictureInv
    <2> QED BY <1>12, <2>1, <2>2 DEF SaveRename, SaveGoesOn, SaveFails
  <1>13. CASE SaveThumb
    <2>1. PICK thumb \in BOOLEAN : SaveDone(thumb)
      BY <1>13 DEF SaveThumb
    <2>2. pc = "thumb" /\ pc' = "frame" /\ UNCHANGED <<file, sScanned>> /\ sScanned /\ sJob' = "NONE"
      BY <1>13, <2>1 DEF SaveThumb, SaveDone, JobEnds, ControlInv
    <2>3. swap.id \in Id /\ file[swap.id] = swap.new /\ swap.pic \in {swap.new.snap, None}
      BY <2>2 DEF TypeOK, ControlInv, Swap, PictureInv
    <2>4. \A i \in Id : i # swap.id => thm'[i] = thm[i]
      BY <1>13, <2>3 DEF SaveThumb, ThumbNotWritten, ThumbRemoved, TypeOK
    <2>5. \A i \in Id : i # swap.id => sEntries'[i] = sEntries[i]
      BY <2>1, <2>3 DEF SaveDone, TypeOK
    <2>6. ASSUME NEW i \in Id, i = swap.id, Offered(i)' PROVE Depicts(i)'
      <3>1. CASE swap.pic # None /\ thm' = [thm EXCEPT ![swap.id] = swap.pic]
        BY <2>2, <2>3, <2>6, <3>1 DEF Depicts, TypeOK
      <3>2. CASE SaveDone(FALSE)
        <4>1. sEntries'[swap.id] = SsInfoFromHeader(swap.new, FALSE)
          BY <2>3, <3>2 DEF SaveDone, TypeOK
        <4> QED BY <2>6, <4>1 DEF Offered, SsInfoFromHeader
      <3> QED BY <1>13, <3>1, <3>2 DEF SaveThumb
    <2>7. ASSUME NEW i \in Id, i # swap.id, Offered(i)' PROVE Depicts(i)'
      BY <2>2, <2>4, <2>5, <2>7 DEF PictureInv, Offered, Depicts
    <2>8. ASSUME NEW i \in Id, Offered(i)' PROVE Depicts(i)'
      BY <2>6, <2>7, <2>8
    <2> QED BY <2>2, <2>8 DEF PictureInv
  <1>14. CASE PowerCycle \/ \E i \in Id : FtpStore(i)
    BY <1>14 DEF PowerCycle, FtpStore
  <1>15. CASE UNCHANGED vars
    <2>1. \A i \in Id : (Depicts(i)' <=> Depicts(i)) /\ (Offered(i)' <=> Offered(i))
      BY <1>15 DEF vars, card, list, Depicts, Offered
    <2> QED BY <1>15, <2>1 DEF vars, card, list, jobVars, PictureInv
  <1> QED
    BY <1>2, <1>3, <1>4, <1>5, <1>6, <1>7, <1>8, <1>9, <1>10, <1>11, <1>12, <1>13, <1>14, <1>15
    DEF Next, ServicePending

\* Within a session the picture that the list offers of a state is of that state,
\* whatever write, removal or rename the card refuses: an old picture that stays beside
\* new data is not offered.
THEOREM PictureIsTrue ==
  ASSUME CrashMayHappen = FALSE, FtpWrites = FALSE
  PROVE  Spec => []PictureIsOfItsState
  <1>1. Init => TypeOK /\ ControlInv /\ PictureInv
    BY InitType, SaveStatesAssumption DEF Init, PictureInv, Depicts, Saving
  <1>2. TypeOK /\ ControlInv /\ PictureInv /\ [Next]_vars => (TypeOK /\ ControlInv /\ PictureInv)'
    BY TypeStep, ControlStep, PictureStep
  <1>3. PictureInv => PictureIsOfItsState
    BY DEF PictureInv, PictureIsOfItsState, Depicts, Offered
  <1> QED BY <1>1, <1>2, <1>3, PTL DEF Spec

-----------------------------------------------------------------------------
(* The archive.  A console switched off between the removal and the rename *)
(* of a swap, or a rename the card refuses then, loses the state (see      *)
(* NoStateIsLost and the run save_states_rename_fails): the archive is     *)
(* implemented where neither happens and only the console writes states.   *)

Orderly == Undisturbed /\ CrashMayHappen = FALSE /\ RenameMayFail = FALSE

\* The machine stands still while it is saved.
SavesLive == Saving => swap.new.snap = live

LEMMA SavesLiveStep ==
  ASSUME CrashMayHappen = FALSE, SavesLive, [Next]_vars
  PROVE  SavesLive'
  <1> USE DEF SavesLive, Saving
  <1>1. CASE GameFrame \/ Request \/ ServiceIdle \/ ServiceDelay \/ ServiceHold
    BY <1>1 DEF GameFrame, Request, ServiceIdle, ServiceDelay, ServiceHold, ServiceBegins
  <1>2. CASE SsScanNow \/ SsDoLoad \/ SsDoThumb \/ DeleteState \/ DeleteThumb
    BY <1>2 DEF SsScanNow, SsDoLoad, SsDoThumb, DeleteState, DeleteThumb, Due, ServiceBegins
  <1>3. CASE SaveBegin
    BY <1>3 DEF SaveBegin, NewFile, game
  <1>4. CASE SaveWrite \/ SaveRemoveOld \/ SaveRename \/ SaveThumb
    BY <1>4 DEF SaveWrite, SaveRemoveOld, SaveRename, SaveThumb, SaveDone, SaveGoesOn, SaveFails, game
  <1>5. CASE PowerCycle \/ \E i \in Id : FtpStore(i)
    BY <1>5 DEF PowerCycle, FtpStore, game
  <1>6. CASE UNCHANGED vars
    BY <1>6 DEF vars, game
  <1> QED BY <1>1, <1>2, <1>3, <1>4, <1>5, <1>6 DEF Next, ServicePending

\* A step that keeps the card and is outside the swap keeps the archive.
LEMMA SameContents ==
  ASSUME UNCHANGED <<file, tmp>>, pc' # "rename", pc # "rename"
  PROVE  Contents' = Contents
  BY DEF Contents, Stored

\* Where a step ends the job without effect or with the one it has had.
LEMMA JobEndsIt ==
  ASSUME sJob \in {"SAVE", "OVERWRITE", "LOAD", "DELETE"}, sJob' = "NONE", pc' = "frame",
         Contents' = Contents, live' = live
  PROVE  Archive!End
  BY DEF Archive!End, Operation, Target, Applied

\* Every step of the service is a step of the archive, or none.
LEMMA ArchiveStep ==
  ASSUME Orderly, TypeOK, ControlInv, ListInv, SavesLive, [Next]_vars
  PROVE  [Archive!Next]_(Archive!vars)
  <1> USE DEF Archive!vars
  <1>1. CASE GameFrame
    <2>1. UNCHANGED <<Contents, Operation, Target>> /\ Applied' = Applied /\ Applied = FALSE
      BY <1>1, SameContents DEF GameFrame, card, jobVars, Operation, Target, Applied
    <2> QED BY <1>1, <2>1 DEF GameFrame, Archive!Next, Archive!Play
  <1>2. CASE Request
    <2>1. UNCHANGED <<Contents, live>> /\ Applied' = Applied
      BY <1>2, SameContents DEF Request, card, game, Applied
    <2>2. CASE UNCHANGED jobVars
      BY <2>1, <2>2 DEF jobVars, Operation, Target
    <2>3. CASE sJob = "NONE" /\ (sJob' \in {"SCAN", "THUMB"} \/ (sJob' = "SAVE" /\ sJobId' = 0))
      BY <2>1, <2>3 DEF Operation, Target, Archive!Next, Archive!Ask
    <2>4. CASE sJob = "NONE" /\ sJob' \in {"OVERWRITE", "LOAD", "DELETE"} /\ sJobId' \in Id
      BY <2>1, <2>4 DEF Operation, Target, Archive!Next, Archive!Ask
    <2> QED BY <1>2, <2>2, <2>3, <2>4 DEF Request, SsRequest
  <1>3. CASE ServiceIdle \/ ServiceDelay \/ ServiceHold
    <2>1. UNCHANGED <<Contents, live, pc>> /\ Applied' = Applied /\ pc = "frame"
      BY <1>3, SameContents
      DEF ServiceIdle, ServiceDelay, ServiceHold, ServiceBegins, card, game, Applied
    <2>2. CASE sJob' = sJob /\ sJobId' = sJobId
      BY <2>1, <2>2 DEF Operation, Target
    <2>3. CASE NeedsGameplay /\ sJob' = "NONE"
      BY <2>1, <2>3, JobEndsIt DEF NeedsGameplay, Archive!Next
    <2> QED
      BY <1>3, <2>2, <2>3 DEF ServiceIdle, ServiceDelay, ServiceHold, jobVars
  <1>4. CASE SsScanNow \/ SsDoThumb
    <2>1. UNCHANGED <<Contents, live>> /\ Applied' = Applied
      BY <1>4, SameContents DEF SsScanNow, SsDoThumb, Due, ServiceBegins, card, game, Applied
    <2> QED BY <1>4, <2>1 DEF SsScanNow, SsDoThumb, JobEnds, Operation, Target
  <1>5. CASE SsDoLoad
    <2>1. /\ Contents' = Contents /\ pc = "frame" /\ pc' = "frame"
          /\ sJob = "LOAD" /\ sJob' = "NONE" /\ sJobId \in Id
      BY <1>5, SameContents DEF SsDoLoad, Due, ServiceBegins, JobEnds, card, ControlInv
    <2>2. CASE live' = live
      BY <2>1, <2>2, JobEndsIt DEF Archive!Next
    <2>3. CASE live' # live
      <3>1. LoadOutcome(file[sJobId]) = "loaded" /\ live' = file[sJobId].snap
        BY <1>5, <2>3 DEF SsDoLoad, game
      <3>2. file[sJobId] # None
        BY <3>1 DEF LoadOutcome
      <3>3. Contents[sJobId] = live'
        BY <2>1, <3>1, <3>2 DEF Contents, Stored
      <3>4. live' # None
        BY <2>1, <3>1, <3>2, SaveStatesAssumption DEF TypeOK, File
      <3>5. Operation = "LOAD" /\ Operation' = "NONE" /\ Target = sJobId /\ Target' = 0 /\ Applied' = Applied
        BY <2>1 DEF Operation, Target, Applied
      <3> QED BY <2>1, <3>3, <3>4, <3>5 DEF Archive!Next, Archive!Restore
    <2> QED BY <2>2, <2>3
  <1>6. CASE DeleteState
    <2>1. /\ pc = "frame" /\ pc' = "deleteThumb" /\ UNCHANGED <<live, sJob, sJobId>>
          /\ sJob = "DELETE" /\ sJobId \in Id
      BY <1>6 DEF DeleteState, Due, ServiceBegins, jobVars, game, ControlInv
    <2>2. /\ Operation = "DELETE" /\ Target = sJobId /\ UNCHANGED <<Operation, Target>>
          /\ ~ Applied /\ Applied' = TRUE
      BY <2>1 DEF Operation, Target, Applied
    <2>3. CASE file' = [file EXCEPT ![sJobId] = None]
      <3>1. Contents' = [Contents EXCEPT ![sJobId] = None]
        BY <2>1, <2>3 DEF Contents, Stored, TypeOK
      <3> QED BY <2>1, <2>2, <3>1 DEF Archive!Next, Archive!Remove
    <2>4. CASE file' = file
      <3>1. Contents' = Contents
        BY <2>1, <2>4 DEF Contents, Stored
      <3> QED BY <2>1, <2>2, <3>1 DEF Archive!Next, Archive!Refuse
    <2> QED BY <1>6, <2>3, <2>4 DEF DeleteState
  <1>7. CASE DeleteThumb
    <2>1. Contents' = Contents
      BY <1>7, SameContents DEF DeleteThumb
    <2> QED BY <1>7, <2>1, JobEndsIt DEF DeleteThumb, JobEnds, ControlInv, game, Archive!Next
  <1>8. CASE SaveBegin
    <2>1. UNCHANGED <<Contents, live, sJob, sJobId>> /\ pc = "frame" /\ pc' = "write"
      BY <1>8, SameContents DEF SaveBegin, Due, ServiceBegins, card, jobVars, game
    <2> QED BY <2>1 DEF Operation, Target, Applied
  <1>9. CASE SaveWrite
    <2>1. pc = "write" /\ live' = live /\ file' = file /\ sJob \in {"SAVE", "OVERWRITE"}
      BY <1>9 DEF SaveWrite, SaveGoesOn, SaveFails, game, ControlInv, Saving
    <2>2. pc' # "rename" => Contents' = Contents
      BY <2>1 DEF Contents, Stored
    <2>3. CASE pc' = "frame" /\ sJob' = "NONE"
      BY <2>1, <2>2, <2>3, JobEndsIt DEF Archive!Next
    <2>4. CASE pc' = "remove" /\ UNCHANGED <<sJob, sJobId>>
      BY <2>1, <2>2, <2>4 DEF Operation, Target, Applied
    <2> QED BY <1>9, <2>3, <2>4 DEF SaveWrite, SaveGoesOn, SaveFails, JobEnds, jobVars
  <1>10. CASE SaveRemoveOld
    <2>1. /\ pc = "remove" /\ pc' = "rename" /\ UNCHANGED <<tmp, swap, sJob, sJobId, live>>
          /\ sJob \in {"SAVE", "OVERWRITE"}
      BY <1>10 DEF SaveRemoveOld, SaveGoesOn, jobVars, game, ControlInv, Saving
    <2>2. swap.id \in Id /\ swap.new \in File /\ tmp[swap.id] = swap.new /\ swap.new.snap = live
      BY <2>1 DEF TypeOK, ControlInv, Saving, Swap, SavesLive
    <2>3. swap.new # None
      BY <2>2, SaveStatesAssumption
    <2>4. /\ UNCHANGED <<Operation, Target>> /\ ~ Applied /\ Operation = sJob
          /\ sJob = "OVERWRITE" => Target = swap.id
      BY <2>1 DEF Operation, Target, Applied, ControlInv, Saving
    <2>5. CASE file'[swap.id] = None
      <3>1. \A i \in Id : i # swap.id => file'[i] = file[i]
        BY <1>10, <2>2 DEF SaveRemoveOld, TypeOK
      <3>2. Contents' = [Contents EXCEPT ![swap.id] = live]
        BY <2>1, <2>2, <2>3, <2>5, <3>1 DEF Contents, Stored
      <3>3. Applied' = TRUE
        BY <2>1, <2>5 DEF Applied
      <3>4. sJob = "SAVE" => Contents[swap.id] = None
        BY <2>1, <2>2 DEF Contents, Stored, ListInv
      <3> QED BY <2>1, <2>2, <2>4, <3>2, <3>3, <3>4 DEF Archive!Next, Archive!Store
    <2>6. CASE file'[swap.id] # None
      <3>1. file' = file
        BY <1>10, <2>2, <2>6 DEF SaveRemoveOld, TypeOK
      <3>2. Contents' = Contents /\ Applied' = Applied
        BY <2>1, <2>6, <3>1 DEF Contents, Stored, Applied
      <3> QED BY <2>1, <2>4, <3>2
    <2> QED BY <2>5, <2>6
  <1>11. CASE SaveRename
    <2>1. /\ pc = "rename" /\ live' = live /\ sJob \in {"SAVE", "OVERWRITE"}
          /\ swap.id \in Id /\ tmp[swap.id] = swap.new /\ swap.new \in File /\ swap.new # None
      BY <1>11, SaveStatesAssumption
      DEF SaveRename, SaveGoesOn, SaveFails, game, TypeOK, ControlInv, Saving, Swap
    <2>2. CASE pc' = "thumb"
      <3>1. /\ file[swap.id] = None /\ file' = [file EXCEPT ![swap.id] = tmp[swap.id]]
            /\ UNCHANGED <<sJob, sJobId>>
        BY <1>11, <2>2 DEF SaveRename, SaveGoesOn, SaveFails, jobVars
      <3>2. Contents' = Contents
        BY <2>1, <2>2, <3>1 DEF Contents, Stored, TypeOK
      <3> QED BY <2>1, <2>2, <3>1, <3>2 DEF Operation, Target, Applied
    <2>3. CASE pc' = "frame"
      <3>1. file[swap.id] # None /\ file' = file /\ sJob' = "NONE"
        BY <1>11, <2>3 DEF SaveRename, SaveGoesOn, SaveFails, JobEnds, Orderly
      <3>2. Contents' = Contents
        BY <2>1, <2>3, <3>1 DEF Contents, Stored
      <3> QED BY <2>1, <2>3, <3>1, <3>2, JobEndsIt DEF Archive!Next
    <2> QED BY <1>11, <2>2, <2>3 DEF SaveRename, SaveGoesOn, SaveFails
  <1>12. CASE SaveThumb
    <2>1. Contents' = Contents
      BY <1>12, SameContents DEF SaveThumb, SaveDone
    <2> QED BY <1>12, <2>1, JobEndsIt DEF SaveThumb, SaveDone, JobEnds, ControlInv, Saving, game, Archive!Next
  <1>13. CASE PowerCycle \/ \E i \in Id : FtpStore(i)
    BY <1>13 DEF PowerCycle, FtpStore, Orderly, Undisturbed
  <1>14. CASE UNCHANGED vars
    <2>1. UNCHANGED <<Contents, live, Operation, Target>> /\ Applied' = Applied
      BY <1>14 DEF vars, card, jobVars, game, Contents, Stored, Operation, Target, Applied
    <2> QED BY <2>1
  <1> QED
    BY <1>1, <1>2, <1>3, <1>4, <1>5, <1>6, <1>7, <1>8, <1>9, <1>10, <1>11, <1>12, <1>13, <1>14
    DEF Next, ServicePending

LEMMA ArchiveInit ==
  ASSUME Init
  PROVE  Archive!Init
  <1>1. \A i \in Id : Stored(i) = file[i]
    BY DEF Init, Stored
  <1>2. Contents \in [Id -> Snap \cup {None}]
    <2>1. \A i \in Id : file[i] # None => file[i].snap \in Snap
      BY InitType DEF TypeOK, File
    <2> QED BY <1>1, <2>1 DEF Contents
  <1>3. Operation = "NONE" /\ Target = 0 /\ Applied = FALSE /\ live \in Snap
    BY DEF Init, Operation, Target, Applied
  <1> QED BY <1>2, <1>3 DEF Archive!Init

\* The queue, the swap and the deletions implement the archive of snapshots: an
\* operation takes effect once, on its own id, with the machine as it was, or ends
\* without effect -- whichever write, removal or deletion the card refuses.
THEOREM ArchiveImplemented ==
  ASSUME Orderly
  PROVE  Spec => ImplementsArchive
  <1>1. Init => TypeOK /\ ControlInv /\ ListInv /\ SavesLive /\ Archive!Init
    BY InitType, ListInit, ArchiveInit DEF Orderly, Init, SavesLive, Saving
  <1>2. TypeOK /\ ControlInv /\ ListInv /\ SavesLive /\ [Next]_vars =>
          (TypeOK /\ ControlInv /\ ListInv /\ SavesLive)' /\ [Archive!Next]_(Archive!vars)
    BY TypeStep, ControlStep, ListStep, SavesLiveStep, ArchiveStep DEF Orderly
  <1> QED BY <1>1, <1>2, PTL DEF Spec, ImplementsArchive, Archive!Spec
=============================================================================
