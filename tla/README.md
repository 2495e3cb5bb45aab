# mzm for the Nintendo 3DS: a TLA+ verification project

The repository is a decompilation of *Metroid: Zero Mission* (`src/`) with a port to the Nintendo
3DS around it (`platform/3ds/source/`, `port/`). The game itself is sequential: one logic thread
runs its main loop frame by frame. What the port adds is not: threads that write the save file,
talk to servers, update the program, feed the DSP and draw; an SD card that can refuse an operation
or lose power in the middle of one; and buttons that can be pressed at any of these moments. This
directory models those parts, checks them with TLC and proves what matters most with TLAPS.

Contents: [inventory](#inventory) · [modules](#modules) · [runs](#runs) · [fairness](#fairness) ·
[proofs](#proofs) · [findings](#findings) · [abstractions](#abstractions-and-what-is-left-out) ·
[plan](#plan)

## Inventory

### Threads

| thread | code | what it does |
|---|---|---|
| main (present) | `main_3ds.c`, `platform_3ds_minimal.c` | presents the frame slot the logic thread published |
| logic | `src/agbmain.c`, `port_bios.c` | the game loop: input and touches, save-state service, `Port_RA_Update`, the game's mode, `Port_RA_EvaluateTriggers`, `Port_FlushSramIfDirty`; same core as main, one step above it; leaves only by `exit(0)` in `Port_Bios_Halt` |
| updater worker | `port_updater_3ds.c` | one job at a time: check, download and install |
| RetroAchievements worker | `port_retroachievements_3ds.c` | HTTP requests of rcheevos, badge downloads when idle |
| save thread | `src/sram/sram.c` | writes the queued snapshot of the save memory |
| FTP | `ftp_server_3ds.c`, `debug_link_3ds.c` | one client, one command at a time; hands debug requests to the logic thread |
| audio, GBA timing | `port_mzm_audio_3ds.c`, `port_gba_timing.c` | fill the DSP's buffers; count scanlines |

### Components

For each: its state, operations, how it interacts, what is hard, and what would make it correct.
`PROJECT.json` lists the same parts with their files and status, and the hazards at their lines.

* **Save states** (`port_save_state.c`; *modelled*). State: the list of states in RAM (read from the
  card once, patched after each job), one job slot, the message, and three files per state on the
  card (state, `.tmp`, `.thm`). Operations: request (STATE tab, debug link), service once a frame
  (scan, save, overwrite, load, delete, screenshot). Hard: the gate "only in gameplay" is read twice,
  the swap of an old state for a new one takes three card operations, the list is a cache, FTP
  changes the card behind it. Correct when: the list tells the truth, no state is lost that was not
  asked to go, ids are not reused, a load is all or nothing, each job ends.
* **Updater** (`port_updater_3ds.c`, `port_updater_parse.c`; *modelled but for the JSON text*). State: the
  job flag, state, prompt, the kept CIA, the channel, the release that is offered, sockets; outside: the CIA on
  the card, the installed title. Operations: check, install, answers to prompts, the channel. Hard: the prompt is
  raised by the worker and answered by the logic thread on the same core at a higher priority; replacing the title
  may need deleting it first; a release may be built again under its old tag. Correct when: one job at a time, a
  prompt can be answered and goes away, the title is deleted only with a replacement at hand, the program moves
  forwards only.
* **RetroAchievements** (`port_retroachievements_3ds.c`, over `third_party/rcheevos`; *modelled but for hardcore
  mode, views and memory reads*). State: two queues, one response buffer, the badge table; the session: switch,
  status, name and token, the guard, delay and count of loads. Hard: one buffer shared by calls and badges, answers
  out of order, calls never answered, retries that go on for ever, results that arrive after the player switched
  it off or typed another name. Correct when: each call gets its own answer once, one login and one load at a time,
  what is saved is who is logged in, switched off it goes quiet.
* **Save file on the card** (`src/sram/sram.c`; *modelled*). State: the 64 KB `gSramMem`, a dirty
  flag with two frame counters, two snapshot buffers, three files. Operations: `SramWrite`, flush
  once a frame, the save thread's write and swap, load at boot. Hard: power cuts and failures
  between the operations of the swap, a snapshot taken while another is written, a steady stream of
  writes. Correct when: no file mixes two versions, a start finds the newest save the faults allow,
  each version is written or the player told.
* **Save slots** (`src/save_file.c`, `src/sram_misc.c`; *modelled but for options, times and debug
  builds*). State: three files and three copies in EWRAM and in the save memory, the stage and chunk
  counters, the most recent slot, `gDisableSoftReset`. Operations: save, intro and ending save, delete,
  copy, the check at a start and the handler of corrupted files, one 512-byte chunk a frame. Hard: a
  reset, exit or cut between two chunks; one chunk counter for every stream; a last chunk that is moved
  in full, past the end of its file; which of two copies wins at the next start. Correct when: a slot
  holds one whole save, other slots are left alone, and a half operation never reaches the card.
* **Soft reset** (`src/soft_reset*.c`; *modelled for what it leaves of the slots*). Clears the console's IWRAM,
  which in the port is not where the game's variables are.
* **FTP server and debug link** (`ftp_server_3ds.c`, `debug_link_3ds.c`; *modelled but for install-only mode,
  texts and memory reads*). State: the server's thread, sockets and buffer, the phase and time of a restart; one
  request slot to the logic thread with an event and a line, the keys to press. Operations: start, stop, a touch on
  the button, transfer, installation, restart; requests, their time-out, KEYS. Hard: a stop that gives up on the
  thread, a timeout racing a late answer, a button that a request presses itself, a queue shared with the player.
  Correct when: what the thread uses stays while it runs, a restart comes after its countdown, an answer is of its own
  request or of one that was given up, and nothing jams.
* **Pointers and variables in states** (`port_state_ptrs.c`, `port_state_vars.c`, format 4 of `port_save_state.c`;
  *modelled as operators*). Which words of the game's variables are pointers, and what another build makes of them.
  Hard: nothing in memory says which words are pointers; builds differ in where and how large everything is.
  Correct when: a pointer comes back to what it named, or null, and data is left alone.
* **Audio** (`port_mzm_audio_3ds.c`, `port_mzm_audio_glue.c`, `src/audio.c`; *not modelled*). A
  single-producer single-consumer ring and the driver's structures under a lock that is initialised a second time
  when the DSP firmware turns up during the game. What goes wrong there is heard for a moment and leaves no state
  behind.
* **Frame handoff** (`platform_3ds_minimal.c`, `platform_gpu_3ds.c`, `port_ppu_mzm.c`; *not modelled*). Two slots
  and the published one; what goes wrong is a late or torn picture, which the GPU's driver decides.
* **Rendering, effects, layout, bottom screen** (*not modelled*: pixels and tables). The touches that
  matter are actions of the modules of the components they touch.
* **DSP firmware check, CIA install, ROM loading, BIOS, memory, timing, symbols, debug log** (*not
  modelled*: sequential, mostly once at start; what they do to others is in the modules above).
* **Auto bomb, auto space jump, quick morph** (*not modelled*: filters of one frame's keys that keep almost no state).
* **The game**: Samus, projectiles, rooms, sprites and AI, menus, cutscenes (*not modelled*: sequential,
  unchanged by the port, without interleavings to explore). **Link cable, NES Metroid, Linux host
  build, tools, data** (*not modelled*: not part of the running program, or tables).

## Modules

| module | models | implements | proofs |
|---|---|---|---|
| `SaveStates` | `port_save_state.c` | `StateArchive` | `SaveStatesProofs` |
| `StatePointers` | `port_state_ptrs.c`, `port_state_vars.c`, format 4 of `port_save_state.c` | | `StatePointersProofs` |
| `Updater` | `port_updater_3ds.c`: jobs, prompts, CIA and title | | `UpdaterProofs` |
| `Releases` | `port_updater_parse.c`: versions and lists, as operators | | in `UpdaterProofs` |
| `UpdateReleases` | `Updater` with `Releases`: what is offered, downloaded and run | `Updater` | `UpdaterProofs` |
| `RaServerCalls` | `port_retroachievements_3ds.c`: calls and badges | | `RaServerCallsProofs` |
| `RaSession` | `port_retroachievements_3ds.c`: login, load and switch | | `RaSessionProofs` |
| `SramFile` | `src/sram/sram.c` | `SaveCard` | `SramFileProofs` |
| `SaveSlots` | `src/save_file.c`, `src/sram_misc.c`, the corrupted-file handler, soft reset | `SlotStore` | `SaveSlotsProofs` |
| `FtpServer` | `ftp_server_3ds.c` and its calls in `platform_3ds_minimal.c` | | in `DebugLinkProofs` |
| `DebugLink` | `FtpServer` with `debug_link_3ds.c` | `FtpServer` | `DebugLinkProofs` |

`MCSaveStates` (also for `StatePointers`), `MCUpdater`, `MCRaServerCalls`, `MCRaSession`, `MCSramFile`, `MCSaveSlots` and
`MCDebugLink` hold what the configurations instantiate. Operators named `Defect...` are seeded defects: each stands
before the definition it could replace and is a plausible slip in the code; `PROJECT.json` ("mutants") names the
property that notices it. They are not used by any specification.

### SaveStates and StateArchive

A variable per variable of the code (`sEntries`, `sScanned`, `sJob`, `sJobId`, `sJobDelay`,
`sJobWaited`, `sReadyFrames`, `sMsg`), the card (`file`, `tmp`, `thm` by id), what the game is
doing (`avail`: in gameplay; `live`: the machine's contents, a name), and where the logic thread is
inside a job (`pc`, `swap`). A file is what the code reads of it: version, owner (ROM or build
fingerprint), number and sizes of regions, whether the body parses, its contents, its date.

`Request` is a touch on the STATE tab or a command of the debug link. One of the `Service...`
actions, `SsScanNow`, `SsDoLoad`, `SsDoThumb`, `DeleteState` or `SaveBegin` is one call of
`Port_SaveState_ServicePending`; the operations on the card inside `SsDoSave` and `SsDoDelete` are
steps of their own (`SaveWrite`, `SaveRemoveOld`, `SaveRename`, `SaveThumb`, `DeleteThumb`), for a
power cut (`PowerCycle`) or an FTP client (`FtpStore`) to come between, while `pc # "frame"` keeps
the game from running on, as the logic thread is inside the call.

`StateArchive` says what a client may count on: contents by id, one operation at a time that
takes effect at most once, on its own id or, for a new save, on a free one, or ends without effect.
The refinement mapping takes a state for replaced from the moment the old file is removed and the
complete `.tmp` is there.

### StatePointers

`Ss4WriteBody` is what a state holds of a build's memory and `Ss4Load` what a build makes of it, over
memories whose words are numbers, where an address and a number look the same. A build is where each thing is
(arrays of the GBA, the ROM, functions, variables), how large it is, which variables it keeps (`kNotSaved`) and
what they hold when the load comes. `Classify`, `IsTable` and `Scanned` are the three rules of `port_state_ptrs.c`;
`CopyVars`, `PortGen_All_Init` and `Apply` the load. `Holds` and `Respects` are what the documentation asks of
the game's variables (`docs/3ds-save-states.md`): the two properties quantify over every content that respects it. The module
EXTENDS `SaveStates`, whose `SsDoLoad` is where all this happens: to it a machine's contents are one name.

### Updater

Each thread that `StartJob` could create is a function value of `worker` (job and place, or `None`); the places are
the points of `WorkerMain`, `DoCheck`, `DoInstall` and `HttpGet` where something other threads can
see changes. The touches (`AnswerPrompt`, `UpdateButton`) run on the logic thread, which preempts
the worker, so they are single steps between any two of its steps. `title` is what the console would
start and `Restart` the end of the program and its next start, from that title.

### Releases and UpdateReleases

`Releases` has the code's comparison (`IsNewer`, `IsNewerBuild`) and choice (`PickRelease`) as operators, and beside them a
reference order (`Before`): numbers first, then development builds, betas, stable releases. `UpdateReleases` is
`Updater` whose server answers with a list: `ListComes` is the end of the download, `ReleaseIsPicked` the rest of
`DoCheck`, `CiaComes` the moment at which it is decided which build is behind the tag that was offered (a beta
page can be made the stable release meanwhile), `TitleIsInstalled` and `StartsAgain` what runs next. `SetBeta` is the
channel, which the player may change between any two steps.

### RaServerCalls

`sPending` and `sCompleted` are the arrays of the same names, of `RA_MAX_PENDING` entries, and
`sResponseBuf` says whose bytes are in the buffer. The worker's place is `at`; a section under
`sQueueLock` is one step. `ServerCall` may run inside a callback (rcheevos chains calls), so it is
not tied to a point of the frame. `answer` is a history variable: what each callback was given.

### RaSession

What `RaServerCalls` promises (an answer to each call, in order, some time later, or a failure at once when there is no
room) is the environment here: `calls` is the line of calls that wait, and each `Answer` action is `Port_RA_Update` handing
over one, with the callback it ends in. `DelayPasses` and `EvaluateTriggers` are the per-frame retry. `user`, `as`, `game`
and `unreachable` are rcheevos' own state as far as the file uses it. `SwitchOff`, `SwitchOn` and `PromptLogin` are the
player's touches, possible at any point; `Restart` starts the program from what `mzm3ds.ini` says.

### SramFile and SaveCard

Versions of the save memory are numbers, made by `SramWrite`; a save of the game is `CHUNKS` writes,
a chunk a frame. The frame is two steps and more: the game (`SramWrite`, `SramReadBack`,
`NoSramWrite`), then `Port_FlushSramIfDirty` (`FlushLater`, `FlushNow`+`QueueSnapshot`, or `FlushHere` when
there is no thread). The save thread's `SramWriteAtomic` is one step per operation on the card. A
snapshot that changes while it is written, or a buffer read while it is filled, is `Mixed`; a file
of the wrong size is `Cut`. Power cuts and operations that fail draw on one budget, `MaxFaults`; a
cut between writes costs nothing, since it takes nothing away from a file. `written`, `loaded`, `told`
and `made` are history variables.

`SaveCard` is what all this promises the game: one memory and one card. A snapshot that was taken lands in one step or
never, not after a newer one, and a start brings back what is there. It holds while one write was cut short or one
operation failed at most; after two, only `CutsLoseLittle` and `ErrorsLeaveASave` are left. The mapping
takes what a start would find for what is on the card, with one exception (`Found`): after a first fault that left no
`mzm.sav`, the next write empties the only `.tmp`, and that save is lost or followed by the new one according to whether a
second fault comes, so the new one counts from then on.

### SaveSlots and SlotStore

EWRAM's copy and the save memory are maps from a region to its chunks: `files` of every slot, then
`filesCopy` of every slot, as they lie in memory. A chunk is the number of the save it belongs to, or
0 where it is blank; so a file that passes its checksum is a file of one number. The order matters:
`unk_fbc` moves 0x200 bytes also for the last 0x20 of a file, so the last chunk of a region takes most of the
first chunk of the next one with it, in either direction (`Moved`). A save the ending reads back in
two halves and gives a right checksum would be `Mixed`.

An operation is `kind`, `slot`, `dst` and `gSramOperationStage`; each `...Step` is one call, which is one
frame, so the end of the frame (`EndFrame`: `Port_FlushSramIfDirty`) is part of each action. There a snapshot may go
to the card, whole, in order and late or never, which is what `SaveCard` says of it: `card` is what the next start will find, so
the choice in `card'` is whether this snapshot lands before that. `Restart` is a power cut, exit or crash anywhere; `SoftReset` is possible where the code lets it: not
in an operation, except the handler of corrupted files, which does not set `gDisableSoftReset`.
`OtherWrite` is any other write of the game. `now` (what the player last made of each slot) and `made` are history
variables.

Two constants bound what the environment does. `Ahead` is how many frames of other writes come just
before an operation: its chunks and these must stay under the flush's cap, or a snapshot is taken in the middle.
`StaleChunk` says whether a copy or delete may begin with the chunk counter a soft reset left in the
middle (finding 3): `FALSE` in `save_slots`, which shows that everything holds but for that; `TRUE` in
`save_slots_copy`, which shows what it does.

`SlotStore` is the promise: slots that hold a save or nothing, changed by one operation at a time, and
a card that holds the slots of one moment between two operations. In the refinement the card's slot is
what a start would make of the card's file and backup (`Loaded`).

### FtpServer and DebugLink

`at` is where each server thread is, `frame` where the logic thread is: at the top of its frame (`Tick`, the
housekeeping of `Platform3DS_PollKeysIntoGba`), in the game, in a stop that waits for the thread, or gone.
`FtpServer_Stop` is `StopBegins` and then `StopJoins` or `StopGivesUp`; between them the thread goes on with what it does.
`StartCountdown` and `AskRelaunch` are the assignments that end an installation, in the code's order, and `TakeRelaunch`
is the logic thread looking at them.

`DebugLink` EXTENDS it: a SITE command of the link is a command `"other"` whose inside is `link`, one step per access to the
slot (`sOp`), the line (`sResult`) and the event (`sDone`). `Poll` is `DebugLink_Poll`, whole but for the event, which it
signals last (`Signal`). A request is answered at once, or a touch, which is let go one frame later and may be on
the server's own button, or on a save state: then it is answered when no job is queued, or after `MaxWaited` frames.
`LinkTimesOut` lets the 20 s pass at any moment of the wait. `gaveUp`, `misled`, `ignored` and `ran` are history
variables. `ImplementsFtpServer` says that the two together are still a server in the sense of `FtpServer`, whose stop
gives up on transfers and installations only: the link's wait ends when the server is stopped, also when the request
that waits is the one that stops it.

## Runs

| run | what it asks | bounds |
|---|---|---|
| `save_states` | the list, screenshots and the LOAD button stay right, and the service implements `StateArchive`, with every card operation but the rename allowed to fail | 2 ids, 2 contents, 2 clock readings, 3 kinds of old files |
| `save_states_load` | a load is all or nothing, no state is lost and each job ends, with files put there over FTP, a rename that fails and power cuts between any two operations; pointers of a state come back and data is left alone | 1 id, 2 contents, 9 kinds of files; 4 builds, 6 variables |
| `save_states_rename_fails` | *violation*: a failed save loses the state it was to replace | 1 id |
| `updater` | prompts that can be answered, the title deleted only with its replacement at hand, installs that report, never backwards, a true "up to date" | 2 threads; lists of up to 2 releases of 7 kinds over 2 numbers |
| `ra_server_calls` | each call answered once, by its own response, in order; each badge loaded or given up | 5 calls, queue of 2, 2 badges, 2 tries |
| `ra_session` | one login and one load at a time, the saved account is the one logged in, nothing asked that may not be, quiet when off, settled when on | 2 accounts, 2 attempts, delay of 2, 4 touches in each run of the program |
| `sram_file` | no mixed files; what a start finds after one cut, two cuts, errors; only the cap splits a save; with one fault at most the files, buffers and threads implement `SaveCard` | 4 versions of 2 chunks, limits 3 and 5 frames, 3 faults |
| `sram_file_live` | each version is written or the player told | limits 2 and 3 frames, 1 fault |
| `sram_file_exit` | *violation*: closing the program loses the save before it | as `sram_file` |
| `save_slots` | what the player sees, EWRAM and the save memory agree between operations, other slots are untouched in the middle of one, and the card implements `SlotStore` | 2 slots of 3 chunks, 4 saves, limits 3 and 12 frames, 1 frame of other writes |
| `save_slots_copy` | *violation*: a copy that leaves the head of the old file on the save memory | the same, 3 saves, `StaleChunk` |
| `debug_link` | the server's thread keeps what it uses, restarts after the countdown only, installs come to an end; answers are of their own request, jobs are waited for, the link never jams nor keeps a stop waiting | 2 threads, 2 commands, wait of 2 frames, 1 button for up to 2 frames |

Why the bounds are enough. **Save states**: two ids are the least with a gap in the numbering and an
overwrite beside an untouched state; one job slot means a third id meets no new situation; the delays
(`SS_JOB_DELAY_FRAMES`, `SS_JOB_GIVE_UP_FRAMES`, `SS_READY_FRAMES`) are 1 or 2 instead of 2, 120 and 20: each
counter passes zero, an intermediate value and its limit. **StatePointers**: the builds differ in all the ways the code
tells apart: the ROM elsewhere, everything elsewhere, a table longer, a table shorter, a function gone, a variable gone, a
variable saved by one and kept by the other; the variables are a table, two mixed ones (one with variables in
its rule), one derived from the ROM, plain data and the kept one, and every word of a table or of a mixed variable
takes every place its rule allows, and the addresses of places its rule does not. **Updater**: `sBusy` lets one worker live, so a
second thread is the one that would break it; of two numbers the greater has the smaller last part, and a list of two is
the least with an order. **RaServerCalls**: five calls fill a queue of two, the
worker, the responses and the drain, and overflow once; the code's limit is 8 and the proofs cover it. **RaSession**: two
accounts let one be typed while the other is logged in or its login is on its way; four touches are off, on, off, on, or a
typed name between any two of these. **SramFile**: two
buffers, two saves of two chunks and any number of read-backs, which also dirty the memory, reach each
combination of a queued, a written and a filled buffer; three faults are one more than `ErrorsLeaveASave` allows.
**SaveSlots**: with two
slots the first's overrun meets the second file, and the second's the first backup; three chunks have a first, a
middle and a last one (the code's have nine full ones and a rest); two saves beyond those on the card let a slot be saved
twice or both once. It begins from each card a stopped operation could have left (one region begun, erased or half
erased), and restarts reach the rest; the limits are 3 and 12 frames (the code's 3 and 90, for files of ten chunks), with
`Ahead + 2 * CHUNKS + 3` under the cap. **DebugLink**: a late answer needs the request it belongs to and the one it is
taken for; a server that is stopped and started again needs a second thread.
All bounded counters are named in the modules (`MaxId`, `MaxCalls`, `MaxVersion`, `MaxFaults`, `MaxCommands`,
`MaxTouches`, "Bound:" comments).

Runs that say `CHECK_DEADLOCK FALSE` stop at such a bound: all commands, calls or touches are spent.

## Fairness

* `SaveStates!FairSpec`: weak fairness of the service, which the main loop calls each frame. The game
  mode changes freely: nothing says that gameplay comes back.
* `UpdateReleases!FairReleasesSpec`: weak fairness of each worker. The logic thread sleeps once a frame, and libcurl is
  told to give up a transfer that stalls. Nothing is assumed of the player.
* `RaServerCalls!FairSpec`: weak fairness of the drain (`Port_RA_Update`, each frame) and of the worker. A thread that
  could not be created is not assumed to appear later: the property asks only for calls made once it runs.
* `RaSession!FairSpec`: weak fairness of the answers, which is what `ra_server_calls` shows (`EveryRequestEnds`), and of the
  delay and the load that `Port_RA_EvaluateTriggers` counts and begins each frame. The ROM is not assumed to be mapped.
* `SramFile!FairSpec`: weak fairness of the frame, of the flush and of the save thread; strong fairness of the
  two steps that take `sSaveMutex`, because the logic thread holds it only for one copy in a frame and
  then sleeps: the save thread finds it free again and again, though not for ever.
* `DebugLink!FairSpec`: weak fairness of the logic thread's frame, of the ten seconds, and of what the server's thread does of
  itself: it naps between polls, and its transfers have limits of their own. Nothing is assumed of the client, of the
  player, or of the job service.

## Proofs

All theorems are checked by TLAPS for every value of the constants that satisfies the modules' named
assumptions (`SaveStatesAssumption`, `UpdaterAssumption`, `ReleasesAssumption`, `UpdateReleasesAssumption`,
`RaServerCallsAssumption`, `RaSessionAssumption`, `SramFileAssumption`, `FtpServerAssumption`, `DebugLinkAssumption`: types and
positivity; `SaveSlotsAssumption`: types, and a cap of the flush that is longer than an operation (90 frames against
23 and those of `Ahead`); `BuildAssumption`, `ContentAssumption`: in a build no two things overlap, and what is saved
keeps to the documented rules), evaluated by TLC in each run. Every invariant, action property and refinement that a passing run
checks is the statement of a theorem. The type invariants are proved (`Typed`, `TypeCorrect`) and so not run. What a
theorem assumes besides is written in it as ASSUME, and is what its run's configuration says.

* **`SaveStatesProofs`**: `Typed` (types and control), `ListStays` (the inductive invariant), `ListTells`, `NewSaveIsNew`,
  `NoStateLost`. The list is a cache, so "the list tells the card" is not inductive by itself: in the
  middle of a job the list is behind the card, in a way that depends on the job's place. The invariant says
  for each place how list, file and `.tmp` relate; `.tmp` equals the new file from the moment the old one
  may go. From it follow `OfferedIsLoadable` (LOAD is offered exactly where the header would not refuse it) and
  `ArchiveImplemented`: `StateArchive`, step by step, with the mapping that `Applied` and `Target` define (what is
  left to prove beside the list is that the machine stands still inside a save, `SavesLive`). `PictureIsTrue` has an
  invariant of its own, over the places of the screenshot, and needs no list. Hypotheses: `ListTells`, `NewSaveIsNew` and `OfferedIsLoadable`
  need that only the console writes to the card (`Undisturbed`), `ArchiveImplemented` and `PictureIsTrue` also that the power
  stays, and `ArchiveImplemented` that the rename works (finding 1 is what happens otherwise). `LoadWhole` and `NoStateLost` need none of these.
* **`StatePointersProofs`**: `PointersBack`, `DataStays`. No two things overlap, so an address names one place (`Found`): a pointer of a
  variable that keeps to its rule is found with the place it names (`PointerIsFound`), a word of data is not
  (`DataIsNotFound`), and a loaded word is what `Apply` makes of exactly that (`WordLoaded`). What holds for the builds of the
  run holds for any number of them, of any layout.
* **`UpdaterProofs`**: `InOrder` (the inductive invariant), `OneJob`, `AskAvailable`, `PromptTrue`, `TitleDeleted`. The invariant
  ties each place of the worker to what the shared variables must be there: the question can be on
  the screen only in the worker's last three places, past `"install"` nothing of an earlier attempt is
  remembered, and from `"am"` on the CIA is whole unless `fclose` lost its end. `PromptTrue` and `TitleDeleted` assume
  that it does not (`CloseMayFail = FALSE`).
  Of `UpdateReleases`: `NewerIsAfter` (what the code calls newer is after in the reference order), `BuildsAreInLine`
  (that order is one), `FirstIsNewest`; `ImplementsUpdater`, so that all of the above holds of the composition; then, over the
  invariant that an install has an offer after the running build and its download such a build (`OffersInOrder`),
  `OnlyNewerOffered`, `OnlyForward`, `UpToDate`.
* **`RaServerCallsProofs`**: `Typed`, `OwnBytes`, `CallOnce`, `EachAnswered`, `InOrder`, `Published`. The calls that are not answered
  stand in one line, through the drain, the responses, the worker and `sPending`; the line is
  increasing, which gives order and "exactly one place", and responses never hold two, which
  gives that the buffer still has the bytes of the one that is there.
* **`RaSessionProofs`**: `Typed`, `OneAtATime`, `Saved`, `WhenItMay`. Never more than two calls wait, and then one is of the login and
  one of the load; rcheevos' state and the guard say which (`SInv`). That a load begins only while somebody is logged in
  needs that CONNECTED is said only then, or when the game is loaded already, although a reconnect says it too.
* **`SramFileProofs`**: `Typed`, `OneVersion`, `Cuts`, `WholeSaves`, `ErrorsSurvived`, `OneCard`. The invariant orders what each file can hold
  (`.bak` before `mzm.sav` before `.tmp`) by the writer's place and by the faults so far, and says which buffer
  nobody fills; that versions only rise while the program runs makes a whole `.tmp` newer than the
  file it replaces. `ErrorsSurvived` counts failed operations: two leave a save to start from, at any step of any write.
  The attempt to prove it for any number found that three may not (renames that failed leave the save under `.tmp` alone, and the
  next write empties that), which a run of two faults could not show; the property says two now, and the run allows three. `OneCard` is the refinement of
`SaveCard`. Each step of the swap leaves what a start would find or puts the held snapshot in its place (`FoundStep`), which needs that
without a fault no save is under `.tmp` alone between two writes (`Opened`); that it never goes back needs what a start finds, what is
written, what is queued and the memory to be in that order (`Ordered`).
* **`SaveSlotsProofs`**: `TypeCorrect`, and for operations that begin at the first chunk (`StaleChunk = FALSE`; finding 3 is what
  happens otherwise) `SlotsAtRest`, `Session`, `OthersKept`, `CardInvariant`, `CardImplementsStore`. What the player sees of a slot
  is not inductive: a bad file the handler has not come to yet, or half its work undone by a soft reset, look the same from outside.
  `AtRest` says how EWRAM, file, backup and flag go together in such a slot, and that an empty slot has no first
  chunk of a backup which the overrun of the file before could complete; `Stages` says how far the slot of an operation is, stage
  by stage. A slot that a step only mirrors stays at rest (`RestStays`), which settles every overrun at once. For
  the card, `Clock` bounds the age of the first unsaved write by the frames that the operation has taken (`Elapsed`), so the
  cap cannot come before the last chunk is written, and every quiet stage of an operation is the first after a write, so three idle frames
  (the code's number; two would not do) do not either (`BusyKeepsCard`); `Known` makes the number of a new save new. For any number of slots and of
  chunks. The proof of `TypeCorrect` showed two CASE expressions of the model whose arms overlapped, and so chose freely where the code
  takes the first: they are IF now.
* **`DebugLinkProofs`**: of the server, `NothingFreed` and `Restarts`: one thread exists at most, and it is the one a stop would join
  or the one a stop gave up on, after which nothing is freed or started any more (`FInv`). Then `Implements`: each step
  of the composition is a server's step, because a request of the link waits only while the server runs (`InSite`), so both
  hold of `DebugLink` too. `TrueAnswers` follows a request through slot, logic thread, line and event: while nobody gave up there is
  one thing under way at a time (`LInv`). `AfterItsJob` and `LinkTyped` rest on what is in the queue (`JInv`).

Only model-checked: the liveness properties (`JobEventuallyEnds`, `InstallIsReported`, `EveryRequestEnds`,
`WrittenOrTold`, `InstallIsFinished`, `LinkNeverJams`, `KeysArePressed`, `OffGoesQuiet`, `SessionSettles`), because fairness and
ENABLED are out of the prover's reach. No recursive definition is used, so nothing is out of reach for that reason.

## Findings

Disagreements between the code and what it says of itself, each reproduced by a run:

1. `save_states_rename_fails`: when the rename that swaps a new state in fails, the old one has been removed
   and the `.tmp` is removed too (`port_save_state.c:797`, against the comment at 793).
2. `sram_file_exit`: closing the program never waits for the save file (`port_bios.c:419`, against the comment at `sram.c:36`).
3. `save_slots_copy`: `SoftReset` clears the array that stands for the console's IWRAM (`port_gba_mem.c:12`), not the
   variables that were there, so `gUnk_3000C20` outlives it. The handler of corrupted files does not set
   `gDisableSoftReset`; a soft reset between two of its chunks leaves the counter in the middle, and if the file on the save
   memory was whole by then (it differed in its first chunks only) no handler follows to reset it. The next copy or delete
   starts at that chunk (`save_file.c:1954`, `2010` reset nothing), and leaves the first chunks of the old file in place. EWRAM
   hides it until the next start, which finds the file bad and falls back to its backup; the ending reads the file from the
   save memory first and loses itself.

Seen while modelling, without a run of their own: a power cut between the rename and the screenshot of a new
save state leaves the previous picture beside new data (`port_save_state.c:808`). A second attempt of the updater opens,
and so empties, the CIA that was kept to finish the first by hand (`port_updater_3ds.c:250`). "Make a backup of the file"
(`save_file.c:732`) is made in EWRAM only: the backup on the save memory is as old as the last start, copy or delete, and the
head of the first one is overwritten when the last slot is saved; the ending of a game in the last slot reads that head back into EWRAM's
backup of the first. A slot with neither file nor backup keeps its flag after the handler, so
the message comes again with each visit of the file select (`file_select.c:2707`). `Port_LoadSram` takes the `.tmp` but does not put `mzm.sav`
back, so after a cut between the two renames the statement at `sram.c:161` ("a complete .tmp and a
complete .bak are on the card") fails with the next write, whose `fopen` empties that `.tmp` (this is
why `CutsLoseLittle` says one cut, and less of two). The flush comes with the second frame without a write, the comment says
three. `SramWriteUnchecked` is also used to read, and marks the memory dirty each time, so each boot
rewrites the file. A failure of `am:net` does not tell the player of the kept CIA. A save state
stored over FTP with an id the list does not know is overwritten by the next new save (why `NewSaveIsNew` excludes FTP).

*Updater.* YES between the moment the worker raises the question and the moment it clears `sBusy` starts nothing and leaves
the progress prompt, which has no buttons, over every tab; so does a thread that cannot be created
(`port_updater_3ds.c:507`; `InstallIsReported` asks only of installs that began). A player who goes back to RELEASES ONLY while a beta is
offered still installs the beta. `Updater_PickRelease` takes the first release it may and compares that one only, so a
list that is not newest first can read UP TO DATE (why `UpToDateIsTrue` says "newest first").

*Debug link and FTP server.* An answer that comes after the 20 s is the answer to the next request; "did not take" may be said of
a request that was taken (`debug_link_3ds.c`, `RunOnLogicThread`). A request that finds a job queued is ignored and answered with the
message of the other job, although `docs/3ds-debug-tools.md:772` says it reads what the job left. KEYS are three assignments:
a frame between them can press the new buttons for the old number of frames and then again. A RETR or STOR without a data connection clears the phase
of whatever shows it, also of a countdown; stopping the server does not clear it, and the countdown goes on. A second installation
that is under way when the first one's countdown ends is cut by the restart. A screenshot that the STATE tab
asks for while another job waits is ignored, and its window goes on showing "...".

*RetroAchievements.* A typed name is saved at once beside the token of the account before, until the login is answered (`Saved` says
what holds once somebody is in). A name and password typed while a token login is under way are refused by rcheevos: the password is
dropped and the status says OFFLINE. A login, or the end of a disconnection, that comes after the switch was turned off
shows CONNECTED, and the login begins one load (`AsksOnlyWhenItMay` allows what follows an answer).

*States of other builds.* `PortStatePtrs_Apply` takes the place past the end of a variable for part of it
(`port_state_ptrs.c:257`), so a pointer into a variable that has shrunk may come back as its end, although the documentation
calls a change of size safe. Pointers of a variable that a later build keeps are written into its live value: only the
variables themselves are looked up in `kNotSaved` (`port_save_state.c:695`, against `718`). A `realloc` that fails while
pointers are collected leaves a state with part of them.

## Abstractions and what is left out

* The contents of the machine, of a response, of the save memory are names or version numbers; texts, dates
  beyond "unknown or not", progress and drawing are left out. A message is modelled where a button
  or a property depends on it.
* An operation of the file system is atomic: it happens, or fails without effect, unless the module says otherwise
  (`fopen "wb"` empties the file first; a write that fails may leave or remove the `.tmp`).
* `SaveStates`: the time the message stays, a `realloc` that fails in `SsUpsert`, an `opendir` that fails in `SsScanNow`, the
  screenshot buffer, and the debug link's reading of memory are left out. The memory of a load is a name here; what is in it
  is `StatePointers`' matter.
* `StatePointers`: offsets count words and everything is aligned; the search in the tables of names and symbols, the memory
  regions (copied as they are), the restart of the music, and lists that find no memory are left out.
* `Updater`, `Releases`: the JSON text (a release that is cut short is one without a CIA), the texts, the progress bar and the
  configuration file.
* `RaServerCalls`: the badge that was wanted last goes first in the code; in the model any. `Port_RA_Shutdown` has no caller.
* `RaSession`: hardcore mode, toasts, the badge and list views, rcheevos' other events and its own retries of unlocks are left out. A queue that is full of
  other calls is a choice at each call, as is what each answer says.
* `FtpServer`, `DebugLink`: install-only mode, the log ring, the watchdog, the count of users of the network, notices and texts,
  and the commands that only read. What an installation does is `Updater`'s `InstallFromFile`; here it succeeds or fails. A
  request to quit closes the program at once. The requests on save states have the queue of `SaveStates` reduced to one slot
  and its message.
* `SramFile`: `Port_FlushSramWait` is unreachable (`agbmain.c:579` follows an endless loop) and left out; read errors are not modelled.
* `SaveSlots`: contents of a file (the checks read three texts and a checksum: a chunk's number stands for them), difficulty, times;
  the saves and tools of debug builds; `gSramCorruptFlag`, which stays `FALSE` in the port; what follows the last backup in memory and
  is moved along with it; save states, whose load also
  replaces the save memory, are in `SaveStates` only.

## Plan

Done: the modules above. What is left, in this order:

1. `SaveSlots` with the steps of `SaveCard` instead of the choice in `card'`, so that the two meet in one module and not only in this text.
2. `SaveStates` with `DebugLink` on one queue, which would replace its `PlayerJob` and `JobEnds`.

Not modelled, and why: the handoff of frames and the audio ring have two threads each, but what can go wrong there is seen or heard for a
moment and leaves no state that a property could be about, and its timing is the hardware's; rendering, effects, layout and
synthesis are arithmetic on data; start-up code is sequential and runs once; the game is sequential and unchanged by the port;
the rest of the repository's lines are tables of graphics, rooms and music, which have no behaviour.
