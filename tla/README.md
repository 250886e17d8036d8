# Verification of Hybrid Heaven: Recompiled

TLA+ models of the port's own code: the C++ in `src/` that stands between the
recompiled game, the runtime (librecomp, ultramodern, RT64) and the player's
machine. Modules are model-checked with TLC on small instances; the modules
named `*Proofs` hold theorems checked by TLAPS for every value of the constants.

    tlc -workers 2 -config ControllerPak.cfg MCControllerPak.tla
    tlapm ControllerPakProofs.tla

## The system

The game is a Nintendo 64 program translated to C. The port supplies what the
translation cannot: devices, the loading of overlays, the screen and the sound.
Several threads are in it at once: the game's own (ultramodern runs them as host
threads), librecomp's main loop (`update_gfx`, about 60 times a second), the
graphics and RSP task threads, SDL's audio thread and the watchdog.

| Component | Source | State | Operations | What is hard |
|---|---|---|---|---|
| Controller Pak store | `src/controller_pak.cpp` | four 32 KiB images, loaded and dirty flags, one mutex, four files | read and write a block (game thread); flush (main loop, shutdown) | crash between truncation and write, disk errors, order of set-up |
| Code file loading | `src/sections.cpp` | which code file is registered where, one mutex; librecomp's function map | two wrapped loaders; lookup miss | partial overlaps, two loaders, when a file is announced |
| Joybus SI, Rumble Pak | `src/si_pak.cpp` | identify register of each port, motor | a write and a read transfer per transaction | two accessories on one slot, completions, interleaved ports |
| HUD rewriter | `src/hudrewrite.cpp` | two scratch buffers; state of a walk over a display list | copy a list with its calls, wrap classified draws | state in force at a call, overflow, buffers reused |
| HUD inspector and tags | `src/inspector.cpp`, `include/hh/hudid.h` | overrides, elements of a frame, the tag file | note an element, set a class, save, load | panel and renderer threads, flag beside table, file rewritten |
| Audio queue, resampler | `src/callbacks.cpp`, `src/resample.cpp` | device, queued frames, resampler phase | queue, remaining, set frequency | rate change with samples queued, under- and overrun |
| Audio tasks, watchdog | `src/callbacks.cpp`, `src/crash_handler.cpp` | recorded task, private copy, deadline | run, re-run after a failure, arm, disarm, watch | list rewritten while running, deadline read then cleared |
| Players, input, rumble | `src/callbacks.cpp`, `src/testdrive.cpp` | controllers, assignments, script position | poll, read a port, assign, rumble | assignment against the dialog, two sources of input |
| Launcher, lifecycle | `src/main.cpp`, `src/frontend.cpp` | set-up order, autostart | start, quit, shutdown | order of shutdown, lookup miss as an exit |
| Mods | `src/mods.cpp` | enabled texture packs | enable, disable, reorder, publish | list copied under a lock, used outside |
| Diagnostics, ROM check, renderer glue, stubs, tools | see `PROJECT.json` | - | - | sequential or without effect on the rest |

How they interact. The game's libultra packs a joybus frame and calls the SI
function of `si_pak.cpp`, which answers it from the identify register, from the
motor or from the store; the store's files are written by the main loop and by
`shutdown_platform`. Every call the game makes is resolved through librecomp's
function map, which `sections.cpp` keeps in step with the files the game loads;
a call the map cannot resolve ends the process at once, and that is the crash the
store has to survive. Display lists pass through the rewriter, which asks the
inspector for the class of each element. Audio lists are copied, run under the
watchdog, and their samples are resampled into SDL's queue.

## Modules

| Module | Models | Notes |
|---|---|---|
| `PakStore` | what `controller_pak.h` promises | abstract specification |
| `ControllerPak` | `controller_pak.cpp`, with the steps of `main.cpp` and `callbacks.cpp` that call it | implements `PakStore` |
| `ControllerPakProofs` | theorems about it | |
| `CodeMap` | what `sections.cpp` owes librecomp | abstract specification |
| `Overlays` | `sections.cpp`: both wrappers, the eviction loop, the lookup miss | implements `CodeMap` |
| `OverlaysProofs` | theorems about it | |
| `SiPak` | `si_pak.cpp` with the game's scripts of transactions | stores blocks as `PakStore` promises |
| `HudRewrite` | `hudrewrite.cpp`, `send_dl` of `frontend.cpp`, and how RT64 reads a list | checks each copy against the game's list |
| `HudFeed` | the walk of `dlcensus.cpp` that names the panel's elements | extends `HudRewrite`: two walks over one frame |
| `Inspector` | `inspector.cpp`: overrides, frames for the panel, `hud.json` | two threads and a restart |
| `AudioTask` | the run of an audio task (`callbacks.cpp`) and the watchdog (`crash_handler.cpp`) | composes game, RSP task thread and watch thread |
| `AudioQueue` | the audio queue (`callbacks.cpp`) over the resampler (`resample.cpp`) | counts and positions, no samples |
| `Players` | polls, assignment of pads, `get_input`, rumble (`callbacks.cpp`), the script (`testdrive.cpp`), autostart (`frontend.cpp`) | two polling threads and the dialog |
| `SiPakProofs`, `HudRewriteProofs`, `InspectorProofs`, `AudioTaskProofs`, `AudioQueueProofs`, `PlayersProofs` | theorems about the module each is named for | |
| `MC*` | the instances TLC checks | |

Definitions whose name holds an underscore and whose comment says "mutant" are
faults kept beside the definition they vary; `Next` never uses them. Each shows
that the property it is listed with in `PROJECT.json` would notice that fault.

### ControllerPak

`mem`, `loaded`, `dirty` and `dir` are `g_pak`, `g_loaded`, `g_dirty` and whether
`g_dir` is set; `file` is the disk, `lock` and `job` are `g_mutex` and the access
a thread holds it for, `at` and `stage` are the progress of `flush`. `main` is
where the main thread is. An access whose pak is loaded, or whose file is read
whole, is one step: it holds the mutex, and nothing but the mutex orders it with
other accesses. `ensure_loaded`'s creation of a file and each file of `flush` are
split at the constructor of the stream (which truncates), the write and, in
`flush`, the assignment to `g_dirty`, because a crash may come between them.
`Crash` is any end of the process that runs no more of this code; the one the port
itself chooses is the lookup miss (`sections.cpp:249-255`).

A disk error is one of three kinds: a file cannot be opened for writing, an
existing file cannot be opened or read, a write fails. `FaultKinds` says which a
run has. With `"open"` alone the code keeps every promise; the other two are the
findings below.

### Overlays

`registered` is the set of files with `g_loaded_at[i] != 0`, `func_map` is
librecomp's map restricted to the files' functions, `holder` and `at` are
`g_load_mutex` and the loop variable of `announce_load`. `ram` says which file each
address holds; the game's two loaders fill it a piece at a time. `file_load` is
announced before its bytes come, the streamed loader after the last of them.
One assumption on the game, that it does not run two loads into the same memory at
once, is a guard of `BeginLoad`. librecomp's `load_overlay_by_id` and
`unload_overlay_by_id` are external and modelled as the comments in
`announce_load` describe them: the first overwrites, the second erases only the
entries that still belong to the file it names.

### SiPak

`cell` is the last byte of each `g_detect_cell`, the only one the code compares;
the game fills the block with one value. `pif` is the game's buffer: the header
bytes with the filler of the channel, and the address, data and answer as fields.
`service_frame`'s search over channels and shapes is evaluated on those bytes.
`completions` is the game's SI queue. What the game sends is external: the scripts
of `osMotorInit`, `osGbpakInit`, the pak check, and accesses to a note. The game
is trusted to run one script per port at a time and to access notes only after a
check, the motor only after a probe (`D_80037780`). The CRC bytes are left out: the
game packs right ones and the code echoes right ones.

### HudRewrite

A display list is a sequence of commands. `writer` is the C++ `Writer` with the locals
of the `copy_list` that is running: `out` is the scratch buffer, `known` the `have_*`
fields with their words, `used` counts commands as `reserve` counts bytes, `list` and
`pc` are where it reads, `cls` is `branch_cls`. `calls` are the calls of `copy_list` that
wait for it, with the place of the jump each has to patch. `Copy` is one turn of the
loop: a command copied, a branch followed inline (`Branch`), a call entered (`Enter`), or
the end of a list, where the waiting call patches its jump and is itself written
(`Leave`). `SendDl` starts a copy, `Submit` accepts it or falls back on the game's list.

`Read` is RT64, external: it reads a command of the copy (`rt`), and, if that command is
the game's own and no addition of the rewriter, a second RT64 reads one of the game's
list (`game`). What both have drawn when the copy ends is compared. A viewport takes the
alignment and a projection the aspect that are set when it is loaded, a rectangle
those set when it is drawn, and the end of any list turns the extended GBI off, which
is what the code's comments say of it. Segments, identities and coordinates are
abstract; projection commands are loads, as the game's are. The guard of 40,000 turns
and the end of RDRAM are left out: the game's lists end (`Ends`). Each emitted command
carries the spot of the game's lists it was emitted at; the code keeps no such note and no
action reads it, the proofs do. All of it runs on one thread, so the interesting
part is not the interleaving but the lists.

### HudFeed

`Walk` is `walk` of `dlcensus.cpp` as far as names go: which identity each draw is
listed under, with the name a branch takes and the one a call gives back. It runs
over the same `lists` that were copied, so one property can set the panel's
names against what the rewriter moved. The lists are as the feed leaves them: its
snapping of overscan scissors, which changes bytes that identities are made of, is
before the first state. Triangles of the submitted list itself are listed by a
texture, which the rewriter never wraps triangles for. The feed gives up at depth
12, the rewriter at 10; the model's lists end before either.

### Inspector

`overrides` and `any` are `g_overrides` and `g_any_overrides`; `unlocking` is the
moment between the change of the table and the store of the flag, which the panel
makes before it releases the lock. `asked` is a call of `class_for`: the flag read
outside the lock, the table inside it. `building`, `published` and `held` are the
three frames, an element is the number of the frame that listed it. `file` gives
the lists each identity stands in, or `None` for anything that does not parse.
`SaveOpen` truncates, `SaveWrite` writes the whole or fails; `Restart` may come
anywhere. A file that is there may also fail to open for reading, at the start
(`Loads`) or at a save (`Found`); the code takes it for one that is not there, and
`ReadFaults` says which a run has. `HandEdit` is the player or
`tools/promote_hud_tags.py` rewriting the file. A failed write still shows "saved" in
the panel.

Two observers say what the player was given to understand, and are computed from the
table and from what was in the file before, never from what the merge makes of them
(`Merged`): `taken` has the identities whose tag was taken away in the panel, and
`promised` the tags the next session owes. A save that ends adds the table's tags to
`promised`, removes the ones taken away and leaves the rest as they were (`Answers`).

### AudioTask

`list` holds the game's two buffers, written a command at a time and submitted in
turn. `rsp` says where the RSP task thread is in `asp_main_watched`: the copy, the
arming of the watchdog, the run, the disarming, the re-runs of
`bisect_audio_task`, the report of the end. `deadline` is `g_watch_deadline_ms` as
none, set or passed; the watch thread's load and its store of 0 are two steps with
the report between them. A run is watched once the thread has given up its handle
(`registered`); a `DuplicateHandle` that fails leaves it unwatched and is tried again
by the next run. A command is its frame and what it does to a run: nothing, damage to
the microcode's jump table, after which the run may fail at any command, or an early
exit that leaves nothing to see. Any run and any re-run may also fail of the state it
finds, whatever its commands (`ofState`): the search has a branch for "nothing visible,
yet the run failed" and one for "every prefix ran clean on re-run: the failure depends
on state the first run changed" (`callbacks.cpp:939-948`). A command that does damage
in one state and not in another counts as state. The failure of every task whose list
lies above 8 MB (`callbacks.cpp:970-973`) is of an earlier address of the copy and
cannot happen with the present one. Any run may spin (`Hang`; `HangSearch` in a re-run,
which nothing watches).
`task` and `dmem` are kept apart because the code reads the one and the microcode
the other. One pacing assumption, `Begun`: the game does not start on a buffer
before the task that was made in it has begun.
The watch functions do nothing off Windows (`crash_handler.cpp:469-470`); the model
is of Windows.

### AudioQueue

`conv` is the resampler: both rates, the frames of `g_pending` and the position,
in parts of a source frame so that it is exact where the code has doubles.
`process` adds a buffer, makes the outputs whose kernel has arrived and drops what the kernel
can no longer reach. `queue` is SDL's queue in device frames, `headroom` what
`get_frames_remaining` hides from the game. The device takes a period at a time.
`own` is the choice between converting in the port, when the device stays
open, and reopening it at each rate. A change of rate throws away input the kernel
waited for, as `configure` does. Sample values, volume, mute, the swap of channels
and the diagnostics of `audiodiag.cpp` are left out.

### Players

`pc` and `seen` are the two callers of `poll_input`, the main loop and the game's
thread before it reads; the second returns at once on macOS (`setup.apple`).
`assigned_once` and `assigned` are the statics of `refresh_players`, which no lock
guards: the comparison, the two assignments, the test of the dialog and the write
of the players are a step each. What a vector copied by two threads would hold is
undefined and not modelled; the vector is copied whole. `is_assigning` is the
frontend's dialog, `Commit` its choice. `auto_assign_controllers` is the function that
`tools/patch_recompinput.py` adds to recompinput; the rest of that library is
external. `stands` observes that the dialog was answered with the polls at rest and that
no pad has come or gone since, `named` who named the players last; no step of a poll
touches the first. `Focus` and `Rumble` are the rest of the main loop's tick: the motor's flag
is taken back while the window has no focus, then `update_rumble`, then
`maybe_autostart`. `Read` is the runtime's call of `get_input` for one player, and
`given` its answer: the devices merged, nothing while a menu has the input, or no
controller. A script is its lines, each with a player, an interval, and whether its
buttons parse; its clock starts when it is first read.
Two observations beside the properties. A pad that comes or goes while the dialog
is open is recorded as assigned before the assignment is refused, so when the
dialog is cancelled it stays unassigned until the next change (`refused`). And the
script's clock starts at the game's first read with no menu over it, where
`testdrive.cpp:89` has "seconds since the window opened".

## Runs

| Run | Question | Result |
|---|---|---|
| `pak_store` | Does the store keep what the game wrote, through crashes at any step and files that cannot be opened for writing? | holds, about 61,000 states |
| `pak_failed_write` | Does `flush` persist "every pak modified since the last flush"? | violated: finding 1 |
| `pak_unreadable_file` | Is a file created only "if absent"? | violated: finding 2 |
| `overlays` | Does the function map follow two loaders over overlapping files? | holds, about 34,000 states |
| `si_pak` | Does every probe, save and motor command get its answer, on two ports at once? | holds, about 93,000 states |
| `hud_rewrite` | Does the copy draw what the game's list draws, with the tagged elements moved and nothing else, and does the panel name what moves? | holds, about 1.25 million states |
| `audio_tasks` | Does every task run its own commands and end, and is a run that hangs announced, once and rightly? | holds, about 557,000 states |
| `audio_queue` | Does the conversion neither lose nor invent input, and does the device always find a period? | holds, about 19,000 states |
| `hud_panel` | Do edits, lookups, frames and saves of two threads agree, through a process that ends anywhere, and does a save keep the entries it does not change? | holds, about 3.7 million states |
| `players` | Does the dialog's choice stand, and does everything settle on the pads that are in? | holds, about 1.02 million states |
| `hud_rewrite_state` | Is a called list drawn under the game's scissor and viewport? | violated: finding 3 |
| `hud_rewrite_nested` | Is every classified element moved as a whole? | violated: finding 4 |

What the properties say:

- `CleanMeansOnDisk`: a loaded pak that is not dirty reads back the same after a
  crash in the next instant. It relates memory, flag and file, and is what makes
  the once-a-second flush enough.
- `CleanExitSaves`: after a clean exit nothing is left modified, unless the disk
  refused that very file.
- `OnlyFlushTruncates`: loading never destroys a file that holds a pak.
- `ImplementsPakStore`: loads, flushes and restarts are invisible to the game but
  for what a crash may do to a pak that was modified and not yet flushed.
- `WritesReachDisk`: a modification is on disk in the end.
- `RegisteredDisjoint`, `MapExact`: the table and the map agree at every step of
  the eviction loop, and no two registered files overlap.
- `ResidentResolves`: a file that is whole in memory at its link address can be
  called, whichever loader brought it. This is issue 001 stated in general: with
  only `file_load` wrapped it fails.
- `ImplementsCodeMap`: to a caller a load replaces what it overlaps at one point
  in time.
- `LoadsEnd`: no load and no lookup miss waits on `g_load_mutex` for ever.
- `VerdictsRight`: every probe ends with the slot's answer, whatever was in the
  identify register before. The register's rule (`si_pak.cpp:135-154`) was found in
  two steps, each of which broke another probe (`docs/findings/phase-05.md`).
- `LoadsSeeSaves`, `EmptySlotsUntouched`, `MotorFollowsGame`, `ScriptsEnd`: saves are
  read back; no file appears for an empty slot; the motor does not outlast the
  game's stop; every transfer completes.

- `SameDraws`: the submitted list draws the same things in the same order, no
  extended command reaches RT64 while it is off, and a copy that does not fit is
  not submitted.
- `UnclassifiedAsBefore`: a draw outside every classified element is made under
  exactly the state the game asked for, whatever was wrapped before it.
- `ClassifiedAsTagged`: a tagged rectangle, or a draw of a tagged list that sets no
  state and holds no other tagged element, differs from the game's draw in what its
  class says and in nothing else. The two restrictions are findings 3 and 4.
- `PanelNamesWhatMoves`: a class given to the name the panel shows for a draw is the
  class that draw is made with. It relates the two walks, which share no code but
  `hudid.h`.

- `RunsOwnCommands`: a task that fits the copy runs the commands the game wrote for
  it, although the game overwrites its buffer meanwhile. A list that does not fit
  runs in place, and the property does not cover it.
- `BlamesFirst`: the search of a failed run passes over sound commands only, and the
  command it names is one that damages the table or ends the run and one that ran,
  however many commands later the run failed. It names a sound command only if
  the re-run failed of its state, and one that never ran, or none, only if the run did.
  Lists that do not fit the copy are not covered: the search re-runs the game's buffer.
- `AlarmsTrue`, `HangsAnnounced`: the watchdog reports only runs that outlasted their
  deadline, and all that never return. Both excuse one race (`stale`): the watch
  thread has read an earlier run's passed deadline and not yet stored its 0 when
  the next run is armed, and the store wipes the new deadline.
- `TasksComplete`: every task is reported complete, a failed one too, unless the
  microcode spins.

- `Seamless`: input fed and output made differ by what the kernel waits for, and by
  nothing that depends on how the input was cut into buffers.
- `KernelCovered`: what is dropped is never what the next output reads, and the
  history does not grow.
- `NeverDry`: once something was left over the headroom, every pull of the device
  finds a whole period, also across a change of rate.

- `AnswersCurrent`: a class the rewriter is told was in force at some moment of the
  call. With the flag read outside the lock this needs that it only ever says
  "none" when the table is empty.
- `ShownWhole`: the panel's frame is finished and holds one frame's elements.
- `Remembered`: a whole file gives the next session every tag that was saved or
  written by hand and not taken away since. It relates the file to the answers
  given over several saves and sessions, so a merge that drops the entries the panel
  has not touched breaks it (`Merged_Anew`), and so does one that leaves an identity
  in two lists (`Merged_Both`).

- `ChoiceStands`: no poll overrules the dialog. While it is open none names players
  (`ModalWins`); and what it answered stays through every poll of both threads until a
  pad comes or goes or it is answered again (`AnswerStands`), so a program that
  assigned at every poll breaks it (`Known_Forgotten`). Excused are an assignment
  already past its test when the dialog opens and an answer given before the polls
  have caught up with the pads.
- `Settles`: when nothing happens outside any more, the statics hold the pads
  that are in, the game reads the first as player one's with the keyboard and the
  second as player two's, a script stands in for a second pad only if it was read
  whole, and the motor does what was last asked and stands still while the player
  is away. Three excuses, each of which TLC shows to be needed: a choice of the
  dialog, a change refused by the open dialog, and two polls that saw different
  pads and recorded and assigned across each other.

### Bounds

- `pak_store`: two ports, because ports meet only in `flush`'s loop, which needs a
  port before and a port after the one that fails; two blocks with two contents,
  so a write can change one block, both or none; one disk error. Files start
  absent or with any image. The process may crash and restart without bound.
- `overlays`: three files laid out as the game's windows are (two that overlap
  partly, one inside another, two that touch), a data file, a heap copy; three
  addresses. Loads and restarts are unbounded.
- `si_pak`: the two ports the game has players on, block 0 and the last block of
  storage, two contents. The paks start blank (`MCSpec`). Scripts are unbounded.

- `hud_rewrite`: one submitted list, a middle list of any two commands, a leaf and a
  list too deep to be copied: calls and branches in every position relative to state
  changes, rectangles and ends, every pair of classes. `MaxDepth` is 2 (10 in the
  code), so that the limit is met; the deepest list has no class, as the code drops
  it. `ScratchSize` is 50 commands (20,000 in the code): 315 of the 42,336 frames do
  not fit. The class `right` takes `left`'s code with another constant and is left
  out.
- `audio_tasks`: three lists, so that a buffer is used twice and a third task waits
  behind a second; lists of three and four commands with a copy of three, so one kind
  fits and one does not. A list has damage at its second place and an early exit at its
  third, so that the first of two culprits has to be told from the second and a sound
  command stands before both, or damage at its fourth, which is nothing wrong with a
  list of three. The bound on lists is where the system stops, hence
  `CHECK_DEADLOCK FALSE`.
- `audio_queue`: two game rates and three device rates, below, equal to and above
  them, none a multiple of another; a period of 32 frames, about one video frame,
  and two taps a side. `Headroom`, `Extra` and `Least` are the code's proportions and
  what the comments say of the game. The model has no bound on time: the state is
  finite because the queue is.
- `hud_panel`: two identities, one of each built-in class, and two classes: what
  matters is whether the table is empty, and whether an identity is in it. One
  element a frame, so that the second meets the cap. The file is at first, and by hand
  becomes, one of two, one of them with an identity in two lists; a start may fail to
  open it. One override by `HH_TEST_HUD_OVERRIDE`. The run's `VIEW` leaves out the held
  frame while nothing is held: no action and no property reads it then.
- `players`: two pads for two players; three events from outside (`Events`), enough for
  two changes across two polls, for a dialog opened, answered and a pad changed, and
  for a pad change while the dialog is open. Two ticks to the autostart and one second
  of script. Three set-ups: macOS with a script for both players; no dump accepted;
  two polling threads with a script that breaks off. The start by hand is not
  counted as an event.

### Fairness

- `ControllerPak`: weak fairness of the steps inside `flush` and `ensure_loaded`
  (a thread that holds the mutex runs on) and of the start of a flush: `update_gfx`
  ticks for ever, and the game's accesses are short, so the mutex is free again
  and again; after a quit nothing else competes for it. The game need not do
  anything.
- `Overlays`: strong fairness of each loader's thread, because the mutex may be
  taken in between; weak fairness of the report of a miss.
- `SiPak`: strong fairness of each port's thread, for the SI semaphore.
- `AudioTask`: weak fairness of the RSP task thread and of the watch thread, which
  wait for nothing but their work, and of `Tick`: a deadline passes. None for the
  game, and none for `Hang`.
- `Players`: weak fairness of the main loop, which librecomp runs for ever, and of
  the game's thread, which reads its controllers every frame once it is started.
  None for anything outside.
- `AudioQueue`, `Inspector`, `HudRewrite`: none; their properties are of safety.

## Findings

1. `flush` clears `g_dirty` whatever became of `out.write`
   (`controller_pak.cpp:191-192`). If the write fails after the stream's constructor has
   truncated the file (a full disk), the pak is on disk in no form and is not
   written again until the game changes it. Run `pak_failed_write`: load, write,
   flush, failed write, and the pak counts as persisted.
2. `ensure_loaded` treats a file that exists but cannot be opened or read whole as
   absent: it formats and truncates it (`controller_pak.cpp:116-137`). The header says
   "created ... if absent", and the comment at lines 121-122 argues for short files
   only. Run `pak_unreadable_file`: a good file, one failed read, an empty pak.

3. The rewriter copies a called list before it emits the commands around the call
   (`hudrewrite.cpp:265`, then `275`), and `widen_scissor` and `viewport_align` use the
   last scissor and viewport it has copied. A classified list that sets its own is
   therefore entered with the state it ends in. Run `hud_rewrite_state`: a draw, then
   a scissor, in a tagged list; the draw gets the scissor. Lists that set
   neither are not affected (`ClassifiedAsTagged`).
4. `group_end` and `rect_end` restore the neutral state, not the enclosing element's
   (`hudrewrite.cpp:161-216`). Run `hud_rewrite_nested`: a list tagged left calls
   another tagged left, and what it draws afterwards is not moved.

### What the excuses leave out

Some properties excuse one thing each, so that what is checked is that nothing else
goes wrong. For five of the things excused a property without the excuse stands beside
the one that has it, with a configuration in which TLC finds the counterexample. They
are not among the runs above.

| Configuration | Property | What TLC shows |
|---|---|---|
| `AudioTaskLost.cfg` | `HangsReported`, `HangsAnnounced` without `stale` | The watch thread loads a passed deadline, the run returns, the next is armed, and the store of 0 (`crash_handler.cpp:343`) wipes its deadline. The report that follows is of a run that has only begun; when that run hangs later, nothing reports it, where `crash_handler.h:9` says "if it has not finished after `seconds`, reports where the calling thread is stuck". |
| `PlayersRace.cfg` | `PlayersFollow`, the players' part of `Settles` without `raced` | Two polls that saw different pads record and assign across each other (`callbacks.cpp:126-134`); the players stay those of the older list, and every later poll takes them for assigned. |
| `InspectorTaken.cfg` | `TakenStaysAway` | A tag loaded from the file and set back to "as classified", which "takes the override away again" (`inspector.cpp:295`), is still in the file after a save, because the loop at 120-131 moves only what the table holds, and is back in the next session. |
| `InspectorTorn.cfg` | `SavedSurvives` | A save broken off between the truncation (`inspector.cpp:133`) and the write loses what earlier saves had stored, though "a saved override survives a restart" (90-91). |
| `InspectorUnread.cfg` | `Remembered`, with `"save"` in `ReadFaults` | A save that cannot read the file that is there (`inspector.cpp:97`) writes over it, though it keeps "any entries already there that the panel has not touched" (89-90). |

## Proofs

Every safety invariant, every action property and both refinements that the runs
check are theorems, except three of `HudRewrite` and `HudFeed`. Each proof is of one
inductive invariant per module, called `IInv` or built up in parts, which TLC has
checked on the run's instance as well. A property alone is seldom inductive; what had
to be added is the argument why the code works, and is given here.

`ControllerPakProofs`, for any ports, blocks, contents and number of disk errors:

- `TypeCorrect`: `TypeOK`, and with it `LockInv`, which ties the holder of the mutex
  to the thread inside: who flushes holds it, who creates a file holds it. The
  conjunction is inductive; every other proof rests on it.
- `FileKept`: without read errors, `OnlyFlushTruncates`. It needs that the game runs
  only once the directory is set (`DirInv`).
- `CleanOnDisk`: with at most `"open"` errors, `CleanMeansOnDisk`. By itself the
  invariant is not inductive: in the middle of a flush the file is short, or
  already written with `g_dirty` still set. `DiskInv` says what the file of
  port `at` holds once it is written, and `DirInv` that an access under creation
  finds a formatted or short file.
- `ExitSaves`: `CleanExitSaves`, whatever the disk does. `ScanInv`: in the last flush
  every port before `at` is clean or was refused, because the game is gone by then.
- `StoreKept`: with at most `"open"` errors, `ControllerPak` implements `PakStore`. What
  the game sees of a port is the image in memory, or what loading it would give. A
  block access is one of the store's, the step that clears `g_dirty` is `Persist`, the
  start and the end of a process are `Restart`, and every other step is a stutter:
  creating a pak shows the game what was there before, and truncating a file is
  not seen because the pak is in memory.

`OverlaysProofs`, for any file table and any loads:

- `TypeCorrect`: `TypeOK`; no loader brings more than its file.
- `NeverOverlapping` and `MapFollowsLoads`: `RegisteredDisjoint` and `MapExact`. The
  inductive invariant adds the loop's own: behind `at` nothing overlaps the file
  being announced.
- `Refinement`: `Overlays` implements `CodeMap`. Under the mutex the abstract map is
  the concrete one with the announced file already applied, so locking is the
  abstract step and each turn of the loop a stutter.
- `ResidentIsCallable`: `ResidentResolves`. `Accounted` extends it to the times when
  loads are under way: a file that is in RDRAM, or that `file_load` has announced and is
  bringing, is registered, or some load is going to announce it, or some load has
  announced or will announce a file on top of it, whose bytes will then replace it.
  Two facts carry it: a load has written the bytes it counts (`WrittenInv`), and loads
  do not meet in memory (`ApartInv`), which is the game's own discipline.

`SiPakProofs`, for any ports, accessories, scripts and contents: `TypeCorrect`,
`ProbesTell` (`VerdictsRight`), `NotesKept` (`LoadsSeeSaves`), `EmptySlotsKept` and `MotorObeys`.
The semaphore covers one transfer and a probe is several, so the invariant follows a
script request by request: `Flight` is what a transfer under way holds, `Progress`
how much of the script has been answered, `Slot` what the register, the storage and
the motor then hold, `Verdict` what the game has concluded from it.

`HudRewriteProofs`, for any lists that end, any classes, any depth to which calls are
copied and any size of the scratch buffer:

- `TypeOKHolds`: `TypeOK`; the writer never leaves its buffer, and a copy is submitted
  only while some element has a class.
- `SameDrawsHolds`: `SameDraws`. The copy is built in one walk and read in another that
  jumps about in it, so the invariant has two halves. `CopyInv` says that a copy
  under way is `Good`: each command in it, taken at its spot of the game's lists, leads
  to the spot of the command after it (`Chained`); the jumps that lead nowhere yet are those
  of the calls that wait, one each (`Pending`); and each of those has its callee's copy
  right behind it, which begins with an enable (`Waiting`). A patch of one jump then
  leaves the rest of the chain alone, because no other jump is at its place
  (`PatchGood`), and lands where the copying goes on. A copy that is finished waits for
  nothing and every command of it is `Whole`. `ReadInv` says that the two RT64s are
  `Abreast`: their stacks are as deep as each other, at every level the copy's reader is at a
  command whose spot is where the game's is, or both are in a list too deep to be
  copied; at every level but the top the next command is an enable, and at the top
  too while the extended GBI is off. A step of the copy's reader either stays at its spot
  (`Added`, a jump) or is the game's own command, which the other reads as well
  (`TogetherStep`). That both then stop together is what `SameDraws` needs of the end.

`InspectorProofs`, for any identities, finite set of classes and edits of the file:
`TypeCorrect`, `FramesWhole` (`ShownWhole`), `FileRemembers` (`Remembered`) and `AnswersInForce`
(`AnswersCurrent`). `FileRemembers` supposes that a file that is there opens for a save
(`"save" \notin ReadFaults`). Its invariant says the same of a save under way: what the
save will write gives back what it will promise, for an identity in the table because
the merge puts it in one list and no other, for any other because the merge leaves its
lists alone. `g_any` is read outside the lock: `TableInv` says that it always
belongs to the table last released, and `AskedInv` that what a call has read so far leads
to a class in force since it began.

`AudioTaskProofs`, for any number and length of lists: `TypeCorrect`, `RunsTheCopy`
(`RunsOwnCommands`), `SearchBlames` (`BlamesFirst`) and `AlarmsHold` (`AlarmsTrue`), whatever
the commands do. `BufferInv` is what the game owes a task that waits, so that the copy
is made of the right list; `WatchInv` ties a deadline to the run that armed it.
`SearchInv` says that a run that did not fail of its state has met a culprit, and that
the search has passed over sound commands only. What ran is what was copied (`RunInv`),
so the culprit is in the copy, at the search's prefix or after it: the search can
neither end before it without a culprit nor come to the end of the list.

`AudioQueueProofs`, for any rates, period, kernel and headroom:

- `TypeCorrect`, `NoMark` (`Seamless`) and `KernelHasItsHistory` (`KernelCovered`). The position and
  the history move together when spent input is dropped, so
  `pending * device - pos` is the count of what was fed and not made;
  `ReadyExact` and `DropExact` bound where the division rounds.
- `NoHole`: `NeverDry`, if the headroom is `DeepEnough`: converted to the device's rate,
  a video frame and the headroom, less half a kernel, last for every pull between
  two buffers. Then, from the first buffer with something left over, the queue holds
  a period for each pull still to come (`DepthInv`). The run's instance
  meets the condition, and so do the program's own numbers. At 26,900 Hz the game has
  448 frames in a video frame and 30 ms of headroom are 807; at 48 kHz the device has 800
  and pulls 512. Two pulls between buffers and half a kernel need 484,352 parts, and
  1,003,200 are there. `HH_AUDIO_HEADROOM_MS` can break the condition, so it is a
  hypothesis of the theorem and not an assumption of the module.

`PlayersProofs`, for any pads and at least two players: `TypeCorrect` and `ChoiceKept`
(`ChoiceStands`). `GuardInv` says that no poll is past its test while the dialog is
open, if none was when it opened; `StandInv` that while the answer stands the statics
hold the pads that are in and a poll on either thread that has listed them has nothing
to record, so none assigns, wherever it was when the dialog closed.

The proofs assume only what the modules' named ASSUME clauses state, and the
hypotheses named above: no read errors for `FileKept`, at most `"open"` errors for
`CleanOnDisk` and `StoreKept` (the others are the findings), no read error at a save for
`FileRemembers`, `DeepEnough` for `NoHole`. Of the
assumptions these need the code's reasons: there may be at least two players
(`set_player_count_range(1, 2)`, `frontend.cpp:288`); the classes of the inspector are a
finite set; an audio list has a greatest length (`Largest`), that of the game's buffers;
every list of the game ends or branches; and values that stand for nothing (`None`,
`NoReply`) are none of the values they stand beside.

Only model-checked: the liveness properties (`WritesReachDisk`, `LoadsEnd`, `ScriptsEnd`,
`HangsAnnounced`, `TasksComplete`, `Settles`), which rest on fairness and are outside the
prover's reach; `PanelNamesWhatMoves`, because the walk of the panel's feed is a
recursion over lists, which the prover cannot follow; and `UnclassifiedAsBefore` and
`ClassifiedAsTagged`. Those two compare the state of the two RT64s and not only what they
read. They need an account of which settings of the writer are in force where the copy is
read, and that is not the order in which it is written: a wrapper is emitted after its
callee's copy and read before it, which is what finding 3 is about. They also hold only
while a list that is too deep to be copied sets no state, as the run's does not: the
writer does not see what such a list sets.

## Not modelled

- The order of the game's block writes to a pak: a flush between two of them and a
  crash after it leave a torn filesystem. Both are outside this code.
- File 24's heap copy (`docs/GAME-INTERNALS.md:177-178`): `announce_load` registers it
  at its link address and evicts what is resident there, though the bytes went
  elsewhere. The code says so and goes on. `ResidentResolves` excludes files that
  such a copy overlaps; without the exclusion it does not hold.
- Formats and contents: the layout of an empty pak, CRCs, log lines, sample values,
  what a button or an axis is mapped to.
- The census report of `dlcensus.cpp`, its extents and projections, and the panel's
  drawing: output for a developer, or geometry no property here tells apart.
- When librecomp starts a submitted task. `Begun` assumes it is before the game
  comes back to its buffer; a task that starts later copies a list already
  overwritten, and the copy cannot know.
- Mods: `publish` copies the list of packs under the lock and hands it over outside,
  so two callbacks at once could publish in the wrong order. Whether librecomp makes
  them one at a time is not to be seen in `src/`.
- The launcher's menus and tabs, and the tear-down of SDL in `shutdown_platform`:
  calls of libraries in a fixed order. Its flush is in `ControllerPak`.
- The build without the frontend, whose `poll_input` and `get_input` are other code.
- The components marked not_modelled in `PROJECT.json`, each with its reason.

## Plan

What is left, in this order:

1. The state half of the rewriter's proof: which settings the writer knows where the
   copy is read, for `UnclassifiedAsBefore` when no list too deep to be copied sets any.
2. Composition: `SiPak` over `ControllerPak`, so that a game's save reaches the file.
