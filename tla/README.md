# A verification project for Emu4Vita++

Emu4Vita++ is a libretro frontend for the PlayStation Vita. One program is built per
libretro core; it lists games, runs them, and adds what a core does not have: savestates,
rewinding, audio and video output, cheats, achievements, thumbnails, a menu. It is
written as a handful of threads around a core that is not reentrant, with few locks and
much that is kept apart only by a status variable and by delays. That is what this
project models in TLA+, checks with TLC on small instances, and in part proves with TLAPS
for every value of the constants.

Paths below are relative to `src/frontend/source` unless they start with `share/` or
`arch/` (`src/share/source`, `src/arch/source`). Run a check with
`tlc -config X.cfg M`, a proof with `tlapm M_proofs.tla`.

Contents: [1 The system](#1-the-system), [2 The modules](#2-the-modules),
[3 The runs](#3-the-runs), [4 The proofs](#4-the-proofs),
[5 What is assumed](#5-what-is-assumed), [6 Where code and words differ](#6-where-code-and-words-differ),
[7 What is not modelled, and the plan](#7-what-is-not-modelled-and-the-plan).

## 1 The system

### 1.1 Threads

| thread | code | sleeps on | touches |
|---|---|---|---|
| main | `App::Run`, `Ui::Run`, `Emulator::Run`, `LoadRom`, `UnloadGame` | the rewind thread's semaphore, while rewinding | everything |
| input | `InputThread::_InputThread` (`emu/input_thread.h`) | 8 ms | status, save RAM, states, `UnloadGame` |
| rewind | `RewindManager::_RewindThread` (`emu/rewind.cpp`) | its own semaphore | the core's state, `StateBuf`, `DiffBuf` |
| draw | `VideoThread::_DrawThread` (`video_thread.cpp`) | its semaphore, for 1 ms | textures, `_last_texture` |
| audio output | `AudioOutput::_AudioThread` | `_output_semaphore`, `sceAudioOutOutput` | `_out_buf` |
| resampler | `AudioResampler::_ResampleThread` | its semaphore | `_in_buf`, `_out_buf` |
| network | `Network::_ThreadLoop` | its semaphore | tasks, curl |
| cheats, sound, escape, thumbnails | `cheat.cpp`, `sound.cpp`, `escape_thread.cpp`, `ui/tabs/tab_browser.cpp` | timers | core memory, a queue, the PS button, `Network` |

Shared by all: `gStatus` (`AppStatus`, whose `Set` takes the video lock), the emulator
lock (`Emulator::_mutex`), the video lock, binary semaphores (`share/semaphore.h`: count
at most 1, so a Signal without a waiter is remembered once), and
`ThreadBase::Start/Stop` (`share/thread_base.cpp`), whose `Stop(true)` asks, signals,
sleeps for 10 ms and then forgets the thread without waiting for it to end.

### 1.2 Inventory

For each part: its state, its operations, whom it meets, what is hard, what makes it
correct. The list in `PROJECT.json` has the status of each and its files.

- **Rewind** (`emu/rewind.h`, `emu/rewind.cpp`). State: two savestate buffers and which
  of them is current; a ring of difference blocks with prev pointers, a magic number and a
  sequence number. Operations: `Init`/`Deinit`, `_SaveState` (forward), `_Rewind` (back).
  Called by its own thread; reads and writes the core through `retro_serialize` and
  `retro_unserialize` under the emulator lock; wakes the main thread after each pass.
  Hard: blocks of varying length in a ring, wraps, saving over what was gone back from,
  a failed serialize that left garbage. Correct: never writes outside its memory; a rewind
  loads exactly the state saved before the present one.
- **Audio ring buffer** (`circle_buf.h`). State: cells, read and write position.
  Operations: `Write`, `WriteBegin`/`WriteEnd`, `Read`, `ReadBegin`/`ReadEnd`,
  `FreeSize`, `AvailableSize`. One producer and one consumer, no lock: the order of its
  stores is its protocol. Hard: checked then used sizes, the wrap, full versus empty,
  cells still in use by the consumer. Correct: a FIFO; what is lent is not overwritten.
- **Audio pipeline** (`emu/audio/*`). State: sample rates, resampler, output, latency, two
  rings. Operations: `Init`, `Deinit`, `SetLatency`, `SendAudioSample`; `SetSpeed` and muting call
  them. Core -> `_in_buf` -> resampler thread -> `_out_buf` -> output thread. Hard: sizes read
  and then waited on, semaphores that hold one signal, re-initialisation between samples. Correct: no
  thread waits for what is there.
- **Application and main loop** (`app.cpp`, `app_status.h`). State: `gStatus`.
  Operation: one pass of `App::Run` per status. Correct: the statuses that mean a game is
  there are only set while it is; leaving ends.
- **Emulator** (`emu/emulator.cpp`, `emu/input.cpp`, `emu/callbacks.cpp`). State:
  `_loaded`, the game, the emulator lock, save RAM. Operations: `LoadRom`, `Run`,
  `Reset`, `UnloadGame`, `Save`/`Load`, the handlers of the hotkeys, the environment callback.
  Hard: handlers run on the input thread while the main thread is anywhere. Correct: one
  thread in the core, never one after the game was unloaded; the save RAM is saved.
- **Video output** (`emu/video/*`, `video_thread.cpp`). State: a ring of 16 textures, the one drawn
  last, a flag for changed settings. Operations: `Refresh`, `GetCurrentSoftwareFramebuffer`,
  `_SetupVideoOutput`, `Show`, `NeedRender`. Hard: the core makes frames, replaces the ring, and the
  draw thread looks at it without the lock. Correct: no texture is drawn that is freed or
  written; frames come in order and the newest reaches the screen.
- **Input** (`share/input.cpp`, `emu/input_thread.h`). State per `Input`: last keys,
  the current hotkey, whether releases count. Operations: `Poll`, binding callbacks. Hard: two
  Inputs look at one pad at their own times; several buttons change between two polls.
  Correct: the menu's button opens the menu, and does not when it was part of a hotkey;
  what a press starts its release ends.
- **Threads, locks, semaphores** (`share/thread_base.cpp`, `locker.h`, `semaphore.h`,
  `delay.h`): primitives; modelled by what their callers see of them.
- **Network** (`network.cpp`). State: a queue, active transfers, a semaphore. Operations:
  `AddTask` from any thread, `CleanTaskQueue`, `CleanAllTasks`, the thread's loop. Callbacks run on
  the network thread and may add tasks. Hard: wakeups, sizes read without the lock,
  failure halfway, exit in the middle. Correct: no task lost, no callback twice, no half
  file, a bounded pool, the thread ends.
- **Savestates, save RAM and state slots** (`state_manager.cpp`, `ui/items/item_state.cpp`). State:
  per slot a file, a screenshot, a texture, `_valid`. Operations: `Save`, `Load`, `Remove`, `Init`.
  Hard: saved from the input thread while the menu shows the slots; each file operation
  may fail; written in place. Correct: a valid slot loads what was saved last.
- **Archives, arcade games, caches** (`emu/archive_manager.cpp`, `emu/cache_manager.h`,
  `core_spec/arcade_manager.cpp`). State: two directories of files and a map of each, read at the start.
  `LoadRom` asks for the file to read a game from. Hard: failures and crashes halfway, eviction, a map
  that is only what the directory was. Correct: the game that is read is whole.
- **Directories and file browser** (`directory.cpp`, `ui/tabs/tab_browser.cpp`). State: the list, a bare
  index, the history, the clipboard, the last command, search results, the picture beside it.
  Operations: keys, commands on files, dialogs, a download of thumbnails. Hard: dialogs answered after the
  list was built anew, one text dialog for two purposes, threads that bring names and pictures late.
  Correct: nothing is lost from the card that was not confirmed; keys go where the user looks; no texture is
  freed while drawn, or never.
- **Favourites** (`favorite.cpp`, `ui/tabs/tab_favorite.cpp`). State: a map by the name of a file, its file on
  the card, an index. Hard: the file is removed before it is written, and nobody looks whether that went well. Correct: a saved
  change is what a restart finds, the index is one of the map.
- **Rom names and playlists** (`crc32_cache.h`, `ra_lpl.cpp`, `rom_name.cpp`). State: a cache of checksums in
  memory and on the card, playlists and their cached form. Asked by the browser's threads. Hard: files replaced
  while they are read, files that cannot be read, caches cut while they are written. Correct: what a cache
  answers is so now.
- **Cheats** (`cheat.cpp`). State: the list, which are on, the thread's position, the address of the
  core's memory. Hard: a thread at its own pace over games that come and go, arithmetic over the end of memory.
  Correct: it touches the memory of the game that runs and no other; what is on is applied.
- **RetroAchievements** (`retro_achievements/*`). State: login, the achievements, notes, a cache of pictures.
  A chain of network callbacks around `rc_client`. Hard: late answers, deletion of what the menu points at.
  Correct: what the menu shows is there and is the game's.
- **Configuration and options** (`config.cpp`, `core_options.cpp`, `device_options.cpp`). State: settings in
  memory, a file of the core and one per game, what the core offers and was told. Hard: starts of games that load and
  save in turn, files of another version of the core, or lost on the way. Correct: a game that has settings
  of its own keeps them; the core works with what the menu shows.
- **Menu** (`ui/*`). State: the tab shown, those visible, what is open, the table of key callbacks and the
  tables pushed. Hard: the core, the status and the draw thread change the tabs under the keys. Correct: a key
  goes to what is on the screen.
- **Keyboard and disk control** (`emu/keyboard.cpp`, `emu/disk_control.cpp`, `ui/tabs/tab_disk.cpp`). State: keys down,
  modifiers; the disk in. Correct: the core hears of every key; the disk marked is the one that is in.
- **Core launcher** (`arch/*`). A program of its own. State: rows of consoles, which are shown, an index, each
  console's core, the last one booted. Correct: the index is that of a button; a core that ends finds itself selected.
- **Sound effects, hints, boot messages; escape thread; shaders, overlays, themes;
  speed and measuring**: presentation and statistics.
- **Cores, BIOS files, scripts** (`src/cores`, `src/script`, ...): build files and data.

The hazards of this code, each at its line and with the properties that cover it or the
reason why none does, are in `PROJECT.json` under "hazards".

## 2 The modules

| module | models | is used by |
|---|---|---|
| `RewindHistory` | what rewinding promises: a stack of states | refined by `RewindTrail` |
| `RewindBuffer` | `StateBuf`, `DiffBuf`, `_SaveState`, `_Rewind` | `RewindTrail`, `RewindBuffer_proofs` |
| `RewindTrail` | `RewindBuffer` with the history it stands for written beside it | `MCRewind`, `RewindBuffer_proofs` |
| `SampleFifo` | what an audio ring promises: a bounded FIFO | refined by `CircleBuf` |
| `CircleBuf` | `CircleBuf` between two threads, cell by cell | `CircleBuf_proofs` |
| `GameLoop` | main, input and rewind thread around the core | its three configurations, `GameLoop_proofs` |
| `Network` | the task queue and its thread | `Network_proofs` |
| `VideoFrame` | core, application and draw thread over the textures | `VideoFrame.cfg`, `VideoFrame_proofs` |
| `InputKeys` | two polled Inputs and their callbacks | `Keys_proofs` |
| `StateSlots` | the slots for savestates, who uses them and who draws them | `StateSlots.cfg`, `StateSlots_proofs` |
| `Browser` | the file browser over the memory card | `Browsing` |
| `Browsing` | an instance of it, whose definitions do not meet those of `InputKeys` | `MCBrowser`, `Keys_proofs` |
| `BrowserPicture` | the picture beside its list, and the threads that bring it | `Parts` |
| `Favorites` | the favourites, their file and their tab | `Parts` |
| `RomNames` | the cache of checksums | `Parts` |
| `Playlists` | RetroArch's playlists and their caches | `Parts` |
| `MenuTabs` | tabs, what opens over them, the tables of keys, the disks | `Parts` |
| `Settings` | settings and options, of the core and of games | `Parts` |
| `Caches` | what a game is read from | `Parts` |
| `AudioPipe` | the threads of the sound and their semaphores | `Parts` |
| `Achievements` | the achievements of a game, and notes | `Parts` |
| `Cheats` | the thread of the cheats | `Parts` |
| `Launcher` | the core launcher | `Parts` |
| `Keyboard` | the keyboard on the screen | `Parts` |
| `Sift` | the filtering of a sequence, as a function that proofs can expand | `Caches`, `Launcher` |
| `Parts` | the twelve component modules from `BrowserPicture` to `Keyboard` side by side, with their constants and properties | `MCParts`, `Parts_proofs` |

The correspondence of every definition to lines of the source is in `PROJECT.json`
under "map". Operators named `X_Bug` are `X` with a plausible bug; nothing uses them,
but with `X` replaced by each of them the run of the property they are listed with must fail.

**Rewinding is cut in two.** `RewindBuffer` has the data of the rewind thread: one action
is one whole `_SaveState` or `_Rewind`, which is sound because only that thread touches
the buffers while it lives. `GameLoop` has its threads: there a save or a rewind
is a sequence of program points (wait, loop, lock, core, signal), and the content of the
buffers is only "allocated or not" (`bufs`).

### 2.1 RewindBuffer

`bufs` and `index` are `StateBuf`; `blocks` maps offsets of the ring to the
`DiffBlock`s that are still whole, `current` and `count` are `DiffBuf`'s. A savestate is the
set of its 16-byte cells whose bit is one, so xor is the symmetric difference; sizes,
alignment, the length of a block (16 for the header, 8 per area, 16 per cell, and the extra
area the code opens when the last run ends early) are the real ones. Writing a block
destroys those it overlaps (`Overwrite`). Actions: `SaveState` (with nothing changed, too),
`SaveStateFails`, `Rewind` (all three branches of `DiffBuf::Rewind`, and a core that refuses the state),
`Restart` (`Init` after `Deinit`), `Frame`.

### 2.2 CircleBuf

One cell is one stereo frame. Each access of the other thread's position, each
cell copied and each position published is a step of its own. Both consumers are there:
`ReadBegin`/`ReadEnd` (the resampler) and `Read` (the output), chosen once by `byBlocks`; both producers:
`Write` (a run dropped when it does not fit) and `WriteBegin`/`WriteEnd`, in place or in `_tmp`.

### 2.3 GameLoop

`pc[t]` is where a thread is, `job[t]` why. A step is what a thread does up to its next
access of shared state: reading the status (`Top`, `Run`, `Serve`), waiting for the
semaphore (`TakeToken`), taking the lock (`Lock`, `LockToUnload`), using the core. The
status is read by `App::Run` and again by `Emulator::Run`, and may differ.
`UnloadGame` is split at its delays and locks: `UnloadGame` (sets the status), `WaitedToUnload`
(0.1 s), `LockToUnload`, `Stop`/`Stopped` (the rewind thread, 10 ms), `Unload`.
Menu items are the `Chosen` actions, hotkeys the `Pressed` ones.

Time enters through `habits`, a set fixed at the start. Empty: the user acts after the
threads saw the last change of status, and a delay is longer than what the others were in the middle
of; this is the claim the code makes by choosing its delays. `"hasty"`: user and delays do what they
like. `"early"`: leaving is possible while the rewind thread still sleeps through the first
`WarmFrames` frames.

### 2.4 Network

`queue`, `active` and `hand` are where a task can be; sections under the network lock are single
steps; the loop condition (`Submit`), `AllCompleted` (`Top`) and the Signal after `AddTask`
(`SignalAdded`) are apart because the code has them outside the lock. curl is
external: `Perform` lets any set of active transfers end. Taking the front of a queue that was
emptied in between is undefined behaviour, kept as a program point of its own.

### 2.5 VideoFrame

The ring of textures is `ring` (null, live, gone while it is replaced), `gen` tells rings
apart, `tex` numbers the frames in it. The core's thread goes through `core` -> `setup`
-> `create` -> `copy` -> `signal`, the draw thread through `look` -> `compare` ->
`wait`/`lock` -> `show` -> `drawing` -> `swap`. What the draw thread reads of a deleted ring is
any answer (`Compare`).

### 2.6 InputKeys

`pad` is what is held; `last`, `hot` and `upOn` are `_last_key`, `_current_hotkey` and
`_enable_key_up` of the two Inputs. `ProcCallbacks` is `Input::_ProcCallbacks` with the
bindings of `SetHotKeys` and of the menu in their order; `called` is a history of the hotkeys called
since all keys were up. Any number of buttons may change between two polls.

### 2.7 StateSlots

`disk` is what survives a crash: per game and slot the state, the picture and the time of the
state's file. `valid` and `tex` are `_valid` and `_texture`; a texture freed and not yet replaced is
`Freed`. A job of a thread (`job[t]`) goes through `State::Save` line by line: `BeginSave` ->
`Serialize` -> `Open` -> `Write` -> `Shot` -> `Jpeg` -> `FreeTexture` -> `LoadTexture` -> `Saved` -> `End`,
out of which `Fails` leads to `End`, where the code's `END:` is; `what` says who called: the menu button,
a hotkey, an item of the menu, `UnloadGame`. `Locker` is a mutex that is not recursive: a thread that takes the
video lock inside `Dialog::_OnClick` fails to, and its Unlock gives the outer lock away; hence
`vlock' = "none"` in `FreeTexture`. The draw thread remembers by `shown` which pointers it was given, and
freeing one of them turns it to `"freed"`.

### 2.8 Browser

`card[d][n]` is what the file `n` in the directory `d` contains, `items` what the list shows of it,
`index` the cursor, which is not a place in the list when the code's is not (`Out`). `mode` is what is open and
`depth` how many tables of callbacks are pushed. Actions are the keys of the list (`Move`, `OnActive`, `OnKeyCross`,
`OnKeySquare`, `OnKeySelect`, `OnKeyTriangle`), the answers of dialogs (`OnDialog`, `OnConfirmDialog`, `TextInput`,
`NoText`, `OnCancel`), and the end of a download, which is not the user's. `OnDialog` is the whole of
`TabBrowser::_OnDialog`, with the list built anew where the code does it. A text dialog may not open
(`TextDialog`): the callbacks that were pushed for it stay, `refused` counts them, and as nothing on the screen can pop them
the keys do nothing until the application is started again (`Restart`).

### 2.9 The parts of Parts

Each of these modules has one variable, a record, and shares with the others nothing but the status, which it has
a copy of and lets change as the others would. `Parts` has them side by side: a behaviour is one of one part
(`part`), so one run (`MCParts`, which only gives the constants their values) checks each in all its states. What their
properties say is of one part each. What parts do to each other beyond the status is not covered by them: the thread of the
cheats calls the core beside the threads of `GameLoop` (section 5).

Files are written by removing the old one and then writing, and the results are ignored. So where a part keeps a file, the
write may do nothing, be cut, or succeed, and the application may end at any step.

- **Favorites**: `busy` says whose turn it is; a save is to `"remove"` and to `"write"`. `torn` remembers that the last write did not
  go through.
- **BrowserPicture**: `_Update` in its steps (`main`), the threads of `UpdateDetails` (`job`), and the
  GPU, which still draws (`gpu`) after the video lock was given back.
- **RomNames**: a file's contents and time are its version; an entry of the cache is what it was
  computed from, so "current" is equality. A file that cannot be read has the checksum 0 (`None`), which is cached like any other;
  `unread` remembers for which.
- **Playlists**: they are read one after the other at the start (`next`); a cache may be cut (not `whole`), and what is read past
  its end is anything. `missed` says that the last one could not be read.
- **MenuTabs**: `keys` says whose callback a key calls, `levels` the tables pushed and by what; a tab that is
  deleted leaves `"freed"` behind. `status` and `seen` are the status and what the main loop last saw. `disk` is what the disk tab
  marks and `image` what the core has in; the core may refuse the disk and close the tray, or take it and not close
  (`Replaced`), which `amiss` remembers.
- **Settings**: `file` maps the core and the games to files, whole or cut; starting a game and saving are sequences of
  steps (`step`, and in a save `path` and `then`) with a crash between any two. The core started without a game is a game of the name
  `EmptyRom`, with a file that is written but not read at its start. `used`, `keys` and `port` are what the core, the pad and the core's
  port were last told of `option`, `plain` and `device`; `behind` is which of them changed with nobody told. `by` is the version of
  the core against whose offer the choices were last checked, also in the files: `LoadRom` reads a file of any version unchecked.
- **Caches**: a name is the entry of an archive or the name of an arcade game; `map` are the keys of `_cache`, in the
  order of age; files outlive it.
- **AudioPipe**: `oat` and `rat` are where the two threads are, a wait being entered in a step after the size was
  read; `set` is where `Init` or `Deinit` is. The rings are amounts: their cells are `CircleBuf`'s.
- **Achievements**: `_LoadGameCallback` in its steps on the network's thread (`step`), beside games that come and go.
- **Cheats**: memory is a few bytes of a small base, so that words of two, wraps and masks occur. The list comes from its file with some
  cheats on, and with any addresses; `out` are those that reached past the memory.
- **Launcher**: rows and the index over them; `Start` comes after a core, `Crash` at any step of a save.
- **Keyboard**: `told` is what the core knows by its callback.

## 3 The runs

| run | module, configuration | shows | states |
|---|---|---|---|
| `rewind` | `MCRewind`, `MCRewind.cfg` | the ring stays in bounds, a rewind meets an intact block, and the store implements `RewindHistory` (`TrailSpec`: the ring with the two history variables of section 4) | 82 044 |
| `circle` | `CircleBuf`, `CircleBuf.cfg` | the ring implements `SampleFifo`, keeps the cells lent by `ReadBegin`, and never loses a run it accepted | 2 348 032 |
| `loop_careful` | `GameLoop`, `LoopCareful.cfg` | one thread in the core, the game and the rewind buffers there when used, at most one frame forward while rewinding | 248 717 |
| `loop_live` | `GameLoop`, `LoopLive.cfg` | the main thread is not left waiting, rewinding rewinds, `UnloadGame` ends | 37 852 |
| `network` | `Network`, `Network.cfg` | one owner, callbacks once, no half file, every task and the thread end | 20 094 |
| `video` | `VideoFrame`, `VideoFrame.cfg` | the texture drawn is alive and not written, the newest picture is shown | 170 744 |
| `input` | `InputKeys`, `Input.cfg` | the menu's button opens the menu when alone and not as part of a chord | 151 312 |
| `slots` | `StateSlots`, `StateSlots.cfg` | what can be loaded is whole and shows what it loads, whatever fails or crashes; no freed texture is drawn; a game left with auto-save resumes there | 3 346 257 |
| `browser` | `MCBrowser`, `Browser.cfg` | nothing is lost from the card that was not confirmed, callbacks pushed have their owner open or were pushed for a text dialog that did not open, the next-key finds a file of the list | 873 715 |
| `parts` | `MCParts`, `MCParts.cfg` | twelve parts: what is shown is saved, textures have owners, caches are current, enter goes where the user looks, settings are the game's, the core goes by them, games are read whole, no thread of the audio waits in vain, achievements are the game's, cheats stay in its memory, the launcher's index is a button's | 2 239 718 |
| `loop_saved`, `browser_search` | | each refutes one statement of the repository: section 6 | |

**Bounds, and why they are enough.**

- `MCRewind`: `StateSize` 96 (6 cells), `BufSize` 224, `CountMod` 5, three core states.
  The ring holds about three blocks, so it wraps after three saves; the differences of the three states
  are of three lengths with one run and with two, so new blocks start inside
  old ones after a wrap and after a rewind; the counter wraps (mod 5) sooner than the
  real 2^32, so a stale block could carry a number that fits. The proofs have no bounds.
- `CircleBuf`: 8 cells, blocks of 2, runs up to 3 (not a divisor of 8: every phase of a wrap
  occurs), 2 sample values.
- `GameLoop`: one rewind thread name (a second one is only created when the first is
  off); `WarmFrames` 0 to 2 for the code's 100, `MaxStale` 2 where `AtMostOneStaleFrame` says 1.
- `Network`: one download and two requests, two adders, a pool of 2: a full pool with a task
  waiting, a callback that adds, and both containers used at once.
- `VideoFrame`: `Count` 3 textures for 16, 2 sizes, `MaxFrames` 3, `MaxGens` 2,
  `MaxAhead` 1. Three textures are the fewest with one drawn, one written and one between, and a ring that
  comes round; what matters of 16 is `MaxAhead + 2 <= Count`.
- `InputKeys`: the menu's button, two that make chords with it, and one with turbo that makes a
  third chord.
- `StateSlots`: one game, the automatic slot and one other (a slot of one's own is saved, loaded and
  removed; two are needed for "newest"), frames modulo 2 (the frame saved and another), two seconds (slots saved
  in the same and in different ones). Every fault but `"short"` (section 5). The crash may come at every step.

- `Browser`: two directories with a file of the same name, one archive with a rom and one without, `Threshold` 2
  (`THRESHOLD_FILE_COUNT`: one directory is above it), a page of 2, a history of 1 (`HISTROY_SIZE`: it
  forgets), `MaxChanges` 2 commands that change the card: a change, and one over what it left behind. `_cmd` is
  anything at first, as nothing initialises it.
- `MCParts` (the values are in the module): three favourites' names in two directories; two detail threads over two
  files and a directory, three textures; two roms that share a place of the cache, and two playlists that both name one of
  them; two disks; two versions of a core, of which one offers the default of the other no longer; one game with settings, beside
  the core started without (a second game would have one more file of the same kind, read and written by its own name only),
  and in each behaviour one of the plain setting, the option and the controller is changed (`Vary`; the files carry all three); caches of 2 for three archives and three arcade games, with
  5 files written; rates that the port takes and one that it does not, rings of 2 and 4 blocks; two games with achievements;
  4 bytes of memory, one cheat that repeats over its end and two whose place does not fit it; rows of two, one and two consoles, one with two cores; two plain keys, a
  lock and the two shifts, which share a bit.

**Fairness.** `GameLoop`: weak fairness of each thread's next step (the scheduler runs ready
threads), strong fairness of taking a semaphore or a lock (the kernel queues
waiters and serves them in turn); none of the user. `Network`: the network thread and an adder between
push and Signal run; strong fairness of "curl ends transfer t", which is the peer's doing: no
`CURLOPT_TIMEOUT` is set, so a peer that keeps a connection open forever is outside the claim.
`VideoFrame`: threads run, the video lock goes to whoever keeps asking, and every frame ends in
`Refresh`.

**Deadlock** is checked, except in `LoopLive`, `Network` and `VideoFrame`: there threads end, with the
application or with the bounds on frames, and nothing is left to do.

## 4 The proofs

Each `X_proofs` extends `X` (`Keys_proofs`: `InputKeys` and `Browsing`) and proves, from the named assumption on the constants,
`Spec => []IInv` for an inductive invariant `IInv`; the properties follow from it. Where a theorem needs
more than that assumption, its statement says so with an ASSUME, and the list below does too.
A proof is one lemma per action (`WriteIInv`, `ReadBeginIInv`, ...), with a step per conjunct
the action can disturb.

- **`RewindBuffer_proofs`** (`SizesAssumption`): `TypeCorrect`, `BlocksStayInBounds`,
  `ChainHolds`, `RewindIsSafe`, `TailHoldsLargestBlock`, `TrailIsTheChain`, `RingIsAHistory`.
  `IInv == TypeOK /\ Layout(blocks) /\ ChainInv`. `RewindMeetsIntactBlock` alone is not
  inductive: to know that the block gone back to has an intact predecessor one needs all of the
  chain below it (`Linked` up to `Top`), and to know that saving does not cut
  it, that blocks do not overlap and tile the ring up to `Top`. The bound on a block's
  length is a counting argument: every area but the first is paid for by an unchanged cell before it, the
  extra one by the last cell, so headers and cells together never exceed one area and the whole
  state (`FiniteSetTheorems`). The assumption asks the tail to hold that block;
  `TailHoldsLargestBlock` shows that the code's factor of 1.2 does for every savestate of 195 bytes or more.
  `RewindIsSafe` makes the third branch of `DiffBuf::Rewind` dead code.
  `RingIsAHistory` is the refinement. What can be gone back to is spread over the ring, as differences; `RewindTrail`
  writes it down in two more variables that no action reads, so that every behaviour of the ring has them.
  `TrailIsTheChain` shows that they are what following the previous pointers and undoing the differences gives, and `Upwards`
  (the trail lies below the block being written, but in the first block of a lap) that what a save writes leaves them alone.
- **`CircleBuf_proofs`** (`BufAssumption`: the block size divides the ring):
  `ReadsStayInBuf`, `AcceptedRunsFit`, `BorrowedCellsAreKept`, `RingIsAFifo`. `IInv` adds `InPlace`
  (a run filled in the ring ends before its end) and `Lending` (what is lent is a prefix of what is
  filled; block reads start at multiples of the block). `BorrowedCellsAreKept` is an action property: the cell a
  producer writes is free (`CellFacts`), the cells lent are filled. `RingIsAFifo` is the refinement: the queue is
  the filled cells in order, `Publish` and `WriteEnd` append the run to it (`QueueGrows`, from `Copied`: the cells
  copied hold the run), `ReadEnd` and `Advance` take from its front (`QueueShrinks`), and every other step leaves it.
  The power of two is not needed.
- **`Network_proofs`** (`NetworkAssumption`): `NoTaskIsLost`, `OneOwnerAtATime`,
  `CallbacksAreCalledOnce`, `PoolIsBounded`, for any tasks, any adders and any pool.
  `HandInv` and `PoolInv` carry what the thread knows at a program point from one it passed
  before: there is room because only this thread adds transfers; `CalledInv` follows a
  callback's task to its deletion.
- **`Keys_proofs`**, about `InputKeys` (`KeysAssumption`: every chord strictly contains the menu's hotkey):
  `Ready`, `ChordsLeaveTheMenuAlone`, `ToggleOpensTheMenu`, for all buttons and such hotkeys.
  `Remembered`: a chord that was called left a chord in `_current_hotkey`, perhaps
  another one when both came down in one poll.
  And about `Browser` (`BrowserAssumption`: names are finitely many), by its instance in `Browsing` (`CallbacksHaveOwners`, `SearchFindsFiles`,
  `NothingLostUnasked`, the last an action property), for any card. `BrowserInv`: what was found
  are files of the list however often it is built anew (`FoundFiles`), what is pushed is what is open and the text dialogs that were refused
  (`CallbacksHaveOwners`), and what the confirm dialog names is what the cursor or
  the clipboard still stands for when it is answered (`AskedFor`), so that a yes loses no other file. That a paste, a
  rename or a file removed keeps every other file's contents is a lemma on the card per operation.

- **`GameLoop_proofs`** (`LoopAssumption`, and `habits = {}`, the careful user of section 5):
  `TheCoreIsUsedAlone`, `WhatIsUsedIsThere`, `OneStaleFrameAtMost`, for any number of rewind threads created one after
  the other, any `WarmFrames` and any `MaxStale`. The core is used without the lock by the menu and by `LoadRom`, and the
  rewind buffers are deleted without any, so mutual exclusion follows from no lock: the invariant says where the others
  can be for every status (`StatusInv`), for what the main thread saw of it (`SeenInv`), for who is
  leaving (`LeavingInv`) and what the fields of the rewind thread say of it (`StoreInv`); `RewindInv` counts the
  frames of the last property by where the one token of the semaphore is.
- **`VideoFrame_proofs`** (`VideoAssumption`): `TypeCorrect`, `NoPictureTears`, and `DrawnTextureIsLive` (for
  `~Preempted`: LoadRom is not held up for a whole drawing), for any number of textures, sizes and frames.
  While a texture is drawn the draw thread holds the video lock and the status is one of a game, which only that
  lock's holder can leave behind; the distance between the texture held and the one written next is `ahead` (`DrawInv`).
- **`StateSlots_proofs`** (`SlotsAssumption`): `DrawnSlotsAreLive` (for `~Overlaps`: the menu is used after the menu
  button has saved), `ValidSlotsAreWhole` and `LeftGameIsResumed` (an action property; for `~Overlaps` and a card that is not full), for
  any games, slots, frames and any other faults. Two layers: `Base` is who saves, loads or leaves, what the two locks
  keep apart, and which pointers the draw thread was given; `Files` is what a slot's files hold at each step of a
  save and which slot of a game that was left is the newest. `SlotsAreWhole` had to be corrected
  for the proof: between `LoadRom` and `FrameManager::Init` the slots in memory are still those of the game before, which
  a run with one game does not show, and which nothing uses there.
- **`Parts_proofs`** (the assumptions named in `Parts`, one per component; section 5 has those that say something of
  the code). A behaviour is one of one part, so the invariant (`PartInv`) is one per part, and every part's Next keeps its own:
  - `TexturesAreOwned`: a texture a thread has made is its own until the step that hands it over (`PicOwners`), for any number of threads.
  - `SoundGoesOn`: `NobodyWaitsInVain` is inductive as it stands, given ranges for the rings that any rate and size respect.
  - `AchievementsAreTheGames`: between the answer of the server and the tab the list is of the game asked for, and a game is
    asked for only by who is logged in (`Asked`, `Listed`, `Visible`).
  - `FavoritesAreKept`: the index is one of the map whenever a key or a dialog uses it (`FavIndex`), which the draw thread sees to;
    and what a restart would find is what is shown once it was written, and all but the change until the old file is removed
    (`ShownIsSaved`, `FavThere`), for any end or failure at any step.
  - `SettingsAreOwn`, `CoreGoesByShown`, `ChosenIsOffered`: only who has settings of its own writes a file of its own (`Paths`); what was last
    set in a game is in its file, or about to be written there, or it was lost on the way (`LastSet`); the core, the pad and the port
    go by the memory, or by the file from which it is about to be read again (`InUse`); what bears the mark of a version is of that version's
    offer, in memory and in every whole file (`Checked`), a stale file being one with another mark or none.
  - `CachesAnswerNow`, an action property: a checksum is never older than the version in the key it is kept under, or it is 0
    and that key is of a file that could not be read (`Fits`), so an entry whose key is of the present version has the present
    checksum or that 0, though a sum may be of a file that was replaced after the key was taken; a playlist's cache is of
    the version in its key (`OfTheirKey`).
  - `EnterGoesToShown`: `EnterIsTheShownOnes`, from `MenuInv`: there is a table of keys, the tab's, over which nothing is open
    (`Bare`), one dialog is (`OneOver`), or the question of a list is (`TwoOver`), and what is pushed is that table; the table binds
    the enter key to the tab shown whenever the status is seen (`Settled`). One disk is marked, and unless the core answered amiss
    it is the one that is in (`OneIn`).
  - `CheatsStayInside`: `StaysInItsMemory`, from `CheatInv`: the thread is past its start only while a game is loaded or it
    was told to end (`Running`), and every address a repetition has lies in that game's memory if the first does and is a multiple of
    the width (`Outside`), by induction on the repetitions. The addresses themselves are any; a cheat the thread saw off is off, or the menu is about to wake it (`Woken`).
  - `GamesAreWhole`: `LoadsWholeGames`, from `RomInv`: a file a cache's map lists is on the card, and half of one only if it was
    half when the program started (`KeptWhole`); what is being extracted is in no map (`UnderWay`).
  - `LauncherSelects`: `SelectedIsShown`, from `LaunchInv`: rows that lose all their consoles go, so the index is of a button, and
    until a key is pressed it is the one of the core that ran last, if it is shown (`Served`).
  - `PartTypes`: `TypeOK`, from `PartInv` and `TypeInv`: the types need that what is set of a core is what it offers, that the
    latency fits the ring (`AudioSetUp`), that a cheat writes numbers (`Ram`), that cache keys are of versions that were.

Theorems that say more than the runs' properties: `RewindBuffer_proofs`' and `VideoFrame_proofs`' `TypeCorrect`, `ChainHolds`,
`TailHoldsLargestBlock`, `TrailIsTheChain`, `ReadsStayInBuf`, `NoTaskIsLost`, `PoolIsBounded`, `Ready`, `ChosenIsOffered`.

Each of these inductive invariants (`TypeInv` through `TypeOK`) was also checked by TLC on the configuration of its run.

What a recursive function computes (the places a cheat repeats at, the rows that are left when consoles are hidden, the age of a
cache's entries) needs induction. The induction theorems of the library take an operator, which the provers
cannot instantiate; the proofs use the well-founded order of the naturals instead, on the *set* of
the indexes where the claim fails, which has a least element or is empty (`SetInduction`).

Only model-checked: the liveness properties (`WaitEnds`, `RewindKeyRewinds`, `UnloadEnds`, `EveryTaskEnds`, `ThreadEnds`,
`FrameShown`), as fairness and ENABLED are out of the prover's reach. Every invariant, action property and refinement the passing
runs check is a theorem, some under an assumption named above (`habits = {}`, `~Preempted`, `~Overlaps`, no `"short"`
in `Faults`), with which the runs' configurations agree.

## 5 What is assumed

- A core is called only through the functions the frontend calls, is not reentrant, sets
  its pixel format only in `retro_load_game`, and changes its geometry before it asks for the software
  framebuffer of that frame.
- `GameLoop`: without `"hasty"`, the user is slower than a pass of the threads, and
  0.1 s and 10 ms suffice for a thread to finish what it was doing. A game is not picked within the
  delays of `UnloadGame`; a second input thread (Stop forgot the first, which still sleeps)
  does not occur; `Save()` and the auto-save in `_OnPsButton`, which run beside the frame in flight, are
  not counted as uses of the core; hardcore mode is off.
- `VideoFrame`: LoadRom is not held up between two lines for as long as a frame takes to draw
  (`Preempted = FALSE`; with TRUE, `DrawsLiveTexture` fails: emu/emulator.cpp:203); the core makes at
  most `MaxAhead` frames during one drawing; the GPU is done with a texture when the lock is released.
- `InputKeys`: a poll is one step, also the main thread's with its look at the status
  before it; bindings do not change; rewinding is on; a key with turbo may be seen up or down
  at any poll; hotkeys are like the default ones (`Config::DefaultHotKey`).
- `Network`: a task handed to `AddTask` is new; curl reports each transfer's end once.
- `StateSlots`: the menu is not used while the menu button still saves (`Overlaps = FALSE`; with TRUE,
  `DrawsLiveSlots` and `SlotsAreWhole` fail), and a frame is made between a load and the next save; the card is not full
  (`"short"` not in `Faults`: `fwrite`'s result is not looked at, so the slot would hold half a state
  and be valid); every game has a file (a core started without one keeps the slots of the game before:
  `emu/emulator.cpp:129`); the save RAM read after the state (`emu/emulator.cpp:234`) does not differ from it;
  auto-load is on and hardcore mode off; the clock does not go back.
- All threads: `TheCoreIsUsedAlone` is about the main, the input and the rewind thread. The thread of the cheats is a fourth, which calls
  `retro_cheat_set`, `retro_get_memory_data` and `retro_get_memory_size` without the emulator lock (`cheat.cpp:105`, `cheat.cpp:259`),
  beside `retro_run` and `State::Load`; it is modelled for itself (`Cheats`), where its calls are single steps.
- `Browser`: a file operation does nothing or all of it, and the card is not changed from outside.
- `Favorites`, `MenuTabs`: the draw thread draws a frame between two keys (a hand is slower than a screen). `Favorites`: an entry cut
  amid its text is lost, and not taken for another.
- `MenuTabs`: the main thread sees each status before the next is set, the text dialog opens (that it may not is in `Browser`, whose
  handlers push the keys first), the exit hotkey is not pressed while something is open, and a core keeps its disks while its game runs
  and starts with one of them in.
- `RomNames`, `Playlists`: checksums and the names of caches do not collide; an entry of the cache of checksums is written in one
  step, in memory and in its file.
- `Settings`: a core registers its options by the newer calls, which check what was chosen, when it is initialised, and asks for
  them when a game starts; it describes its buttons in a game. From a file that was cut anything may be read. Builds that restart the program
  to load a second game are left out.
- `Caches`: nobody else writes to the caches; only one thread has a reader open.
- `AudioPipe`: `Stop(true)` gives its thread the time to end; the core's thread is at no sample while the
  resampler is replaced; samples that find no output (muted and unmuted again at the same rate) are left out.
- `Achievements`: a game that is asked for is found or the request comes to nothing; a picture gets from the cache
  into its note in one step.
- `Cheats`: the 10 ms of `Stop(true)` and the loading of the next game are longer than a sleep of the thread.
- `Keyboard`: the core does not ask for a key between its change and the call that tells of it.
- Stores of one thread are seen by another in order (ARM's weaker order is not modelled).

## 6 Where code and words differ

Two runs are expected to end in a counterexample; each is quoted in `PROJECT.json` under "findings".

- `loop_saved`: UnloadGame need not save since that is "already run when switching to the
  menu"; the exit hotkey comes from the game, not from the menu.
- `browser_search`: the triangle key searches; after a rename that was cancelled the text searched for becomes the
  name of the file under the cursor, as `_cmd` still says rename (`ui/tabs/tab_browser.cpp:914`).

Behaviours the models have, or were kept from by an assumption above. Each that bites is a hazard with its note.

- Audio: `FreeSize` is "the size can be written", but `Read` gives a block back before it is played
  (`circle_buf.h:146`), and a nearly full ring overwrites it. Muted and unmuted, the sound stays away
  until the speed changes (`emu/audio/audio.cpp:55`).
- Rewind: `Stop(true)` logs "thread exited" after 10 ms; the rewind thread sleeps 20 ms
  at a time in a game's first 100 frames, and goes on in buffers deleted meanwhile. The
  block at the start of the ring can never be gone back to (`prev > _buf`, `emu/rewind.h:104`), so each
  wrap forgets all history. Rewinding from the menu leaves the main thread in its wait until the key is
  pressed again (`emu/input.cpp:551`).
- Input: the release of the rewind hotkey is passed over when another hotkey was called
  meanwhile, or when it was flicked twice with the menu's button held. The menu's button may open the menu again at
  once (`ui/ui.cpp:184`), and two changes within one poll set RUN_GAME after the game was unloaded
  (`emu/input.cpp:559`).
- Slots: one may be saved twice at once when the menu is left while the menu button
  still saves (`emu/input.cpp:451`), and the texture the first has just shown is freed by the second.
- Menu: after a change of status away from the browser's or the control's tab, keys that no other tab binds stay
  bound to it (`ui/ui.cpp:241`). A reset of the core's options does not tell the core (`ui/ui.cpp:82`),
  one of the controls does not tell the pad (`ui/ui.cpp:68`) and resets copies of the controllers
  (`config.cpp:188`), and a port set to *Unset* keeps the controller it had (`device_options.cpp:71`).
- Browser: a text dialog the system does not open leaves the keys dead (`ui/tabs/tab_browser.cpp:840`, `ui/dialog.cpp:163`).
- Favourites: files of one name in two directories are one favourite (`ui/tabs/tab_browser.cpp:355`). All favourites are lost when the application
  ends, or writing fails, after the old file was removed (`favorite.cpp:67`).
- Settings: the same removal loses a game's settings, or the core's (`config.cpp:313`). A core started without a game saves
  what is in memory, the settings of the last game perhaps, over the file of its own it has not read (`emu/emulator.cpp:120`,
  `emu/emulator.cpp:213`). A game's file that another version of the core saved is taken over unchecked (`emu/emulator.cpp:187`).
- Names: a rom that cannot be read once has the checksum 0 until it changes (`share/file.cpp:322`, `crc32_cache.h:67`); a playlist's cache that was
  cut is read as if it were whole, past its end (`ra_lpl.cpp:284`).
- Disks: whether the core took the disk is not looked at (`emu/disk_control.cpp:36`), so the menu may mark another than is in.
- Caches: a file forgotten by the map stays on the card (`emu/cache_manager.h:77`); half a file is taken for
  a whole one after a crash; an entry of a solid 7z block gets the whole block (`share/archive_reader_7z.cpp:97`).
- Achievements: a game left while offline keeps its achievements in the menu (`emu/emulator.cpp:312`).
- Cheats: the address in a `.cht` file is taken as it is, in the memory or not (`cheat.cpp:90`, `cheat.cpp:170`, `cheat.cpp:190`); rewinding ends the thread for the rest of the game (`cheat.cpp:411`); cheats of less than a byte move their
  address each time (`cheat.cpp:333`).
- Keyboard: a finger slid off a key leaves it down; hiding the keyboard lets go of keys without telling the core, and
  keeps the modifiers (`emu/keyboard.cpp:268`).

## 7 What is not modelled, and the plan

Not modelled, for good: drawing, shaders, themes, wording and layout (data); sounds and hints (nothing depends on
them); statistics and logs; the escape thread (a clock); the formats of files (INI, playlists, archives, the rom
database, rzip), which are read in one pass; touch panels and the motion sensor (readings); third-party libraries.

Of the modelled parts the following is left out: hardcore mode, which forbids slow motion, loading and rewinding; leaderboards;
cheats of less than a byte; the launcher's boot by URI; what a core asks the environment for besides video, options, disks,
keyboard and speed; the renaming of directories; moving through items of a list other than the browser's.

Where the code grows, the models can: hardcore mode and leaderboards fit in `GameLoop` and `Achievements`, the renaming of directories
in `Browser`, the boot by URI in `Launcher`. A property of liveness that may deserve a proof is
`UnloadEnds`; it waits for a prover that knows ENABLED.
