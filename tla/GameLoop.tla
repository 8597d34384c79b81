------------------------------- MODULE GameLoop -------------------------------
(***************************************************************************)
(* The threads around the libretro core: the main thread (App::Run, the    *)
(* menu, Emulator::Run, LoadRom, UnloadGame), the input thread with its    *)
(* hotkeys, and the rewind thread.  They meet in gStatus, in the emulator  *)
(* lock, in the rewind thread's binary semaphore and in its buffers.       *)
(*                                                                         *)
(* A thread is at a program point pc[t]; a step is what it does up to the  *)
(* next read or write of something shared.  A delay is a program point     *)
(* whose step may be taken at any time ("hasty"), or only when the others  *)
(* had time to come to rest.                                               *)
(***************************************************************************)
EXTENDS Naturals

CONSTANTS
    RewindThreads,      \* names for the rewind threads created
    WarmFrames,         \* 100: the rewind thread waits for so many frames
    MaxStale,           \* bound: frames counted since the last rewind
    RebootLoads,        \* gConfig->reboot_when_loading_again
    AutoSave,           \* gConfig->auto_save
    Hotkeys,            \* the hotkeys in use
    Choices,            \* the menu items in use
    Habits              \* what user and scheduler may do: the values of habits

ASSUME LoopAssumption ==
    /\ WarmFrames \in Nat /\ MaxStale \in Nat \ {0}
    /\ {RebootLoads, AutoSave} \subseteq BOOLEAN
    /\ Hotkeys \subseteq {"menu", "state", "rewind", "exit"}
    /\ Choices \subseteq {"resume", "state", "reset", "toggle", "exit", "quit", "arch", "load"}
    /\ Habits \subseteq SUBSET {"hasty", "early"}
    /\ RewindThreads \cap {"main", "input", "none"} = {}

Actors == {"main", "input"}
Threads == Actors \cup RewindThreads

VARIABLES
    status,     \* gStatus
    seen,       \* the status the main thread acts on
    pc,         \* where each thread is
    job,        \* what it does there
    was,        \* the status UnloadGame found
    owner,      \* who holds the emulator lock
    sema,       \* count of the rewind thread's semaphore, at most 1
    keep,       \* the rewind thread's _keep_running
    thread,     \* its _thread_id
    bufs,       \* _state and _diff are allocated
    polling,    \* the input thread's _keep_running
    held,       \* the rewind hotkey is down
    rewindCfg,  \* gConfig->rewind
    loaded,     \* the core has a game
    loadedOnce, \* _loaded
    frames,     \* _frame_count, up to WarmFrames
    unsaved,    \* the core's save RAM differs from the file
    stale,      \* frames let go since the hotkey or the last rewinding pass
    habits      \* see UserActs; never changes

vars == <<status, seen, pc, job, was, owner, sema, keep, thread, bufs, polling,
          held, rewindCfg, loaded, loadedOnce, frames, unsaved, stale, habits>>
game == <<loaded, loadedOnce, frames, unsaved, stale>>
rewinder == <<keep, thread, bufs>>
user == <<polling, held, rewindCfg, habits>>

Status == {"BOOT", "SHOW_UI", "RUN_GAME", "SHOW_UI_IN_GAME", "REWIND_GAME",
           "RETURN_ARCH", "REBOOT_WITH_LOADING", "EXIT"}
Menus == {"SHOW_UI", "SHOW_UI_IN_GAME"}
Playing == {"RUN_GAME", "REWIND_GAME"}
InGame == {"RUN_GAME", "SHOW_UI_IN_GAME"}
Unloading == {"exit", "quit", "arch"}

At(t, point) == pc[t] = point
Goto(t, point) == pc' = [pc EXCEPT ![t] = point]
Start(t, j, point) == Goto(t, point) /\ job' = [job EXCEPT ![t] = j]

Init ==
    /\ status = "SHOW_UI" /\ seen = "SHOW_UI"
    /\ pc = [t \in Threads |-> IF t = "main" THEN "top" ELSE "off"]
    /\ job = [t \in Threads |-> "none"]
    /\ was = [a \in Actors |-> "SHOW_UI"]
    /\ owner = "none" /\ sema = 0
    /\ keep = FALSE /\ thread = "none" /\ bufs = FALSE
    /\ polling = FALSE /\ held = FALSE /\ rewindCfg \in BOOLEAN
    /\ loaded = FALSE /\ loadedOnce = FALSE
    /\ frames = 0 /\ unsaved = FALSE /\ stale = 0
    /\ habits \in Habits
-----------------------------------------------------------------------------
(* Time.  Unless "hasty" is in habits, the user acts only once the threads *)
(* have seen the last change of status, and a delay is longer than what    *)
(* the other threads were doing.  "early": he may leave or toggle rewind   *)
(* in the first WarmFrames frames, while the rewind thread sleeps.         *)

SeenByRewind(r) ==
    \/ At(r, "off")
    \/ "early" \in habits /\ At(r, "warm")
    \/ status \in Playing /\ pc[r] \notin {"warm", "wait"}
    \/ status \in Menus /\ At(r, "wait") /\ sema = 0

UserActs ==
    \/ "hasty" \in habits
    \/ /\ seen = status /\ ~held
       /\ pc["main"] \in {"top", "ui", "run", "wait", "lock", "core"}
       /\ pc["input"] \in {"idle", "off"}
       /\ \A r \in RewindThreads : SeenByRewind(r)

AtRest(t) ==
    \/ pc[t] \in {"off", "idle", "warm"}
    \/ At(t, "lock") /\ owner # "none"
    \/ At(t, "wait") /\ sema = 0
    \/ pc[t] \in {"top", "ui", "done"} /\ seen = status

DelayOver(a) == "hasty" \in habits \/ \A t \in Threads \ {a} : AtRest(t)
-----------------------------------------------------------------------------
(* The main thread: App::Run, the menu's items and Emulator::Run.          *)

Top ==
    /\ At("main", "top")
    /\ seen' = status
    /\ \/ status \in Menus \cup {"BOOT"} /\ Goto("main", "ui") /\ UNCHANGED status
       \/ status \in Playing /\ Goto("main", "run") /\ UNCHANGED status
       \/ status \in {"RETURN_ARCH", "REBOOT_WITH_LOADING"} /\ status' = "EXIT" /\ UNCHANGED pc
       \/ status = "EXIT" /\ Goto("main", "done") /\ UNCHANGED status
    /\ UNCHANGED <<job, was, owner, sema, rewinder, user, game>>

\* Ui::Run with nothing chosen; a failed boot ends in the browser.
UiPass ==
    /\ At("main", "ui")
    /\ Goto("main", "top")
    /\ status' = IF seen = "BOOT" THEN "SHOW_UI" ELSE status
    /\ UNCHANGED <<seen, job, was, owner, sema, rewinder, user, game>>

Chosen(item, menus) ==
    /\ At("main", "ui") /\ seen \in menus
    /\ item \in Choices /\ UserActs

Resume ==
    /\ Chosen("resume", {"SHOW_UI_IN_GAME"})
    /\ status' = "RUN_GAME"
    /\ Goto("main", "top")
    /\ UNCHANGED <<seen, job, was, owner, sema, rewinder, user, game>>

\* State::Load from the menu, and Emulator::Reset: the core is used without
\* the emulator lock, then the game runs.
LoadState ==
    /\ Chosen("state", {"SHOW_UI_IN_GAME"})
    /\ Start("main", "state", "alone")
    /\ UNCHANGED <<status, seen, was, owner, sema, rewinder, user, game>>

Reset ==
    /\ Chosen("reset", {"SHOW_UI_IN_GAME"})
    /\ status \in InGame
    /\ status' = "BOOT"
    /\ Start("main", "reset", "alone")
    /\ UNCHANGED <<seen, was, owner, sema, rewinder, user, game>>

AloneEnds ==
    /\ At("main", "alone")
    /\ status' = "RUN_GAME"
    /\ Goto("main", "top")
    /\ UNCHANGED <<seen, job, was, owner, sema, rewinder, user, game>>

\* ChangeRewindConfig: RewindManager::Init begins with Deinit.
ToggleRewind ==
    /\ Chosen("toggle", Menus)
    /\ rewindCfg' = ~rewindCfg
    /\ IF status \in InGame THEN Start("main", "toggle", "stop")
                            ELSE Goto("main", "top") /\ UNCHANGED job
    /\ UNCHANGED <<status, seen, was, owner, sema, rewinder, polling, held, habits, game>>

Run ==
    /\ At("main", "run")
    /\ seen' = status
    /\ \/ /\ status = "REWIND_GAME"
          /\ Goto("main", IF rewindCfg THEN "wait" ELSE "lock")
          /\ UNCHANGED sema
       \/ /\ status = "RUN_GAME"
          /\ Goto("main", "lock")
          /\ sema' = IF rewindCfg THEN 1 ELSE sema
       \/ /\ status \notin Playing
          /\ Goto("main", "top")
          /\ UNCHANGED sema
    /\ UNCHANGED <<status, job, was, owner, rewinder, user, game>>

\* An operator named X_Bug is X as a plausible bug would have it; no definition
\* uses it, the checks are repeated with it to see that the properties notice.
TakeToken_Keeps(t) ==
    /\ At(t, "wait") /\ sema = 1
    /\ Goto(t, IF t = "main" THEN "lock" ELSE "loop")
    /\ stale' = IF t = "main" /\ stale < MaxStale THEN stale + 1 ELSE stale
    /\ UNCHANGED <<status, seen, job, was, owner, sema, rewinder, user,
                   loaded, loadedOnce, frames, unsaved>>

\* Semaphore::Wait, of the main and of the rewind thread.
TakeToken(t) ==
    /\ At(t, "wait") /\ sema = 1
    /\ sema' = 0
    /\ Goto(t, IF t = "main" THEN "lock" ELSE "loop")
    /\ stale' = IF t = "main" /\ stale < MaxStale THEN stale + 1 ELSE stale
    /\ UNCHANGED <<status, seen, job, was, owner, rewinder, user,
                   loaded, loadedOnce, frames, unsaved>>

Lock_Unchecked(t) ==
    /\ At(t, "lock")
    /\ owner' = t
    /\ Goto(t, "core")
    /\ UNCHANGED <<status, seen, job, was, sema, rewinder, user, game>>

Lock(t) ==
    /\ At(t, "lock") /\ owner = "none"
    /\ owner' = t
    /\ Goto(t, "core")
    /\ UNCHANGED <<status, seen, job, was, sema, rewinder, user, game>>

\* retro_run under the lock; the video thread counts the frame.
RunFrame ==
    /\ At("main", "core")
    /\ owner' = "none"
    /\ Goto("main", "top")
    /\ frames' = IF frames < WarmFrames THEN frames + 1 ELSE frames
    /\ unsaved' \in {unsaved, TRUE}
    /\ UNCHANGED <<status, seen, job, was, sema, rewinder, user, loaded, loadedOnce, stale>>
-----------------------------------------------------------------------------
(* LoadRom, on the main thread.                                            *)

LoadRom ==
    /\ Chosen("load", {"SHOW_UI"})
    /\ IF RebootLoads /\ loadedOnce
       THEN status' = "REBOOT_WITH_LOADING" /\ Goto("main", "top") /\ UNCHANGED job
       ELSE status' = "BOOT" /\ Start("main", "load", "load")
    /\ UNCHANGED <<seen, was, owner, sema, rewinder, user, game>>

LoadGame ==
    /\ At("main", "load")
    /\ \/ loaded' = TRUE /\ status' = "RUN_GAME" /\ Goto("main", "loaded")
       \/ UNCHANGED <<loaded, status>> /\ Goto("main", "top")
    /\ UNCHANGED <<seen, job, was, owner, sema, rewinder, user,
                   loadedOnce, frames, unsaved, stale>>

\* Load() fills the save RAM, then the input thread is started: it does not
\* see a _keep_running that is set again before it looked (a second one is
\* not modelled).
StartInput ==
    /\ At("main", "loaded")
    /\ IF polling THEN Goto("main", "alone1")
       ELSE /\ At("input", "off")
            /\ pc' = [pc EXCEPT !["main"] = "alone1", !["input"] = "idle"]
    /\ polling' = TRUE
    /\ unsaved' = FALSE
    /\ UNCHANGED <<status, seen, job, was, owner, sema, rewinder, held, rewindCfg, habits,
                   loaded, loadedOnce, frames, stale>>

\* The first retro_run, without the lock, and RewindManager::Init.
FirstFrame ==
    /\ At("main", "alone1")
    /\ frames' = 0 /\ loadedOnce' = TRUE
    /\ unsaved' \in {unsaved, TRUE}
    /\ Goto("main", IF rewindCfg THEN "stop" ELSE "top")
    /\ UNCHANGED <<status, seen, job, was, owner, sema, rewinder, user, loaded, stale>>
-----------------------------------------------------------------------------
(* UnloadGame, on the main thread or, for the hotkey, on the input thread. *)

UnloadGame(a, j) ==
    /\ was' = [was EXCEPT ![a] = status]
    /\ status' = "SHOW_UI"
    /\ Start(a, j, "waiting")
    /\ UNCHANGED <<seen, owner, sema, rewinder, user, game>>

Exit(j) ==
    /\ Chosen(j, IF j = "exit" THEN {"SHOW_UI_IN_GAME"} ELSE Menus)
    /\ UnloadGame("main", j)

\* Where the thread that called UnloadGame goes on.
After(a) ==
    /\ status' = CASE job[a] = "quit" -> "EXIT"
                   [] job[a] = "arch" -> "RETURN_ARCH"
                   [] OTHER -> status
    /\ Goto(a, IF a = "main" THEN "top" ELSE "idle")

WaitedToUnload_NoDelay(a) ==
    /\ At(a, "waiting")
    /\ IF was[a] \in InGame THEN Goto(a, "tounload") /\ UNCHANGED status ELSE After(a)
    /\ UNCHANGED <<seen, job, was, owner, sema, rewinder, user, game>>

WaitedToUnload(a) ==
    /\ At(a, "waiting") /\ DelayOver(a)
    /\ IF was[a] \in InGame THEN Goto(a, "tounload") /\ UNCHANGED status ELSE After(a)
    /\ UNCHANGED <<seen, job, was, owner, sema, rewinder, user, game>>

LockToUnload(a) ==
    /\ At(a, "tounload") /\ owner = "none"
    /\ owner' = a
    /\ Goto(a, IF rewindCfg THEN "stop" ELSE "unload")
    /\ UNCHANGED <<status, seen, job, was, sema, rewinder, user, game>>

\* Past the stop of the rewind thread: stop the input thread, which keeps its
\* delay, unload and unlock.
Unload(a) ==
    /\ At(a, "unload") /\ DelayOver(a)
    /\ polling' = FALSE
    /\ loaded' = (RebootLoads /\ loaded)
    /\ owner' = "none"
    /\ After(a)
    /\ UNCHANGED <<seen, job, was, sema, rewinder, held, rewindCfg, habits,
                   loadedOnce, frames, unsaved, stale>>
-----------------------------------------------------------------------------
(* RewindManager::Deinit and Init, within the job of thread a.             *)

NextJob(a) == IF job[a] \in Unloading THEN "unload"
              ELSE IF rewindCfg THEN "create" ELSE "top"

Stop(a) ==
    /\ At(a, "stop")
    /\ IF thread = "none"
       THEN bufs' = FALSE /\ Goto(a, NextJob(a)) /\ UNCHANGED <<keep, sema>>
       ELSE keep' = FALSE /\ sema' = 1 /\ Goto(a, "stopping") /\ UNCHANGED bufs
    /\ UNCHANGED <<status, seen, job, was, owner, thread, user, game>>

\* Stop(true) waits 10 ms, whatever the thread does, and forgets its id.
Stopped(a) ==
    /\ At(a, "stopping") /\ DelayOver(a)
    /\ thread' = "none" /\ bufs' = FALSE
    /\ Goto(a, NextJob(a))
    /\ UNCHANGED <<status, seen, job, was, owner, sema, keep, user, game>>

Create(a) ==
    /\ At(a, "create")
    /\ \E r \in RewindThreads :
        /\ At(r, "off")
        /\ thread' = r
        /\ pc' = [pc EXCEPT ![a] = "top", ![r] = "warm"]
    /\ keep' = TRUE /\ bufs' = TRUE
    /\ UNCHANGED <<status, seen, job, was, owner, sema, user, game>>
-----------------------------------------------------------------------------
(* The rewind thread.  _state->Current() is read before the lock is taken. *)

Warmed(r) ==
    /\ At(r, "warm")
    /\ frames >= WarmFrames \/ ~keep
    /\ Start(r, "first", "lock")
    /\ UNCHANGED <<status, seen, was, owner, sema, rewinder, user, game>>

Serve_NoRewind(r) ==
    /\ At(r, "loop")
    /\ \/ ~keep /\ Goto(r, "off") /\ UNCHANGED job
       \/ keep /\ status = "RUN_GAME" /\ Start(r, "save", "lock")
       \/ keep /\ status # "RUN_GAME" /\ Goto(r, "wait") /\ UNCHANGED job
    /\ UNCHANGED <<status, seen, was, owner, sema, rewinder, user, game>>

Serve(r) ==
    /\ At(r, "loop")
    /\ \/ ~keep /\ Goto(r, "off") /\ UNCHANGED job
       \/ keep /\ status = "REWIND_GAME" /\ Start(r, "rewind", "rewind")
       \/ keep /\ status = "RUN_GAME" /\ Start(r, "save", "lock")
       \/ keep /\ status \notin Playing /\ Goto(r, "wait") /\ UNCHANGED job
    /\ UNCHANGED <<status, seen, was, owner, sema, rewinder, user, game>>

Rewind_OnlySignalsIfFound(r) ==
    /\ At(r, "rewind")
    /\ \/ Goto(r, "lock")
       \/ Goto(r, "loop")
    /\ UNCHANGED <<status, seen, job, was, owner, sema, rewinder, user, game>>

\* DiffBuf::Rewind and _GetState; there may be no block left.
Rewind(r) ==
    /\ At(r, "rewind")
    /\ \/ Goto(r, "lock")
       \/ Goto(r, "signal")
    /\ UNCHANGED <<status, seen, job, was, owner, sema, rewinder, user, game>>

CoreDone_KeepsLock(r) ==
    /\ At(r, "core")
    /\ \/ job[r] = "first" /\ Goto(r, "loop") /\ owner' = "none"
       \/ job[r] = "save" /\ Goto(r, "compare") /\ owner' = "none"
       \/ job[r] = "save" /\ Goto(r, "loop") /\ UNCHANGED owner
       \/ job[r] = "rewind" /\ Goto(r, "signal") /\ owner' = "none"
    /\ UNCHANGED <<status, seen, job, was, sema, rewinder, user, game>>

\* retro_serialize or retro_unserialize under the lock; _SaveState then
\* compares the two states, if there is one.
CoreDone(r) ==
    /\ At(r, "core")
    /\ owner' = "none"
    /\ \/ job[r] = "first" /\ Goto(r, "loop")
       \/ job[r] = "save" /\ (Goto(r, "compare") \/ Goto(r, "loop"))
       \/ job[r] = "rewind" /\ Goto(r, "signal")
    /\ UNCHANGED <<status, seen, job, was, sema, rewinder, user, game>>

Compare(r) ==
    /\ At(r, "compare")
    /\ Goto(r, "loop")
    /\ UNCHANGED <<status, seen, job, was, owner, sema, rewinder, user, game>>

SignalMain(r) ==
    /\ At(r, "signal")
    /\ sema' = 1 /\ stale' = 0
    /\ Goto(r, "loop")
    /\ UNCHANGED <<status, seen, job, was, owner, rewinder, user,
                   loaded, loadedOnce, frames, unsaved>>
-----------------------------------------------------------------------------
(* The input thread: a hotkey's handler runs on it to its end.             *)

Pressed(key) ==
    /\ At("input", "idle") /\ polling
    /\ key \in Hotkeys /\ UserActs

MenuKey ==
    /\ Pressed("menu")
    /\ status \in Playing
    /\ status' = "SHOW_UI_IN_GAME"
    /\ Start("input", "menu", "saving")
    /\ UNCHANGED <<seen, was, owner, sema, rewinder, user, game>>

\* Save(), and State::Save for AutoSave, both without the emulator lock.
SaveRam ==
    /\ At("input", "saving")
    /\ unsaved' = FALSE
    /\ Goto("input", IF AutoSave THEN "autosave" ELSE "idle")
    /\ UNCHANGED <<status, seen, job, was, owner, sema, rewinder, user,
                   loaded, loadedOnce, frames, stale>>

AutoSaved ==
    /\ At("input", "autosave")
    /\ Goto("input", "idle")
    /\ UNCHANGED <<status, seen, job, was, owner, sema, rewinder, user, game>>

\* _OnHotkeySave and _OnHotkeyLoad, under the lock.
StateKey ==
    /\ Pressed("state")
    /\ Start("input", "state", "lock")
    /\ UNCHANGED <<status, seen, was, owner, sema, rewinder, user, game>>

StateKeyDone ==
    /\ At("input", "core")
    /\ owner' = "none"
    /\ unsaved' \in {unsaved, TRUE}
    /\ Goto("input", "idle")
    /\ UNCHANGED <<status, seen, job, was, sema, rewinder, user,
                   loaded, loadedOnce, frames, stale>>

RewindKey ==
    /\ Pressed("rewind") /\ ~held
    /\ status \in Playing \/ "hasty" \in habits
    /\ held' = TRUE
    /\ stale' = IF rewindCfg THEN 0 ELSE stale
    /\ status' = IF rewindCfg THEN "REWIND_GAME" ELSE status
    /\ UNCHANGED <<seen, pc, job, was, owner, sema, rewinder, polling, rewindCfg, habits,
                   loaded, loadedOnce, frames, unsaved>>

RewindKeyUp ==
    /\ At("input", "idle") /\ polling /\ held
    /\ held' = FALSE
    /\ IF rewindCfg THEN status' = "RUN_GAME" /\ sema' = 1 ELSE UNCHANGED <<status, sema>>
    /\ UNCHANGED <<seen, pc, job, was, owner, rewinder, polling, rewindCfg, habits, game>>

ExitKey ==
    /\ Pressed("exit")
    /\ UnloadGame("input", "exit")

StopPolling ==
    /\ At("input", "idle") /\ ~polling
    /\ Goto("input", "off")
    /\ held' = FALSE
    /\ UNCHANGED <<status, seen, job, was, owner, sema, rewinder, polling, rewindCfg, habits, game>>
-----------------------------------------------------------------------------
Finished == At("main", "done") /\ UNCHANGED vars

Actor(a) ==
    \/ WaitedToUnload(a) \/ LockToUnload(a) \/ Unload(a)
    \/ Stop(a) \/ Stopped(a) \/ Create(a)

MainStep == Top \/ UiPass \/ AloneEnds \/ Run \/ RunFrame
            \/ LoadGame \/ StartInput \/ FirstFrame \/ Actor("main")
MenuStep == Resume \/ LoadState \/ Reset \/ ToggleRewind \/ LoadRom
            \/ \E j \in Unloading : Exit(j)
InputStep == SaveRam \/ AutoSaved \/ StateKeyDone \/ StopPolling \/ Actor("input")
KeyStep == MenuKey \/ StateKey \/ RewindKey \/ RewindKeyUp \/ ExitKey
RewindStep(r) == Warmed(r) \/ Serve(r) \/ Rewind(r) \/ CoreDone(r) \/ Compare(r) \/ SignalMain(r)

Next ==
    \/ MainStep \/ MenuStep \/ InputStep \/ KeyStep \/ Finished
    \/ \E r \in RewindThreads : RewindStep(r) \/ TakeToken(r)
    \/ TakeToken("main")
    \/ \E t \in Threads : Lock(t)

Spec == Init /\ [][Next]_vars

\* Every thread runs; mutex and semaphore serve their waiters in turn.  The
\* user need not do anything.
Fairness ==
    /\ WF_vars(MainStep) /\ WF_vars(InputStep)
    /\ \A r \in RewindThreads : WF_vars(RewindStep(r)) /\ SF_vars(TakeToken(r))
    /\ SF_vars(TakeToken("main"))
    /\ \A t \in Threads : SF_vars(Lock(t))
    /\ \A a \in Actors : SF_vars(LockToUnload(a))

FairSpec == Spec /\ Fairness
-----------------------------------------------------------------------------
Points == {"top", "ui", "run", "wait", "lock", "core", "alone", "load", "loaded",
           "alone1", "done", "waiting", "tounload", "unload", "stop", "stopping",
           "create", "off", "idle", "saving", "autosave", "warm", "loop",
           "rewind", "compare", "signal"}
Jobs == Unloading \cup {"none", "state", "reset", "toggle", "load", "menu",
                       "first", "save", "rewind"}

TypeOK ==
    /\ status \in Status /\ seen \in Status
    /\ pc \in [Threads -> Points] /\ job \in [Threads -> Jobs]
    /\ was \in [Actors -> Status]
    /\ owner \in Threads \cup {"none"} /\ sema \in 0 .. 1
    /\ {keep, bufs, polling, held, rewindCfg, loaded, loadedOnce, unsaved} \subseteq BOOLEAN
    /\ thread \in RewindThreads \cup {"none"}
    /\ frames \in 0 .. WarmFrames /\ stale \in 0 .. MaxStale
    /\ habits \in Habits

UsesCore(t) == pc[t] \in {"core", "alone", "alone1"}
UsesBufs(r) == pc[r] \in {"lock", "core", "rewind", "compare"}

\* The core is not reentrant, and the menu and LoadRom use it without the
\* emulator lock: they rely on every other thread having stopped playing.
\* (Save() and State::Save in _OnPsButton are left out: they run beside the
\* frame in flight.)
OneThreadInCore ==
    \A t, u \in Threads : UsesCore(t) /\ UsesCore(u) => t = u

\* A frame, a state of the rewind thread or of a hotkey is only taken of a
\* core that has a game: UnloadGame takes it away under the lock, but the
\* threads that were waiting for that lock must be gone.  So must the rewind
\* thread be done with _state and _diff, which Deinit deletes.  And the
\* statuses that let them take it are only set while the game is there.
UsedIsThere ==
    /\ \A t \in Threads : UsesCore(t) => loaded
    /\ \A r \in RewindThreads : UsesBufs(r) => bufs
    /\ status \in Playing \cup {"SHOW_UI_IN_GAME"} => loaded

\* While rewinding, the main thread runs a frame per rewinding pass; the one
\* token left from playing lets it run one more, never two.
AtMostOneStaleFrame ==
    status = "REWIND_GAME" => stale <= 1

\* Emulator::Run waits for the rewind thread, and is not left waiting.
WaitEnds == habits = {} /\ At("main", "wait") ~> ~At("main", "wait")

\* "rewind" (README.en.md): while the hotkey is down, the rewind thread
\* makes its rewinding pass.
RewindKeyRewinds ==
    "hasty" \notin habits /\ status = "REWIND_GAME" ~> status # "REWIND_GAME" \/ \E r \in RewindThreads : At(r, "signal")

\* UnloadGame, with its locks and its two delays, comes to an end.
UnloadEnds == \A a \in Actors : habits = {} /\ At(a, "waiting") ~> pc[a] \in {"top", "idle"}

\* "Save();  // already run when switching to the menu" (UnloadGame).
SavedBeforeUnload == \A a \in Actors : At(a, "unload") => ~unsaved

================================================================================
