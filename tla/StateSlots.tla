------------------------------ MODULE StateSlots ------------------------------
(***************************************************************************)
(* The slots for savestates: State and FrameManager, and what saves,   *)
(* loads and removes them: the menu (ItemState, Dialog) and UnloadGame on  *)
(* the main thread, the menu button and the hotkeys on the input thread,   *)
(* LoadRom; and the draw thread, which shows the slots' pictures.          *)
(*                                                                         *)
(* What the core holds is told by the frame it made last.  A slot is two   *)
(* files per game, the state and the picture, and a texture of the picture.*)
(***************************************************************************)
EXTENDS Naturals

CONSTANTS
    Games,
    Slots,      \* 0, the automatic one, and the others by their index
    Frames,     \* frames are told apart modulo Frames
    MaxClock,   \* bound: seconds that pass
    AutoSave,   \* gConfig->auto_save
    Faults,     \* what may fail
    Overlaps,   \* the menu may be used while the menu button still saves
    None, Torn, Freed   \* no game, file or texture; a short file; a dangling pointer

ASSUME SlotsAssumption ==
    /\ 0 \in Slots /\ Slots \subseteq Nat
    /\ Frames \in Nat \ {0} /\ MaxClock \in Nat
    /\ {AutoSave, Overlaps} \subseteq BOOLEAN
    /\ Faults \subseteq {"serialize", "open", "short", "shot", "boot", "crash"}
    /\ None \notin Games
    /\ {None, Torn, Freed} \cap 0 .. (Frames - 1) = {}
    /\ None # Torn /\ None # Freed /\ Torn # Freed

VARIABLES
    status,     \* gStatus: "ui", "boot", "run" or "menu"
    tab,        \* the tab of the states is visible
    game,       \* _current_name, which is in the slots' paths
    core,       \* the core's state, or None
    screen,     \* the frame in _texture_buf
    valid,      \* _valid of each slot
    tex,        \* _texture of each slot: None, Freed, or a frame
    disk,       \* the files of each game's slots
    clock,      \* the time of day, in seconds
    job,        \* what the main and the input thread are doing
    elock,      \* who holds the emulator lock
    vlock,      \* who holds the video lock
    draw,       \* where the draw thread is: "look", "lock", "show" or "render"
    shown,      \* what it was given to draw for each slot: "no", "live" or "freed"
    left,       \* history: what the core held when a game was left and auto-saved
    hit         \* history: slots whose last save the application did not survive

vars == <<status, tab, game, core, screen, valid, tex, disk, clock, job,
          elock, vlock, draw, shown, left, hit>>
slots == <<valid, tex>>
cards == <<disk, clock>>
drawing == <<draw, shown>>
locks == <<elock, vlock>>
play == <<game, core, screen>>
history == <<left, hit>>

Threads == {"main", "input"}
Frame == 0 .. Frames - 1
NoFiles == [bin |-> None, img |-> None, time |-> 0]
Idle == [at |-> "idle", what |-> "none", slot |-> 0, game |-> None, bin |-> None,
         over |-> FALSE]

TypeOK ==
    /\ status \in {"ui", "boot", "run", "menu"} /\ tab \in BOOLEAN
    /\ game \in Games \cup {None}
    /\ core \in Frame \cup {None} /\ screen \in Frame
    /\ valid \in [Slots -> BOOLEAN]
    /\ tex \in [Slots -> Frame \cup {None, Freed}]
    /\ disk \in [Games -> [Slots -> [bin : Frame \cup {None, Torn},
                                     img : Frame \cup {None, Torn},
                                     time : 0 .. MaxClock]]]
    /\ clock \in 0 .. MaxClock
    /\ job \in [Threads -> [at : {"idle", "frame", "lock", "begin", "serialize",
                                  "open", "write", "shot", "jpeg", "free", "texture", "done",
                                  "read", "unbin", "unimg", "untex", "end", "init", "boot",
                                  "newest"},
                            what : {"none", "frame", "menu", "save", "load", "popup",
                                    "resume", "unload", "boot"},
                            slot : Slots, game : Games \cup {None},
                            bin : Frame \cup {None}, over : BOOLEAN]]
    /\ elock \in Threads \cup {"none"} /\ vlock \in Threads \cup {"none", "draw"}
    /\ draw \in {"look", "lock", "show", "render"}
    /\ shown \in [Slots -> {"no", "live", "freed"}]
    /\ left \in [Games -> Frame \cup {None}]
    /\ hit \in [Games -> SUBSET Slots]

Init ==
    /\ status = "ui" /\ tab = FALSE
    /\ game = None /\ core = None /\ screen = 0
    /\ valid = [s \in Slots |-> FALSE] /\ tex = [s \in Slots |-> None]
    /\ job = [t \in Threads |-> Idle]
    /\ elock = "none" /\ vlock = "none"
    /\ draw = "look" /\ shown = [s \in Slots |-> "no"]
    /\ disk = [g \in Games |-> [s \in Slots |-> NoFiles]]
    /\ clock = 0
    /\ left = [g \in Games |-> None]
    /\ hit = [g \in Games |-> {}]
-----------------------------------------------------------------------------
At(t, point) == job[t].at = point
Goto(t, point) == job' = [job EXCEPT ![t].at = point]
Start(t, what, s, point) ==
    job' = [job EXCEPT ![t] = [Idle EXCEPT !.at = point, !.what = what, !.slot = s]]
Slot(t) == job[t].slot

\* The user lets a job end before he begins another, but for Overlaps, and a
\* frame be shown before he saves it.
UserActs ==
    /\ \A t \in Threads : \/ At(t, "idle") \/ job[t].what = "frame"
                          \/ Overlaps /\ job[t].what = "menu"
    /\ core # None => screen = core

Tick ==
    /\ clock < MaxClock
    /\ clock' = clock + 1
    /\ UNCHANGED <<status, tab, play, slots, disk, job, locks, drawing, history>>
-----------------------------------------------------------------------------
(* Who asks for what.                                                      *)

\* AppStatus::Set takes the video lock; it is free again for a thread that
\* holds it, the lock not being a recursive one.
CanSet(t) == vlock \in {"none", t}

\* _OnPsButton.
MenuButton ==
    /\ At("input", "idle") /\ status = "run" /\ UserActs /\ CanSet("input")
    /\ status' = "menu"
    /\ Start("input", "menu", 0, IF AutoSave THEN "begin" ELSE "end")
    /\ UNCHANGED <<tab, play, slots, cards, locks, drawing, history>>

\* _OnHotkeySave and _OnHotkeyLoad, under the emulator lock.
Hotkey(what) ==
    /\ At("input", "idle") /\ status = "run" /\ UserActs
    /\ Start("input", what, 0, "lock")
    /\ UNCHANGED <<status, tab, play, slots, cards, locks, drawing, history>>

\* UnloadGame, of the menu or of the exit hotkey.
UnloadGame(t) ==
    /\ At(t, "idle") /\ UserActs /\ CanSet(t)
    /\ status = IF t = "main" THEN "menu" ELSE "run"
    /\ status' = "ui"
    /\ Start(t, "unload", 0, "lock")
    /\ UNCHANGED <<tab, play, slots, cards, locks, drawing, history>>

LockEmulator(t) ==
    /\ At(t, "lock") /\ elock = "none"
    /\ elock' = t
    /\ Goto(t, CASE job[t].what = "load" -> "read"
                 [] job[t].what = "unload" /\ ~AutoSave -> "end"
                 [] OTHER -> "begin")
    /\ UNCHANGED <<status, tab, play, slots, cards, vlock, drawing, history>>

InMenu == At("main", "idle") /\ status = "menu" /\ tab /\ UserActs

\* ItemState::OnActive: an empty slot is saved to at once, a full one opens a
\* popup, whose choice Dialog::_OnClick runs with the video lock held.
SaveEmpty(s) ==
    /\ InMenu /\ s # 0 /\ ~valid[s]
    /\ Start("main", "popup", s, "begin")
    /\ UNCHANGED <<status, tab, play, slots, cards, locks, drawing, history>>

Popup(s) ==
    /\ InMenu /\ valid[s] /\ vlock = "none"
    /\ vlock' = "main"
    /\ \/ s # 0 /\ Start("main", "popup", s, "begin")
       \/ Start("main", "resume", s, "read")
       \/ Start("main", "popup", s, "unbin")
    /\ UNCHANGED <<status, tab, play, slots, cards, elock, drawing, history>>

Resume ==
    /\ At("main", "idle") /\ status = "menu" /\ UserActs /\ CanSet("main")
    /\ status' = "run"
    /\ UNCHANGED <<tab, play, slots, cards, job, locks, drawing, history>>

\* App::Run's call of Ui::OnStatusChanged.
Notice ==
    /\ At("main", "idle") /\ vlock = "none" /\ status \in {"ui", "menu"}
    /\ tab # (status = "menu")
    /\ tab' = (status = "menu")
    /\ UNCHANGED <<status, play, slots, cards, job, locks, drawing, history>>

Release(lock, t) == IF lock = t THEN "none" ELSE lock

\* The job ends, with the rest of UnloadGame or of ItemState::_OnRun.
End(t) ==
    /\ At(t, "end") /\ (job[t].what \in {"popup", "resume"} => CanSet(t))
    /\ job' = [job EXCEPT ![t] = Idle]
    /\ elock' = Release(elock, t)
    /\ vlock' = Release(vlock, t)
    /\ status' = IF job[t].what = "resume" THEN "run" ELSE status
    /\ IF job[t].what = "unload"
       THEN /\ left' = IF AutoSave /\ valid[0] THEN [left EXCEPT ![game] = core] ELSE left
            /\ game' = None /\ core' = None
       ELSE UNCHANGED <<left, game, core>>
    /\ UNCHANGED <<tab, screen, slots, cards, drawing, hit>>
-----------------------------------------------------------------------------
(* State::Save.                                                            *)

File(t) == disk[job[t].game][Slot(t)]
Put(t, field, value) == disk' = [disk EXCEPT ![job[t].game][Slot(t)][field] = value]
Fails(fault, t) == fault \in Faults /\ Goto(t, "end")

BeginSave(t) ==
    /\ At(t, "begin")
    /\ valid' = [valid EXCEPT ![Slot(t)] = FALSE]
    /\ job' = [job EXCEPT ![t].at = "serialize", ![t].game = game]
    /\ UNCHANGED <<status, tab, play, tex, cards, locks, drawing, history>>

\* Beside a frame, which the menu button's save does not wait for otherwise
\* than by the time Emulator::Save takes, the core gives anything.
Serialize(t) ==
    /\ At(t, "serialize") /\ (Overlaps \/ ~At("main", "frame"))
    /\ \/ /\ core # None /\ job[t].game # None
          /\ \E c \in IF At("main", "frame") /\ elock # t THEN Frame ELSE {core} :
                job' = [job EXCEPT ![t].at = "open", ![t].bin = c]
       \/ core = None /\ Goto(t, "end")
       \/ Fails("serialize", t)
    /\ UNCHANGED <<status, tab, play, slots, cards, locks, drawing, history>>

\* fopen "wb" empties the file.
Open(t) ==
    /\ At(t, "open")
    /\ \/ /\ Put(t, "bin", Torn)
          /\ job' = [job EXCEPT ![t].at = "write", ![t].over = File(t).img # None]
       \/ Fails("open", t) /\ UNCHANGED disk
    /\ UNCHANGED <<status, tab, play, slots, clock, locks, drawing, history>>

\* fwrite's result is not looked at.
Write(t) ==
    /\ At(t, "write")
    /\ \E bin \in {job[t].bin} \cup (IF "short" \in Faults THEN {Torn} ELSE {}) :
        disk' = [disk EXCEPT ![job[t].game][Slot(t)].bin = bin,
                             ![job[t].game][Slot(t)].time = clock]
    /\ job' = [job EXCEPT ![t].at = "shot", ![t].bin = None]
    /\ UNCHANGED <<status, tab, play, slots, clock, locks, drawing, history>>

\* An operator named X_Bug is X as a plausible bug would have it; no definition
\* uses it, the checks are repeated with it to see that the properties notice.
Shot_KeepsBin(t) ==
    /\ At(t, "shot")
    /\ \/ Put(t, "img", Torn) /\ Goto(t, "jpeg")
       \/ Fails("shot", t) /\ UNCHANGED disk
    /\ UNCHANGED <<status, tab, play, slots, clock, locks, drawing, history>>

Shot(t) ==
    /\ At(t, "shot")
    /\ \/ Put(t, "img", Torn) /\ Goto(t, "jpeg")
       \/ Fails("shot", t) /\ Put(t, "bin", None)
    /\ UNCHANGED <<status, tab, play, slots, clock, locks, drawing, history>>

Jpeg(t) ==
    /\ At(t, "jpeg")
    /\ Put(t, "img", screen)
    /\ Goto(t, IF tex[Slot(t)] = None THEN "texture" ELSE "free")
    /\ UNCHANGED <<status, tab, play, slots, clock, locks, drawing, history>>

FreeShown(s) == shown' = [shown EXCEPT ![s] = IF @ = "live" THEN "freed" ELSE @]

FreeTexture_Unlocked(t) ==
    /\ At(t, "free")
    /\ tex' = [tex EXCEPT ![Slot(t)] = Freed]
    /\ FreeShown(Slot(t))
    /\ Goto(t, "texture")
    /\ UNCHANGED <<status, tab, play, valid, cards, locks, draw, history>>

\* The pointer stays.  The lock, when Dialog::_OnClick held it, is let go.
FreeTexture(t) ==
    /\ At(t, "free") /\ vlock \in {"none", t}
    /\ tex' = [tex EXCEPT ![Slot(t)] = Freed]
    /\ FreeShown(Slot(t))
    /\ vlock' = "none"
    /\ Goto(t, "texture")
    /\ UNCHANGED <<status, tab, play, valid, cards, elock, draw, history>>

\* A picture cut short gives no texture.
Picture(img) == IF img \in Frame THEN img ELSE None

LoadTexture(t) ==
    /\ At(t, "texture")
    /\ tex' = [tex EXCEPT ![Slot(t)] = Picture(File(t).img)]
    /\ Goto(t, "done")
    /\ UNCHANGED <<status, tab, play, valid, cards, locks, drawing, history>>

Saved(t) ==
    /\ At(t, "done")
    /\ valid' = [valid EXCEPT ![Slot(t)] = TRUE]
    /\ hit' = [hit EXCEPT ![job[t].game] = @ \ {Slot(t)}]
    /\ Goto(t, "end")
    /\ UNCHANGED <<status, tab, play, tex, cards, locks, drawing, left>>
-----------------------------------------------------------------------------
(* State::Load and State::Remove.                                          *)

\* What unserializing a file may leave in the core; a short one is refused,
\* or leaves something else.
Unserialized(bin) == CASE bin = None -> {core}
                       [] bin = Torn -> {core, 0}
                       [] OTHER -> {bin}

Load(t) ==
    /\ At(t, "read") /\ game # None /\ core # None
    /\ core' \in Unserialized(disk[game][Slot(t)].bin)
    /\ Goto(t, "end")
    /\ UNCHANGED <<status, tab, game, screen, slots, cards, locks, drawing, history>>

RemoveBin(t) ==
    /\ At(t, "unbin")
    /\ valid' = [valid EXCEPT ![Slot(t)] = FALSE]
    /\ disk' = [disk EXCEPT ![game][Slot(t)].bin = None]
    /\ Goto(t, "unimg")
    /\ UNCHANGED <<status, tab, play, tex, clock, locks, drawing, history>>

RemoveImage(t) ==
    /\ At(t, "unimg")
    /\ disk' = [disk EXCEPT ![game][Slot(t)].img = None]
    /\ hit' = [hit EXCEPT ![game] = @ \ {Slot(t)}]
    /\ Goto(t, IF tex[Slot(t)] = None THEN "end" ELSE "untex")
    /\ UNCHANGED <<status, tab, play, slots, clock, locks, drawing, left>>

RemoveTexture(t) ==
    /\ At(t, "untex") /\ vlock \in {"none", t}
    /\ tex' = [tex EXCEPT ![Slot(t)] = None]
    /\ FreeShown(Slot(t))
    /\ vlock' = "none"
    /\ Goto(t, "end")
    /\ UNCHANGED <<status, tab, play, valid, cards, elock, draw, history>>
-----------------------------------------------------------------------------
(* The game: LoadRom, and a frame, on the main thread.                     *)

LoadRom(g) ==
    /\ At("main", "idle") /\ status = "ui" /\ ~tab /\ CanSet("main")
    /\ UserActs /\ At("input", "idle")
    /\ status' = "boot"
    /\ game' = g
    /\ Start("main", "boot", 0, "init")
    /\ UNCHANGED <<tab, core, screen, slots, cards, locks, drawing, history>>

\* FrameManager::Init.
InitSlots ==
    /\ At("main", "init")
    /\ valid' = [s \in Slots |-> disk[game][s].bin # None /\ disk[game][s].img # None]
    /\ tex' = [s \in Slots |-> IF valid'[s] THEN Picture(disk[game][s].img) ELSE None]
    /\ shown' = [s \in Slots |-> IF shown[s] = "live" /\ tex[s] # None THEN "freed" ELSE shown[s]]
    /\ Goto("main", "boot")
    /\ UNCHANGED <<status, tab, play, cards, locks, draw, history>>

Boot ==
    /\ At("main", "boot")
    /\ \/ core' = 0 /\ status' = "run" /\ Goto("main", "newest") /\ UNCHANGED game
       \/ /\ "boot" \in Faults
          /\ game' = None /\ status' = "ui" /\ Goto("main", "end") /\ UNCHANGED core
    /\ UNCHANGED <<tab, screen, slots, cards, locks, drawing, history>>

Newest_Last(s) ==
    /\ valid[s]
    /\ \A o \in Slots : valid[o] =>
        \/ disk[game][o].time < disk[game][s].time
        \/ disk[game][o].time = disk[game][s].time /\ s >= o

\* FrameManager::GetNewest: of two of the same second, the first.  The
\* slots have just been read: _create_time is the file's.
Newest(s) ==
    /\ valid[s]
    /\ \A o \in Slots : valid[o] =>
        \/ disk[game][o].time < disk[game][s].time
        \/ disk[game][o].time = disk[game][s].time /\ s <= o

\* gConfig->auto_load.
AutoLoad ==
    /\ At("main", "newest")
    /\ IF \E s \in Slots : valid[s]
       THEN \E s \in Slots : Newest(s) /\ core' \in Unserialized(disk[game][s].bin)
       ELSE UNCHANGED core
    /\ Goto("main", "frame")
    /\ UNCHANGED <<status, tab, game, screen, slots, cards, locks, drawing, history>>

RunGame ==
    /\ At("main", "idle") /\ status = "run" /\ elock = "none"
    /\ elock' = "main"
    /\ Start("main", "frame", 0, "frame")
    /\ UNCHANGED <<status, tab, play, slots, cards, vlock, drawing, history>>

\* retro_run, LoadRom's first one, too.
FrameEnds ==
    /\ At("main", "frame") /\ core # None
    /\ LET next == (core + 1) % Frames IN
        core' = next /\ screen' = next
    /\ left' = IF job["main"].what = "boot" THEN [left EXCEPT ![game] = None] ELSE left
    /\ elock' = Release(elock, "main")
    /\ job' = [job EXCEPT !["main"] = Idle]
    /\ UNCHANGED <<status, tab, game, slots, cards, vlock, drawing, hit>>
-----------------------------------------------------------------------------
(* The draw thread: under the video lock it shows the slots, each one      *)
(* looked at and kept by its pointer, then has all of them rendered.       *)

Look ==
    /\ draw = "look" /\ status # "run" /\ tab
    /\ draw' = "lock"
    /\ UNCHANGED <<status, tab, play, slots, cards, job, locks, shown, history>>

LockToDraw ==
    /\ draw = "lock" /\ vlock = "none"
    /\ vlock' = "draw"
    /\ draw' = IF tab THEN "show" ELSE "render"
    /\ UNCHANGED <<status, tab, play, slots, cards, job, elock, shown, history>>

Show ==
    /\ draw = "show"
    /\ shown' = [s \in Slots |-> IF ~valid[s] \/ tex[s] = None THEN "no"
                                 ELSE IF tex[s] = Freed THEN "freed" ELSE "live"]
    /\ draw' = "render"
    /\ UNCHANGED <<status, tab, play, slots, cards, job, locks, history>>

Render ==
    /\ draw = "render"
    /\ shown' = [s \in Slots |-> "no"]
    /\ vlock' = Release(vlock, "draw")
    /\ draw' = "look"
    /\ UNCHANGED <<status, tab, play, slots, cards, job, elock, history>>
-----------------------------------------------------------------------------
\* The application dies: the files are what is left.
Crash ==
    /\ "crash" \in Faults
    /\ status' = "ui" /\ tab' = FALSE
    /\ game' = None /\ core' = None /\ screen' = 0
    /\ valid' = [s \in Slots |-> FALSE] /\ tex' = [s \in Slots |-> None]
    /\ job' = [t \in Threads |-> Idle]
    /\ elock' = "none" /\ vlock' = "none"
    /\ draw' = "look" /\ shown' = [s \in Slots |-> "no"]
    /\ hit' = [g \in Games |-> hit[g] \cup
                 {Slot(t) : t \in {t \in Threads : /\ job[t].game = g /\ job[t].over
                                                   /\ job[t].at \in {"write", "shot"}}}]
    /\ UNCHANGED <<cards, left>>
-----------------------------------------------------------------------------
SaveStep(t) ==
    \/ BeginSave(t) \/ Serialize(t) \/ Open(t) \/ Write(t) \/ Shot(t) \/ Jpeg(t)
    \/ FreeTexture(t) \/ LoadTexture(t) \/ Saved(t)
JobStep(t) ==
    \/ LockEmulator(t) \/ SaveStep(t) \/ Load(t) \/ End(t)
    \/ RemoveBin(t) \/ RemoveImage(t) \/ RemoveTexture(t)
BootStep == InitSlots \/ Boot \/ AutoLoad \/ FrameEnds
DrawStep == Look \/ LockToDraw \/ Show \/ Render

User ==
    \/ MenuButton \/ Resume
    \/ \E what \in {"save", "load"} : Hotkey(what)
    \/ \E t \in Threads : UnloadGame(t)
    \/ \E s \in Slots : SaveEmpty(s) \/ Popup(s)
    \/ \E g \in Games : LoadRom(g)

Next ==
    \/ User
    \/ \E t \in Threads : JobStep(t)
    \/ Notice \/ RunGame \/ BootStep \/ DrawStep
    \/ Tick \/ Crash

Spec == Init /\ [][Next]_vars
-----------------------------------------------------------------------------
(* Properties.                                                             *)

\* Whatever is being rendered is a texture that was not freed since the slot
\* was looked at: Save and Remove make the slot invalid first and free the
\* texture under the draw thread's lock, LoadRom frees them without, once
\* the tab is not shown.
DrawsLiveSlots == \A s \in Slots : shown[s] # "freed"

\* A slot that can be loaded has a whole state in its file, and its picture,
\* if it has one, is of the frame that state was made in; whatever failed or
\* crashed, but for a slot that was being saved over when the application died.
\* (Until FrameManager::Init the slots are still those of the game before.)
SlotsAreWhole ==
    game # None /\ ~At("main", "init") => \A s \in Slots : valid[s] /\ s \notin hit[game] =>
        LET files == disk[game][s] IN
        /\ files.bin \in Frame
        /\ files.img \in {Torn, files.bin}
        /\ tex[s] = Picture(files.img)

\* A game that was saved automatically as it was left begins there again:
\* no other slot is taken for newer, not even one saved in the same second.
ResumesWhereLeft ==
    [][(At("main", "newest") /\ At("main", "frame")' /\ left[game] # None)
            => core' = left[game]]_vars

=============================================================================
