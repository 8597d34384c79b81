------------------------------- MODULE VideoFrame ------------------------------
(***************************************************************************)
(* The way of a frame from the core to the screen (video.cpp,              *)
(* texture_buf.h, video_thread.cpp): the main thread copies frames into a  *)
(* ring of textures and replaces the ring when the size or the settings    *)
(* change; the draw thread picks the newest texture and draws it; the      *)
(* video lock is all that keeps the two apart, and only part of the time.  *)
(* What is under the lock is one step, except for what the draw thread     *)
(* reads without it.  Rotation, scaling and the user interface that is     *)
(* drawn on top are left out.                                              *)
(***************************************************************************)
EXTENDS Naturals

CONSTANTS
    Count,          \* DEFAULT_TEXTURE_BUF_COUNT
    Size,           \* the sizes of the core's picture
    MaxFrames,      \* bound: frames ever made
    MaxGens,        \* bound: texture rings ever made
    MaxAhead,       \* frames the core makes while one picture is drawn
    Preempted       \* LoadRom can be held up between its lines 201 and 203

ASSUME VideoAssumption ==
    /\ Count \in Nat /\ MaxAhead \in Nat /\ MaxAhead + 2 <= Count
    /\ {MaxFrames, MaxGens} \subseteq Nat \ {0}
    /\ Size # {}
    /\ Preempted \in BOOLEAN

VARIABLES
    status,     \* AppStatus
    lock,       \* who holds the video lock
    sema,       \* count of the draw thread's semaphore
    changed,    \* _graphics_config_changed
    ring,       \* _texture_buf: "null", "live", or "gone" while it is replaced
    gen,        \* how many rings there were
    size,       \* its width and height
    index,      \* its _index
    tex,        \* the frame in each texture, 0 when it has none
    last,       \* _last_texture: ring and texture, or None
    cpc,        \* the thread that runs the core
    want,       \* the ring that is asked for, and what its caller does then
    made,       \* frames made
    app,        \* leaving or loading a game
    dpc,        \* the draw thread
    seen,       \* the status it goes by
    held,       \* the texture it looks at
    shown,      \* the frame on the screen
    ahead       \* frames made since it began to draw

vars == <<status, lock, sema, changed, ring, gen, size, index, tex, last, cpc,
          want, made, app, dpc, seen, held, shown, ahead>>
textures == <<ring, gen, size, index, tex>>
draw == <<dpc, seen, held, shown>>

None == [gen |-> 0, at |-> 0]
AnySize == CHOOSE s \in Size : TRUE
NoWant == [size |-> AnySize, then |-> "idle"]
InGame == {"run", "rewind", "menu"}

\* An operator named X_Bug is X as a plausible bug would have it; no definition
\* uses it, the checks are repeated with it to see that the properties notice.
NextAt_Same == index

NextAt == (index + 1) % Count
Current == [gen |-> gen, at |-> index]
Blank == [i \in 0 .. Count - 1 |-> 0]

Init ==
    /\ status = "ui" /\ lock = "none" /\ sema = 0
    /\ changed = FALSE
    /\ ring = "null" /\ gen = 0 /\ size = AnySize /\ index = 0 /\ tex = Blank
    /\ last = None
    /\ cpc = "idle" /\ want = NoWant /\ made = 0
    /\ app = "idle"
    /\ dpc = "top" /\ seen = "ui" /\ held = None /\ shown = 0 /\ ahead = 0
-----------------------------------------------------------------------------
(* The thread that runs the core.                                          *)

BeginFrame ==
    /\ cpc = "idle" /\ app \in {"idle", "leaving"} /\ status \in {"run", "rewind"}
    /\ cpc' = "core"
    /\ UNCHANGED <<status, lock, sema, changed, textures, last, want, made, app, draw, ahead>>

\* RETRO_ENVIRONMENT_SET_GEOMETRY and SET_ROTATION, and ChangeGraphicsConfig of
\* the menu.
ConfigChanges ==
    /\ cpc = "core" \/ (cpc = "idle" /\ status = "menu")
    /\ gen < MaxGens
    /\ changed' = TRUE
    /\ UNCHANGED <<status, lock, sema, textures, last, cpc, want, made, app, draw, ahead>>

\* GetCurrentSoftwareFramebuffer: the core is to draw into the next texture.
GetCurrentSoftwareFramebuffer(s) ==
    /\ cpc = "core"
    /\ ring # "null" /\ ~changed
    /\ made < MaxFrames /\ (s # size => gen < MaxGens)
    /\ cpc' = IF s = size THEN "copy" ELSE "setup"
    /\ want' = IF s = size THEN want ELSE [size |-> s, then |-> "copy"]
    /\ UNCHANGED <<status, lock, sema, changed, textures, last, made, app, draw, ahead>>

\* Refresh; a frame without data repeats the last one, one without a size is
\* ignored.
Refresh(s, data) ==
    /\ cpc = "core"
    /\ LET setup == changed \/ ring = "null" \/ s # size
           then == IF data THEN "copy" ELSE "idle"
       IN /\ setup => gen < MaxGens
          /\ data => made < MaxFrames
          /\ cpc' = IF setup THEN "setup" ELSE then
          /\ want' = IF setup THEN [size |-> s, then |-> then] ELSE want
    /\ UNCHANGED <<status, lock, sema, changed, textures, last, made, app, draw, ahead>>

RefreshNothing ==
    /\ cpc = "core"
    /\ cpc' = "idle"
    /\ UNCHANGED <<status, lock, sema, changed, textures, last, want, made, app, draw, ahead>>

\* _SetupVideoOutput and _CreateTextureBuf: the old ring goes, ...
DeleteRing ==
    /\ cpc = "setup" /\ lock = "none"
    /\ lock' = "core" /\ cpc' = "create"
    /\ ring' = IF ring = "null" THEN "null" ELSE "gone"
    /\ UNCHANGED <<status, sema, changed, gen, size, index, tex, last, want, made, app, draw, ahead>>

\* ... and a new one is there.
CreateRing ==
    /\ cpc = "create"
    /\ ring' = "live" /\ gen' = gen + 1 /\ size' = want.size
    /\ index' = 0 /\ tex' = Blank
    /\ last' = None /\ changed' = FALSE
    /\ lock' = "none" /\ cpc' = want.then /\ want' = NoWant
    /\ UNCHANGED <<status, sema, made, app, draw, ahead>>

\* NextEnd: the frame that was copied into the next texture is the newest.
NextEnd ==
    /\ cpc = "copy"
    /\ dpc = "drawing" => ahead < MaxAhead
    /\ tex' = [tex EXCEPT ![NextAt] = made + 1]
    /\ index' = NextAt
    /\ made' = made + 1
    /\ ahead' = IF dpc = "drawing" THEN ahead + 1 ELSE 0
    /\ cpc' = "signal"
    /\ UNCHANGED <<status, lock, sema, changed, ring, gen, size, last, want, app, draw>>

SignalDraw_Skipped ==
    /\ cpc = "signal"
    /\ cpc' = "idle"
    /\ UNCHANGED <<status, lock, sema, changed, textures, last, want, made, app, draw, ahead>>

SignalDraw ==
    /\ cpc = "signal"
    /\ sema' = 1 /\ cpc' = "idle"
    /\ UNCHANGED <<status, lock, changed, textures, last, want, made, app, draw, ahead>>
-----------------------------------------------------------------------------
(* The status and the game.  AppStatus::Set takes the video lock.          *)

Set(s) ==
    /\ lock = "none"
    /\ status' = s

\* Rewinding, the menu and back.
ChangeStatus ==
    /\ app = "idle"
    /\ \/ status = "run" /\ Set("menu")
       \/ status = "run" /\ Set("rewind")
       \/ status \in {"rewind", "menu"} /\ Set("run")
    /\ UNCHANGED <<lock, sema, changed, textures, last, cpc, want, made, app, draw, ahead>>

\* UnloadGame, and 0.1 second later.
Leave ==
    /\ app = "idle" /\ status \in InGame /\ Set("ui")
    /\ app' = "leaving"
    /\ UNCHANGED <<lock, sema, changed, textures, last, cpc, want, made, draw, ahead>>

ForgetLeft ==
    /\ app = "leaving" /\ cpc = "idle"
    /\ last' = None /\ app' = "idle"
    /\ UNCHANGED <<status, lock, sema, changed, textures, cpc, want, made, draw, ahead>>

\* retro_load_game, in which the core may set its pixel format: a ring of
\* another format is deleted, without the video lock.
Load ==
    /\ app = "idle" /\ status = "ui" /\ cpc = "idle"
    /\ app' = "loading"
    /\ \/ UNCHANGED <<ring, tex>>
       \/ gen < MaxGens /\ ring' = "null" /\ tex' = Blank
    /\ UNCHANGED <<status, lock, sema, changed, gen, size, index, last, cpc, want, made, draw, ahead>>

Loaded ==
    /\ app = "loading" /\ Set("run")
    /\ app' = "loaded"
    /\ UNCHANGED <<lock, sema, changed, textures, last, cpc, want, made, draw, ahead>>

\* _last_texture = nullptr after the status is set: a draw thread that is in
\* between its two uses of _last_texture already would find nothing there.
ForgetLoaded ==
    /\ app = "loaded"
    /\ Preempted \/ dpc # "drawing"
    /\ last' = None /\ app' = "idle"
    /\ UNCHANGED <<status, lock, sema, changed, textures, cpc, want, made, draw, ahead>>

Exit ==
    /\ app = "idle" /\ status = "ui" /\ cpc = "idle" /\ Set("exit")
    /\ UNCHANGED <<lock, sema, changed, textures, last, cpc, want, made, app, draw, ahead>>
-----------------------------------------------------------------------------
(* The draw thread.                                                        *)

ReadStatus ==
    /\ dpc = "top"
    /\ seen' = status
    /\ dpc' = CASE status = "exit" -> "off" [] status = "run" -> "look" [] OTHER -> "lock"
    /\ UNCHANGED <<status, lock, sema, changed, textures, last, cpc, want, made, app, held, shown, ahead>>

\* NeedRender reads the flag and the pointer, ...
NeedRender ==
    /\ dpc = "look"
    /\ dpc' = IF changed \/ ring = "null" THEN "wait" ELSE "compare"
    /\ held' = IF changed \/ ring = "null" THEN None ELSE [gen |-> gen, at |-> 0]
    /\ UNCHANGED <<status, lock, sema, changed, textures, last, cpc, want, made, app, seen, shown, ahead>>

\* ... and follows it.  The ring may have been deleted under it by then, and the
\* answer is whatever the memory holds.
Compare ==
    /\ dpc = "compare"
    /\ dpc' \in IF ring = "live" /\ held.gen = gen
                THEN IF last # Current THEN {"lock"} ELSE {"wait"}
                ELSE {"lock", "wait"}
    /\ held' = None
    /\ UNCHANGED <<status, lock, sema, changed, textures, last, cpc, want, made, app, seen, shown, ahead>>

\* Wait for a millisecond: a signal to draw, or another look.
Wait ==
    /\ dpc = "wait"
    /\ \/ sema = 1 /\ sema' = 0 /\ dpc' = "lock"
       \/ sema = 0 /\ UNCHANGED sema /\ dpc' = "top"
    /\ UNCHANGED <<status, lock, changed, textures, last, cpc, want, made, app, seen, held, shown, ahead>>

LockToDraw ==
    /\ dpc = "lock" /\ lock = "none"
    /\ lock' = "draw" /\ dpc' = "show"
    /\ UNCHANGED <<status, sema, changed, textures, last, cpc, want, made, app, seen, held, shown, ahead>>

Show_SeenStatus ==
    /\ dpc = "show"
    /\ IF seen \in InGame /\ ~changed /\ ring # "null"
       THEN last' = Current /\ held' = Current /\ dpc' = "drawing" /\ ahead' = 0
       ELSE dpc' = "swap" /\ UNCHANGED <<last, held, ahead>>
    /\ UNCHANGED <<status, lock, sema, changed, textures, cpc, want, made, app, seen, shown>>

\* Emulator::Show, which reads the status once more, now under the lock.
Show ==
    /\ dpc = "show"
    /\ IF seen \in InGame /\ status \in InGame /\ ~changed /\ ring # "null"
       THEN last' = Current /\ held' = Current /\ dpc' = "drawing" /\ ahead' = 0
       ELSE dpc' = "swap" /\ UNCHANGED <<last, held, ahead>>
    /\ UNCHANGED <<status, lock, sema, changed, textures, cpc, want, made, app, seen, shown>>

Drawn ==
    /\ dpc = "drawing"
    /\ shown' = tex[held.at] /\ held' = None /\ ahead' = 0
    /\ dpc' = "swap"
    /\ UNCHANGED <<status, lock, sema, changed, textures, last, cpc, want, made, app, seen>>

Swap ==
    /\ dpc = "swap"
    /\ lock' = "none" /\ dpc' = "top"
    /\ UNCHANGED <<status, sema, changed, textures, last, cpc, want, made, app, seen, held, shown, ahead>>

Core ==
    \/ BeginFrame \/ ConfigChanges \/ RefreshNothing
    \/ DeleteRing \/ CreateRing \/ NextEnd \/ SignalDraw
    \/ \E s \in Size : \/ GetCurrentSoftwareFramebuffer(s)
                       \/ \E data \in BOOLEAN : Refresh(s, data)

App == ChangeStatus \/ Leave \/ ForgetLeft \/ Load \/ Loaded \/ ForgetLoaded \/ Exit

DrawThread == ReadStatus \/ NeedRender \/ Compare \/ Wait \/ LockToDraw \/ Show \/ Drawn \/ Swap

Next == Core \/ App \/ DrawThread

Spec == Init /\ [][Next]_vars

\* Threads run; the video lock is handed to whoever asks for it often enough;
\* every frame ends in Refresh (a core calls it in each retro_run).
Fairness ==
    /\ WF_vars(DrawThread) /\ SF_vars(LockToDraw)
    /\ SF_vars(DeleteRing) /\ WF_vars(CreateRing) /\ WF_vars(NextEnd) /\ WF_vars(SignalDraw)
    /\ WF_vars(BeginFrame)
    /\ \A s \in Size : SF_vars(Refresh(s, FALSE) /\ s = size)
    /\ SF_vars(Loaded) /\ WF_vars(ForgetLoaded)

FairSpec == Spec /\ Fairness
-----------------------------------------------------------------------------
TypeOK ==
    /\ status \in {"ui", "run", "rewind", "menu", "exit"} /\ seen \in {"ui", "run", "rewind", "menu", "exit"}
    /\ lock \in {"none", "core", "draw"} /\ sema \in 0 .. 1
    /\ changed \in BOOLEAN
    /\ ring \in {"null", "live", "gone"} /\ gen \in 0 .. MaxGens /\ size \in Size
    /\ index \in 0 .. Count - 1 /\ tex \in [0 .. Count - 1 -> 0 .. MaxFrames]
    /\ {last, held} \subseteq [gen : 0 .. MaxGens, at : 0 .. Count - 1]
    /\ cpc \in {"idle", "core", "setup", "create", "copy", "signal"}
    /\ want \in [size : Size, then : {"idle", "copy"}]
    /\ made \in 0 .. MaxFrames /\ shown \in 0 .. MaxFrames /\ ahead \in 0 .. MaxAhead
    /\ app \in {"idle", "leaving", "loading", "loaded"}
    /\ dpc \in {"top", "look", "compare", "wait", "lock", "show", "drawing", "swap", "off"}

\* While the draw thread draws, the texture it took belongs to the ring that is
\* there, and _last_texture still points to it.  Replacing the ring takes the
\* video lock; loading deletes the ring and forgets the texture without it, and
\* is only kept away because Show reads the status again under the lock.
DrawsLiveTexture ==
    dpc = "drawing" => ring = "live" /\ held.gen = gen /\ last = held

\* The core never writes into the texture that is being drawn, as long as it
\* makes at most Count - 2 frames in the meantime.
NoTearing == dpc = "drawing" /\ cpc = "copy" => held.at # NextAt

\* The newest frame reaches the screen, or a newer one does, unless its ring is
\* replaced, the game is left, or the menu has new settings that wait for the
\* next frame: also when the ring came round to the texture last drawn, where
\* NeedRender alone sees nothing new.
Replaced(f) == \A i \in DOMAIN tex : tex[i] < f
FrameShown ==
    \A f \in 1 .. MaxFrames :
        tex[index] = f ~> \/ shown >= f \/ Replaced(f)
                         \/ status \notin InGame \/ (status = "menu" /\ changed)
=============================================================================
