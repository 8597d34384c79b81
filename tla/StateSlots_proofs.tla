--------------------------- MODULE StateSlots_proofs ---------------------------
(***************************************************************************)
(* Proofs about the state slots.  The invariant has two layers:            *)
(*   Base   who saves, loads, removes or leaves, what the locks keep apart *)
(*          and what the draw thread points at;                            *)
(*   Files  what the files of each slot hold at each step of a save, whose *)
(*          state a valid slot is, and which slot of a left game is the    *)
(*          newest.                                                        *)
(* Base is inductive when the user lets the menu button's save end before  *)
(* using the menu (~Overlaps); Files needs Base and that a write that      *)
(* fails leaves no short file ("short" not among the faults).  Each action *)
(* has two lemmas, one per layer, with a step per conjunct; what it does   *)
(* to the jobs is a lemma of its own before them.                          *)
(***************************************************************************)
EXTENDS StateSlots, TLAPS

Ats == {"idle", "frame", "lock", "begin", "serialize", "open", "write", "shot", "jpeg", "free",
        "texture", "done", "read", "unbin", "unimg", "untex", "end", "init", "boot", "newest"}
Whats == {"none", "frame", "menu", "save", "load", "popup", "resume", "unload", "boot"}

Card == [bin : Frame \cup {None, Torn}, img : Frame \cup {None, Torn}, time : 0 .. MaxClock]
Job == [at : Ats, what : Whats, slot : Slots, game : Games \cup {None},
        bin : Frame \cup {None}, over : BOOLEAN]

\* TypeOK, in a form the provers take.
PlainTypes ==
    /\ status \in {"ui", "boot", "run", "menu"} /\ tab \in BOOLEAN
    /\ game \in Games \cup {None}
    /\ core \in Frame \cup {None} /\ screen \in Frame
    /\ clock \in 0 .. MaxClock
    /\ elock \in Threads \cup {"none"} /\ vlock \in Threads \cup {"none", "draw"}
    /\ draw \in {"look", "lock", "show", "render"}
SlotTypes ==
    /\ valid \in [Slots -> BOOLEAN]
    /\ tex \in [Slots -> Frame \cup {None, Freed}]
    /\ shown \in [Slots -> {"no", "live", "freed"}]
HistoryTypes ==
    /\ left \in [Games -> Frame \cup {None}]
    /\ hit \in [Games -> SUBSET Slots]
Types ==
    /\ PlainTypes /\ SlotTypes /\ HistoryTypes
    /\ disk \in [Games -> [Slots -> Card]]
    /\ job \in [Threads -> Job]

Steps == {"begin", "serialize", "open", "write", "shot", "jpeg", "free", "texture", "done", "end"}

\* What each job consists of, who does it, and that one is done at a time, but
\* for the frame the main thread is making.
JobInv ==
    /\ job["main"].what \in {"none", "frame", "popup", "resume", "unload", "boot"}
    /\ job["input"].what \in {"none", "menu", "save", "load", "unload"}
    /\ \A t \in Threads :
        /\ job[t].what = "none" <=> job[t].at = "idle"
        /\ job[t].what = "frame" => job[t].at = "frame"
        /\ job[t].what = "menu" => job[t].at \in Steps /\ job[t].slot = 0
        /\ job[t].what \in {"save", "unload"} => job[t].at \in Steps \cup {"lock"} /\ job[t].slot = 0
        /\ job[t].what = "load" => job[t].at \in {"lock", "read", "end"}
        /\ job[t].what = "popup" => job[t].at \in Steps \cup {"unbin", "unimg", "untex"}
        /\ job[t].what = "resume" => job[t].at \in {"read", "end"}
        /\ job[t].what = "boot" => job[t].at \in {"init", "boot", "newest", "frame", "end"}
    /\ job["input"].what # "none" => job["main"].what \in {"none", "frame"}

\* The emulator lock keeps frames and the hotkeys' and UnloadGame's jobs apart.
LockInv == \A t \in Threads :
    job[t].what = "frame" \/ (job[t].what \in {"save", "unload"} /\ job[t].at # "lock") => elock = t

StatusInv ==
    /\ status \in {"run", "menu"} => game \in Games /\ core \in Frame
    /\ status = "boot" => game \in Games /\ job["main"].what = "boot" /\ job["main"].at \in {"init", "boot"}
    /\ \A t \in Threads :
        /\ job[t].what = "unload" => status = "ui" /\ game \in Games /\ core \in Frame
        /\ job[t].what \in {"menu", "popup", "resume"} => status = "menu"
        /\ job[t].what \in {"save", "load"} => status = "run"
        /\ job[t].what = "boot" /\ job[t].at \in {"init", "boot"} => status = "boot"
        /\ job[t].what = "boot" /\ job[t].at \in {"newest", "frame"} => status = "run"
        /\ job[t].what = "boot" /\ job[t].at = "end" => game = None
        /\ job[t].what \in {"menu", "save", "unload", "popup"} => screen = core

\* A slot that is being saved or removed is not valid, and no frame is made
\* from the moment the core is asked for its state.
Saving == {"serialize", "open", "write", "shot", "jpeg", "free", "texture", "done"}
BusyInv == \A t \in Threads :
    /\ job[t].at \in Saving => job[t].game = game
    /\ job[t].at \in Saving \cup {"unimg", "untex"} => ~valid[job[t].slot]
    /\ job[t].at \in {"open", "write", "shot", "jpeg"} => job["main"].at # "frame"
    /\ job[t].at = "done" => tex[job[t].slot] # Freed

\* The draw thread looks at the slots and renders them under the video lock,
\* while their tab is there; a pointer that dangles is a slot's that is saved.
DrawInv ==
    /\ draw \in {"show", "render"} => vlock = "draw"
    /\ draw = "show" => tab
    /\ \A s \in Slots : /\ shown[s] = "no" \/ (shown[s] = "live" /\ draw = "render" /\ tab)
                        /\ tex[s] = Freed => ~valid[s]
    /\ job["main"].at = "init" => ~tab

Base == Types /\ JobInv /\ LockInv /\ StatusInv /\ BusyInv /\ DrawInv

\* The files of a game's slot; a save that overwrites them is under way in
\* between.
Whole(files) ==
    files.bin # None /\ files.img # None => files.bin \in Frame /\ files.img \in {Torn, files.bin}
BeingSaved(g, s) == \E t \in Threads :
    job[t].at \in {"write", "shot"} /\ job[t].slot = s /\ job[t].game = g
DiskInv == \A g \in Games, s \in Slots : s \in hit[g] \/ BeingSaved(g, s) \/ Whole(disk[g][s])

\* A save, step by step: what its slot's files hold by then.
SaveInv == \A t \in Threads :
    LET files == disk[game][job[t].slot] IN
    /\ job[t].at \in {"open", "write"} => job[t].bin = core
    /\ job[t].at \in {"write", "shot"} => job[t].over \/ files.img = None
    /\ job[t].at \in {"shot", "jpeg"} => files.bin = core
    /\ job[t].at = "jpeg" => files.img = Torn
    /\ job[t].at \in {"free", "texture", "done"} => files.bin \in Frame /\ files.img = files.bin
    /\ job[t].at = "done" => tex[job[t].slot] = files.img
    /\ job[t].at = "unimg" => files.bin = None

\* A valid slot has its two files and shows its picture.
ValidInv ==
    game # None /\ job["main"].at # "init" => \A s \in Slots : valid[s] =>
        LET files == disk[game][s] IN
        files.bin # None /\ files.img # None /\ tex[s] = Picture(files.img)

\* A game that was left and saved has its last state in the automatic slot, no
\* other slot is newer, and it has not been played since.
IsLast(g, c) == /\ disk[g][0].bin = c /\ disk[g][0].img # None
                /\ \A s \in Slots : disk[g][s].time <= disk[g][0].time
TimeInv == \A g \in Games, s \in Slots : disk[g][s].time <= clock
UnloadInv == \A t \in Threads : job[t].what = "unload" =>
    /\ job[t].at \in {"shot", "jpeg", "free", "texture", "done"} =>
        /\ disk[game][0].bin = core
        /\ \A s \in Slots : disk[game][s].time <= disk[game][0].time
    /\ job[t].at = "end" /\ AutoSave /\ valid[0] => IsLast(game, core)
LeftInv ==
    /\ \A g \in Games : left[g] # None =>
        /\ game = g => job["main"].what = "boot"
        /\ IsLast(g, left[g])
    /\ job["main"].at \in {"boot", "newest"} /\ left[game] # None => valid[0]

Files == DiskInv /\ SaveInv /\ ValidInv /\ TimeInv /\ UnloadInv /\ LeftInv

NoOverlap == ~Overlaps
NoShort == NoOverlap /\ "short" \notin Faults

\* What a step does to the jobs and to the files, field by field.
Stays(t) == /\ job' \in [Threads -> Job]
            /\ \A u \in Threads : u # t => job'[u] = job[u]
            /\ job'[t].what = job[t].what /\ job'[t].slot = job[t].slot
Moves(t, p) == /\ Stays(t) /\ job'[t].at = p
               /\ job'[t].game = job[t].game /\ job'[t].bin = job[t].bin /\ job'[t].over = job[t].over
Starts(t, w, s, p) == /\ job' \in [Threads -> Job]
                      /\ \A u \in Threads : u # t => job'[u] = job[u]
                      /\ job'[t].what = w /\ job'[t].slot = s /\ job'[t].at = p
GotoGame(t, p, v) == job' = [job EXCEPT ![t].at = p, ![t].game = v]
GotoBin(t, p, v) == job' = [job EXCEPT ![t].at = p, ![t].bin = v]
GotoOver(t, p, v) == job' = [job EXCEPT ![t].at = p, ![t].over = v]
PutBin(g, s, v) == disk' = [disk EXCEPT ![g][s].bin = v]
PutImg(g, s, v) == disk' = [disk EXCEPT ![g][s].img = v]
PutBinTime(g, s, v, c) == disk' = [disk EXCEPT ![g][s].bin = v, ![g][s].time = c]
Puts(g, s) == /\ disk' \in [Games -> [Slots -> Card]]
              /\ \A h \in Games, o \in Slots : h # g \/ o # s => disk'[h][o] = disk[h][o]

USE DEF At, Slot, Threads, Idle, Ats, Whats, Steps, Saving, locks, play, slots, cards, drawing, history
-----------------------------------------------------------------------------
LEMMA Constants ==
    /\ 0 \in Slots /\ Slots \subseteq Nat
    /\ Frames \in Nat \ {0} /\ MaxClock \in Nat /\ Frame \subseteq Nat /\ 0 \in Frame
    /\ None \notin Games
    /\ None \notin Frame /\ Torn \notin Frame /\ Freed \notin Frame
    /\ None # Torn /\ None # Freed /\ Torn # Freed
    /\ AutoSave \in BOOLEAN
BY SlotsAssumption DEF SlotsAssumption, Frame

LEMMA GotoIs ==
    ASSUME job \in [Threads -> Job], NEW t \in Threads, NEW p \in Ats, Goto(t, p)
    PROVE  Moves(t, p)
<1>1. job' = [job EXCEPT ![t] = [job[t] EXCEPT !.at = p]]
  BY DEF Goto
<1>2. [job[t] EXCEPT !.at = p] \in Job
  BY DEF Job
<1> QED
  BY <1>1, <1>2 DEF Moves, Stays, Job

LEMMA GotoGameIs ==
    ASSUME job \in [Threads -> Job], NEW t \in Threads, NEW p \in Ats, NEW v \in Games \cup {None},
           GotoGame(t, p, v)
    PROVE  /\ Stays(t) /\ job'[t].at = p /\ job'[t].game = v
           /\ job'[t].bin = job[t].bin /\ job'[t].over = job[t].over
<1> DEFINE new == [job[t] EXCEPT !.at = p, !.game = v]
<1>1. job[t] \in Job
  OBVIOUS
<1>2. /\ new \in Job /\ new.at = p /\ new.game = v /\ new.what = job[t].what
      /\ new.slot = job[t].slot /\ new.bin = job[t].bin /\ new.over = job[t].over
  BY <1>1, ZenonT(40) DEF Job
<1>3. job' = [job EXCEPT ![t] = new]
  BY DEF GotoGame
<1> HIDE DEF new
<1>4. job'[t] = new /\ \A u \in Threads : u # t => job'[u] = job[u]
  BY <1>3
<1>5. job' \in [Threads -> Job]
  BY <1>2, <1>3
<1> QED
  BY <1>2, <1>4, <1>5 DEF Stays

LEMMA GotoBinIs ==
    ASSUME job \in [Threads -> Job], NEW t \in Threads, NEW p \in Ats, NEW v \in Frame \cup {None},
           GotoBin(t, p, v)
    PROVE  /\ Stays(t) /\ job'[t].at = p /\ job'[t].bin = v
           /\ job'[t].game = job[t].game /\ job'[t].over = job[t].over
<1> DEFINE new == [job[t] EXCEPT !.at = p, !.bin = v]
<1>1. job[t] \in Job
  OBVIOUS
<1>2. /\ new \in Job /\ new.at = p /\ new.bin = v /\ new.what = job[t].what
      /\ new.slot = job[t].slot /\ new.game = job[t].game /\ new.over = job[t].over
  BY <1>1, ZenonT(40) DEF Job
<1>3. job' = [job EXCEPT ![t] = new]
  BY DEF GotoBin
<1> HIDE DEF new
<1>4. job'[t] = new /\ \A u \in Threads : u # t => job'[u] = job[u]
  BY <1>3
<1>5. job' \in [Threads -> Job]
  BY <1>2, <1>3
<1> QED
  BY <1>2, <1>4, <1>5 DEF Stays

LEMMA GotoOverIs ==
    ASSUME job \in [Threads -> Job], NEW t \in Threads, NEW p \in Ats, NEW v \in BOOLEAN,
           GotoOver(t, p, v)
    PROVE  /\ Stays(t) /\ job'[t].at = p /\ job'[t].over = v
           /\ job'[t].game = job[t].game /\ job'[t].bin = job[t].bin
<1> DEFINE new == [job[t] EXCEPT !.at = p, !.over = v]
<1>1. job[t] \in Job
  OBVIOUS
<1>2. /\ new \in Job /\ new.at = p /\ new.over = v /\ new.what = job[t].what
      /\ new.slot = job[t].slot /\ new.game = job[t].game /\ new.bin = job[t].bin
  BY <1>1, ZenonT(40) DEF Job
<1>3. job' = [job EXCEPT ![t] = new]
  BY DEF GotoOver
<1> HIDE DEF new
<1>4. job'[t] = new /\ \A u \in Threads : u # t => job'[u] = job[u]
  BY <1>3
<1>5. job' \in [Threads -> Job]
  BY <1>2, <1>3
<1> QED
  BY <1>2, <1>4, <1>5 DEF Stays

LEMMA StartIs ==
    ASSUME job \in [Threads -> Job], NEW t \in Threads, NEW w \in Whats, NEW s \in Slots, NEW p \in Ats,
           Start(t, w, s, p)
    PROVE  Starts(t, w, s, p)
<1> DEFINE new == [Idle EXCEPT !.at = p, !.what = w, !.slot = s]
<1>1. job' = [job EXCEPT ![t] = new]
  BY DEF Start
<1>2. Idle \in Job
  BY Constants DEF Job, Idle
<1>3. new.at = p /\ new.what = w /\ new.slot = s
  BY DEF Idle
<1>4. new \in Job
  BY <1>2, ZenonT(40) DEF Job
<1> HIDE DEF new
<1> QED
  BY <1>1, <1>3, <1>4 DEF Starts

LEMMA PutBinIs ==
    ASSUME disk \in [Games -> [Slots -> Card]], NEW g \in Games, NEW s \in Slots,
           NEW v \in Frame \cup {None, Torn}, PutBin(g, s, v)
    PROVE  /\ Puts(g, s) /\ disk'[g][s].bin = v
           /\ disk'[g][s].img = disk[g][s].img /\ disk'[g][s].time = disk[g][s].time
<1> DEFINE card == [disk[g][s] EXCEPT !.bin = v]
<1>1. disk[g] \in [Slots -> Card] /\ disk[g][s] \in Card
  OBVIOUS
<1>2. card \in Card /\ card.bin = v /\ card.img = disk[g][s].img /\ card.time = disk[g][s].time
  BY <1>1 DEF Card
<1>3. disk' = [disk EXCEPT ![g] = [disk[g] EXCEPT ![s] = card]]
  BY DEF PutBin
<1> HIDE DEF card
<1>4. Puts(g, s) /\ disk'[g][s] = card
  BY <1>1, <1>2, <1>3 DEF Puts
<1> QED
  BY <1>2, <1>4

LEMMA PutImgIs ==
    ASSUME disk \in [Games -> [Slots -> Card]], NEW g \in Games, NEW s \in Slots,
           NEW v \in Frame \cup {None, Torn}, PutImg(g, s, v)
    PROVE  /\ Puts(g, s) /\ disk'[g][s].img = v
           /\ disk'[g][s].bin = disk[g][s].bin /\ disk'[g][s].time = disk[g][s].time
<1> DEFINE card == [disk[g][s] EXCEPT !.img = v]
<1>1. disk[g] \in [Slots -> Card] /\ disk[g][s] \in Card
  OBVIOUS
<1>2. card \in Card /\ card.img = v /\ card.bin = disk[g][s].bin /\ card.time = disk[g][s].time
  BY <1>1 DEF Card
<1>3. disk' = [disk EXCEPT ![g] = [disk[g] EXCEPT ![s] = card]]
  BY DEF PutImg
<1> HIDE DEF card
<1>4. Puts(g, s) /\ disk'[g][s] = card
  BY <1>1, <1>2, <1>3 DEF Puts
<1> QED
  BY <1>2, <1>4

LEMMA PutBinTimeIs ==
    ASSUME disk \in [Games -> [Slots -> Card]], NEW g \in Games, NEW s \in Slots,
           NEW v \in Frame \cup {None, Torn}, NEW c \in 0 .. MaxClock,
           PutBinTime(g, s, v, c)
    PROVE  /\ Puts(g, s) /\ disk'[g][s].bin = v
           /\ disk'[g][s].img = disk[g][s].img /\ disk'[g][s].time = c
<1> DEFINE card == [disk[g][s] EXCEPT !.bin = v, !.time = c]
<1>1. disk[g] \in [Slots -> Card] /\ disk[g][s] \in Card
  OBVIOUS
<1>2. card \in Card /\ card.bin = v /\ card.img = disk[g][s].img /\ card.time = c
  BY <1>1 DEF Card
<1>3. disk' = [disk EXCEPT ![g] = [disk[g] EXCEPT ![s] = card]]
  BY DEF PutBinTime
<1> HIDE DEF card
<1>4. disk'[g] = [disk[g] EXCEPT ![s] = card] /\ \A h \in Games : h # g => disk'[h] = disk[h]
  BY <1>3
<1>5. disk' \in [Games -> [Slots -> Card]]
  <2>1. [disk[g] EXCEPT ![s] = card] \in [Slots -> Card]
    BY <1>1, <1>2
  <2> DEFINE row == [disk[g] EXCEPT ![s] = card]
  <2>2. disk' = [disk EXCEPT ![g] = row]
    BY <1>3
  <2> HIDE DEF row
  <2>3. row \in [Slots -> Card] => [disk EXCEPT ![g] = row] \in [Games -> [Slots -> Card]]
    OBVIOUS
  <2> QED
    BY <2>1, <2>2, <2>3 DEF row
<1>6. Puts(g, s) /\ disk'[g][s] = card
  BY <1>1, <1>4, <1>5 DEF Puts
<1> QED
  BY <1>2, <1>6

LEMMA CardIs ==
    ASSUME disk \in [Games -> [Slots -> Card]]
    PROVE  \A g \in Games, s \in Slots :
              /\ disk[g][s].bin \in Frame \cup {None, Torn} /\ disk[g][s].img \in Frame \cup {None, Torn}
              /\ disk[g][s].time \in Nat
<1> TAKE g \in Games, s \in Slots
<1>1. disk[g] \in [Slots -> Card]
  OBVIOUS
<1>2. disk[g][s] \in Card
  BY <1>1
<1> QED
  BY <1>2, Constants DEF Card

\* Whoever saves or removes a slot is alone, has a game, and saw its frame.
LEMMA Saver ==
    ASSUME Base, NEW t \in Threads,
           job[t].at \in Saving \cup {"begin", "unbin", "unimg", "untex"}
    PROVE  /\ game \in Games /\ core \in Frame /\ screen = core
           /\ job[t].what \in {"menu", "save", "unload", "popup"} /\ job[t].slot \in Slots
           /\ job[t].at \in Saving => job[t].game = game
           /\ \A u \in Threads : u # t => job[u].at \in {"idle", "frame"}
<1>1. job[t].what \in {"menu", "save", "unload", "popup"} /\ job[t].slot \in Slots
  BY DEF Base, Types, JobInv, Job
<1>2. game \in Games /\ core \in Frame /\ screen = core
  BY <1>1 DEF Base, StatusInv
<1>3. job[t].at \in Saving => job[t].game = game
  BY DEF Base, BusyInv
<1>4. \A u \in Threads : u # t => job[u].at \in {"idle", "frame"}
  BY <1>1 DEF Base, JobInv
<1> QED
  BY <1>1, <1>2, <1>3, <1>4


LEMMA TickKeepsBase == ASSUME NoOverlap, Base, Tick PROVE Base'
<1> USE DEF Base, Types, NoOverlap
<1>1. disk' \in [Games -> [Slots -> Card]]
  BY DEF Tick
<1>2. job' \in [Threads -> Job]
  BY DEF Tick, Stays, Moves, Starts
<1>3. PlainTypes'
  BY Constants DEF Tick, PlainTypes
<1>4. SlotTypes'
  BY DEF Tick, SlotTypes
<1>5. HistoryTypes'
  BY DEF Tick, HistoryTypes
<1>6. JobInv'
  BY DEF Tick, JobInv
<1>7. LockInv'
  BY DEF Tick, LockInv
<1>8. StatusInv'
  BY DEF Tick, StatusInv
<1>9. BusyInv'
  BY DEF Tick, BusyInv, SlotTypes
<1>10. DrawInv'
  BY DEF Tick, DrawInv, SlotTypes
<1> QED
  BY <1>1, <1>2, <1>3, <1>4, <1>5, <1>6, <1>7, <1>8, <1>9, <1>10

LEMMA TickKeepsFiles == ASSUME NoShort, Base, Files, Base', Tick PROVE Files'
<1> USE DEF Base, Types, Files, NoShort
<1>1. \A g \in Games, s \in Slots :
        /\ disk[g][s].bin \in Frame \cup {None, Torn} /\ disk[g][s].img \in Frame \cup {None, Torn}
        /\ disk[g][s].time \in Nat
  BY CardIs
<1>2. DiskInv'
  BY DEF Tick, DiskInv, Whole, BeingSaved
<1>3. SaveInv'
  BY DEF Tick, SaveInv
<1>4. ValidInv'
  BY DEF Tick, ValidInv, SlotTypes
<1>5. TimeInv'
  BY <1>1 DEF Tick, TimeInv, PlainTypes
<1>6. UnloadInv'
  BY DEF Tick, UnloadInv, IsLast
<1>7. LeftInv'
  BY DEF Tick, LeftInv, IsLast, HistoryTypes
<1> QED
  BY <1>2, <1>3, <1>4, <1>5, <1>6, <1>7

LEMMA MenuButtonIs ==
    ASSUME Base, MenuButton
    PROVE  Starts("input", "menu", 0, IF AutoSave THEN "begin" ELSE "end")
BY Constants, StartIs DEF MenuButton, Base, Types, Ats, Whats

LEMMA MenuButtonKeepsBase == ASSUME NoOverlap, Base, MenuButton PROVE Base'
<1>1. Starts("input", "menu", 0, IF AutoSave THEN "begin" ELSE "end")
  BY MenuButtonIs
<1> USE DEF Base, Types, NoOverlap
<1>2. disk' \in [Games -> [Slots -> Card]]
  BY DEF MenuButton, Puts
<1>3. job' \in [Threads -> Job]
  BY <1>1 DEF MenuButton, Stays, Moves, Starts
<1>4. PlainTypes'
  BY DEF MenuButton, UserActs, CanSet, PlainTypes, Starts
<1>5. SlotTypes'
  BY DEF MenuButton, UserActs, CanSet, SlotTypes, Starts
<1>6. HistoryTypes'
  BY DEF MenuButton, UserActs, CanSet, HistoryTypes, Starts
<1>7. JobInv'
  BY <1>1 DEF MenuButton, UserActs, CanSet, JobInv, Starts
<1>8. LockInv'
  BY <1>1 DEF MenuButton, UserActs, CanSet, LockInv, Starts
<1>9. StatusInv'
  BY Constants, <1>1 DEF MenuButton, UserActs, CanSet, StatusInv, JobInv, Starts
<1>10. BusyInv'
  BY <1>1 DEF MenuButton, UserActs, CanSet, BusyInv, SlotTypes, Starts
<1>11. DrawInv'
  BY <1>1 DEF MenuButton, UserActs, CanSet, DrawInv, SlotTypes, Starts
<1> QED
  BY <1>2, <1>3, <1>4, <1>5, <1>6, <1>7, <1>8, <1>9, <1>10, <1>11

LEMMA MenuButtonKeepsFiles == ASSUME NoShort, Base, Files, Base', MenuButton PROVE Files'
<1>1. Starts("input", "menu", 0, IF AutoSave THEN "begin" ELSE "end")
  BY MenuButtonIs
<1> USE DEF Base, Types, Files, NoShort
<1>2. DiskInv'
  <2>1. \A g \in Games, s \in Slots : BeingSaved(g, s) => BeingSaved(g, s)'
    BY <1>1 DEF MenuButton, BeingSaved, Starts
  <2> QED
    BY <2>1 DEF MenuButton, DiskInv, Whole
<1>3. SaveInv'
  BY <1>1 DEF MenuButton, UserActs, CanSet, SaveInv, Starts
<1>4. ValidInv'
  BY <1>1 DEF MenuButton, UserActs, CanSet, ValidInv, SlotTypes, Starts
<1>5. TimeInv'
  BY DEF MenuButton, UserActs, CanSet, TimeInv, Starts
<1>6. UnloadInv'
  BY <1>1 DEF MenuButton, UserActs, CanSet, UnloadInv, IsLast, JobInv, BusyInv, SaveInv,
     TimeInv, SlotTypes, Starts
<1>7. LeftInv'
  BY <1>1 DEF MenuButton, UserActs, CanSet, LeftInv, IsLast, HistoryTypes, Starts
<1> QED
  BY <1>2, <1>3, <1>4, <1>5, <1>6, <1>7

LEMMA HotkeyIs ==
    ASSUME Base, NEW what \in {"save", "load"}, Hotkey(what)
    PROVE  Starts("input", what, 0, "lock")
BY Constants, StartIs DEF Hotkey, Base, Types, Ats, Whats

LEMMA HotkeyKeepsBase == ASSUME NoOverlap, Base, NEW what \in {"save", "load"}, Hotkey(what) PROVE Base'
<1>1. Starts("input", what, 0, "lock")
  BY HotkeyIs
<1> USE DEF Base, Types, NoOverlap
<1>2. disk' \in [Games -> [Slots -> Card]]
  BY DEF Hotkey, Puts
<1>3. job' \in [Threads -> Job]
  BY <1>1 DEF Hotkey, Stays, Moves, Starts
<1>4. PlainTypes'
  BY DEF Hotkey, UserActs, PlainTypes, Starts
<1>5. SlotTypes'
  BY DEF Hotkey, UserActs, SlotTypes, Starts
<1>6. HistoryTypes'
  BY DEF Hotkey, UserActs, HistoryTypes, Starts
<1>7. JobInv'
  BY <1>1 DEF Hotkey, UserActs, JobInv, Starts
<1>8. LockInv'
  BY <1>1 DEF Hotkey, UserActs, LockInv, Starts
<1>9. StatusInv'
  BY Constants, <1>1 DEF Hotkey, UserActs, StatusInv, Starts
<1>10. BusyInv'
  BY <1>1 DEF Hotkey, UserActs, BusyInv, SlotTypes, Starts
<1>11. DrawInv'
  BY <1>1 DEF Hotkey, UserActs, DrawInv, SlotTypes, Starts
<1> QED
  BY <1>2, <1>3, <1>4, <1>5, <1>6, <1>7, <1>8, <1>9, <1>10, <1>11

LEMMA HotkeyKeepsFiles == ASSUME NoShort, Base, Files, Base', NEW what \in {"save", "load"}, Hotkey(what) PROVE Files'
<1>1. Starts("input", what, 0, "lock")
  BY HotkeyIs
<1> USE DEF Base, Types, Files, NoShort
<1>2. DiskInv'
  <2>1. \A g \in Games, s \in Slots : BeingSaved(g, s) => BeingSaved(g, s)'
    BY <1>1 DEF Hotkey, BeingSaved, Starts
  <2> QED
    BY <2>1 DEF Hotkey, DiskInv, Whole
<1>3. SaveInv'
  BY <1>1 DEF Hotkey, UserActs, SaveInv, Starts
<1>4. ValidInv'
  BY <1>1 DEF Hotkey, UserActs, ValidInv, SlotTypes, Starts
<1>5. TimeInv'
  BY DEF Hotkey, UserActs, TimeInv, Starts
<1>6. UnloadInv'
  BY <1>1 DEF Hotkey, UserActs, UnloadInv, IsLast, JobInv, BusyInv, SaveInv, TimeInv,
     SlotTypes, Starts
<1>7. LeftInv'
  BY <1>1 DEF Hotkey, UserActs, LeftInv, IsLast, HistoryTypes, Starts
<1> QED
  BY <1>2, <1>3, <1>4, <1>5, <1>6, <1>7

LEMMA UnloadGameIs ==
    ASSUME Base, NEW t \in Threads, UnloadGame(t)
    PROVE  Starts(t, "unload", 0, "lock")
BY Constants, StartIs DEF UnloadGame, Base, Types, Ats, Whats

LEMMA UnloadGameKeepsBase == ASSUME NoOverlap, Base, NEW t \in Threads, UnloadGame(t) PROVE Base'
<1>1. Starts(t, "unload", 0, "lock")
  BY UnloadGameIs
<1> USE DEF Base, Types, NoOverlap
<1>2. disk' \in [Games -> [Slots -> Card]]
  BY DEF UnloadGame, Puts
<1>3. job' \in [Threads -> Job]
  BY <1>1 DEF UnloadGame, Stays, Moves, Starts
<1>4. PlainTypes'
  BY DEF UnloadGame, UserActs, CanSet, PlainTypes, Starts
<1>5. SlotTypes'
  BY DEF UnloadGame, UserActs, CanSet, SlotTypes, Starts
<1>6. HistoryTypes'
  BY DEF UnloadGame, UserActs, CanSet, HistoryTypes, Starts
<1>7. JobInv'
  BY <1>1 DEF UnloadGame, UserActs, CanSet, JobInv, Starts
<1>8. LockInv'
  BY <1>1 DEF UnloadGame, UserActs, CanSet, LockInv, Starts
<1>9. StatusInv'
  BY Constants, <1>1 DEF UnloadGame, UserActs, CanSet, StatusInv, JobInv, Starts
<1>10. BusyInv'
  BY <1>1 DEF UnloadGame, UserActs, CanSet, BusyInv, SlotTypes, Starts
<1>11. DrawInv'
  BY <1>1 DEF UnloadGame, UserActs, CanSet, DrawInv, SlotTypes, Starts
<1> QED
  BY <1>2, <1>3, <1>4, <1>5, <1>6, <1>7, <1>8, <1>9, <1>10, <1>11

LEMMA UnloadGameKeepsFiles == ASSUME NoShort, Base, Files, Base', NEW t \in Threads, UnloadGame(t) PROVE Files'
<1>1. Starts(t, "unload", 0, "lock")
  BY UnloadGameIs
<1> USE DEF Base, Types, Files, NoShort
<1>2. DiskInv'
  BY <1>1 DEF UnloadGame, UserActs, CanSet, DiskInv, Whole, BeingSaved, Starts
<1>3. SaveInv'
  BY <1>1 DEF UnloadGame, UserActs, CanSet, SaveInv, Starts
<1>4. ValidInv'
  BY <1>1 DEF UnloadGame, UserActs, CanSet, ValidInv, SlotTypes, Starts
<1>5. TimeInv'
  BY DEF UnloadGame, UserActs, CanSet, TimeInv, Starts
<1>6. UnloadInv'
  BY <1>1 DEF UnloadGame, UserActs, CanSet, UnloadInv, Starts
<1>7. LeftInv'
  BY DEF UnloadGame, UserActs, CanSet, LeftInv, IsLast, JobInv, StatusInv, BusyInv,
     HistoryTypes, Starts
<1> QED
  BY <1>2, <1>3, <1>4, <1>5, <1>6, <1>7

LEMMA LockEmulatorIs ==
    ASSUME Base, NEW t \in Threads, LockEmulator(t)
    PROVE  Moves(t, CASE job[t].what = "load" -> "read"
                     [] job[t].what = "unload" /\ ~AutoSave -> "end"
                     [] OTHER -> "begin")
BY GotoIs DEF LockEmulator, Base, Types, Ats

LEMMA LockEmulatorKeepsBase == ASSUME NoOverlap, Base, NEW t \in Threads, LockEmulator(t) PROVE Base'
<1>1. Moves(t, CASE job[t].what = "load" -> "read"
                [] job[t].what = "unload" /\ ~AutoSave -> "end"
                [] OTHER -> "begin")
  BY LockEmulatorIs
<1> USE DEF Base, Types, NoOverlap
<1>2. disk' \in [Games -> [Slots -> Card]]
  BY DEF LockEmulator, Puts
<1>3. job' \in [Threads -> Job]
  BY <1>1 DEF LockEmulator, Stays, Moves, Starts
<1>4. PlainTypes'
  BY DEF LockEmulator, PlainTypes, Stays, Moves
<1>5. SlotTypes'
  BY DEF LockEmulator, SlotTypes, Stays, Moves
<1>6. HistoryTypes'
  BY DEF LockEmulator, HistoryTypes, Stays, Moves
<1>7. JobInv'
  BY <1>1 DEF LockEmulator, JobInv, Stays, Moves
<1>8. LockInv'
  BY <1>1 DEF LockEmulator, LockInv, Stays, Moves
<1>9. StatusInv'
  BY <1>1 DEF LockEmulator, StatusInv, Stays, Moves
<1>10. BusyInv'
  BY <1>1 DEF LockEmulator, BusyInv, SlotTypes, Stays, Moves
<1>11. DrawInv'
  BY <1>1 DEF LockEmulator, DrawInv, SlotTypes, Stays, Moves
<1> QED
  BY <1>2, <1>3, <1>4, <1>5, <1>6, <1>7, <1>8, <1>9, <1>10, <1>11

LEMMA LockEmulatorKeepsFiles == ASSUME NoShort, Base, Files, Base', NEW t \in Threads, LockEmulator(t) PROVE Files'
<1>1. Moves(t, CASE job[t].what = "load" -> "read"
                [] job[t].what = "unload" /\ ~AutoSave -> "end"
                [] OTHER -> "begin")
  BY LockEmulatorIs
<1> USE DEF Base, Types, Files, NoShort
<1>2. DiskInv'
  BY <1>1 DEF LockEmulator, DiskInv, Whole, BeingSaved, Stays, Moves
<1>3. SaveInv'
  BY <1>1 DEF LockEmulator, SaveInv, Stays, Moves
<1>4. ValidInv'
  BY <1>1 DEF LockEmulator, ValidInv, SlotTypes, Stays, Moves
<1>5. TimeInv'
  BY DEF LockEmulator, TimeInv, Stays, Moves
<1>6. UnloadInv'
  BY <1>1 DEF LockEmulator, UnloadInv, IsLast, Stays, Moves
<1>7. LeftInv'
  BY <1>1 DEF LockEmulator, LeftInv, IsLast, HistoryTypes, Stays, Moves
<1> QED
  BY <1>2, <1>3, <1>4, <1>5, <1>6, <1>7

LEMMA SaveEmptyIs ==
    ASSUME Base, NEW s \in Slots, SaveEmpty(s)
    PROVE  Starts("main", "popup", s, "begin")
BY StartIs DEF SaveEmpty, Base, Types, Ats, Whats

LEMMA SaveEmptyKeepsBase == ASSUME NoOverlap, Base, NEW s \in Slots, SaveEmpty(s) PROVE Base'
<1>1. Starts("main", "popup", s, "begin")
  BY SaveEmptyIs
<1> USE DEF Base, Types, NoOverlap
<1>2. disk' \in [Games -> [Slots -> Card]]
  BY DEF SaveEmpty, Puts
<1>3. job' \in [Threads -> Job]
  BY <1>1 DEF SaveEmpty, Stays, Moves, Starts
<1>4. PlainTypes'
  BY DEF SaveEmpty, InMenu, UserActs, PlainTypes, Starts
<1>5. SlotTypes'
  BY DEF SaveEmpty, InMenu, UserActs, SlotTypes, Starts
<1>6. HistoryTypes'
  BY DEF SaveEmpty, InMenu, UserActs, HistoryTypes, Starts
<1>7. JobInv'
  BY <1>1 DEF SaveEmpty, InMenu, UserActs, JobInv, Starts
<1>8. LockInv'
  BY <1>1 DEF SaveEmpty, InMenu, UserActs, LockInv, Starts
<1>9. StatusInv'
  BY Constants, <1>1 DEF SaveEmpty, InMenu, UserActs, StatusInv, Starts
<1>10. BusyInv'
  BY <1>1 DEF SaveEmpty, InMenu, UserActs, BusyInv, SlotTypes, Starts
<1>11. DrawInv'
  BY <1>1 DEF SaveEmpty, InMenu, UserActs, DrawInv, SlotTypes, Starts
<1> QED
  BY <1>2, <1>3, <1>4, <1>5, <1>6, <1>7, <1>8, <1>9, <1>10, <1>11

LEMMA SaveEmptyKeepsFiles == ASSUME NoShort, Base, Files, Base', NEW s \in Slots, SaveEmpty(s) PROVE Files'
<1>1. Starts("main", "popup", s, "begin")
  BY SaveEmptyIs
<1> USE DEF Base, Types, Files, NoShort
<1>2. DiskInv'
  BY <1>1 DEF SaveEmpty, InMenu, UserActs, DiskInv, Whole, BeingSaved, Starts
<1>3. SaveInv'
  BY <1>1 DEF SaveEmpty, InMenu, UserActs, SaveInv, Starts
<1>4. ValidInv'
  BY DEF SaveEmpty, InMenu, UserActs, ValidInv, SlotTypes, Starts
<1>5. TimeInv'
  BY DEF SaveEmpty, InMenu, UserActs, TimeInv, Starts
<1>6. UnloadInv'
  BY <1>1 DEF SaveEmpty, InMenu, UserActs, UnloadInv, IsLast, JobInv, BusyInv, SaveInv,
     TimeInv, SlotTypes, Starts
<1>7. LeftInv'
  BY DEF SaveEmpty, InMenu, UserActs, LeftInv, IsLast, JobInv, StatusInv, BusyInv,
     HistoryTypes, Starts
<1> QED
  BY <1>2, <1>3, <1>4, <1>5, <1>6, <1>7

LEMMA PopupIs ==
    ASSUME Base, NEW s \in Slots, Popup(s)
    PROVE  \/ s # 0 /\ Starts("main", "popup", s, "begin")
           \/ Starts("main", "resume", s, "read")
           \/ Starts("main", "popup", s, "unbin")
BY StartIs DEF Popup, Base, Types, Ats, Whats

LEMMA PopupKeepsBase == ASSUME NoOverlap, Base, NEW s \in Slots, Popup(s) PROVE Base'
<1>1. \/ s # 0 /\ Starts("main", "popup", s, "begin")
      \/ Starts("main", "resume", s, "read")
      \/ Starts("main", "popup", s, "unbin")
  BY PopupIs
<1> USE DEF Base, Types, NoOverlap
<1>2. disk' \in [Games -> [Slots -> Card]]
  BY DEF Popup, Puts
<1>3. job' \in [Threads -> Job]
  BY <1>1 DEF Popup, Stays, Moves, Starts
<1>4. PlainTypes'
  BY DEF Popup, InMenu, UserActs, PlainTypes, Starts
<1>5. SlotTypes'
  BY DEF Popup, InMenu, UserActs, SlotTypes, Starts
<1>6. HistoryTypes'
  BY DEF Popup, InMenu, UserActs, HistoryTypes, Starts
<1>7. JobInv'
  BY <1>1 DEF Popup, InMenu, UserActs, JobInv, Starts
<1>8. LockInv'
  BY <1>1 DEF Popup, InMenu, UserActs, LockInv, Starts
<1>9. StatusInv'
  BY Constants, <1>1 DEF Popup, InMenu, UserActs, StatusInv, Starts
<1>10. BusyInv'
  BY <1>1 DEF Popup, InMenu, UserActs, BusyInv, SlotTypes, Starts
<1>11. DrawInv'
  BY <1>1 DEF Popup, InMenu, UserActs, DrawInv, SlotTypes, Starts
<1> QED
  BY <1>2, <1>3, <1>4, <1>5, <1>6, <1>7, <1>8, <1>9, <1>10, <1>11

LEMMA PopupKeepsFiles == ASSUME NoShort, Base, Files, Base', NEW s \in Slots, Popup(s) PROVE Files'
<1>1. \/ s # 0 /\ Starts("main", "popup", s, "begin")
      \/ Starts("main", "resume", s, "read")
      \/ Starts("main", "popup", s, "unbin")
  BY PopupIs
<1> USE DEF Base, Types, Files, NoShort
<1>2. DiskInv'
  BY <1>1 DEF Popup, InMenu, UserActs, DiskInv, Whole, BeingSaved, Starts
<1>3. SaveInv'
  BY <1>1 DEF Popup, InMenu, UserActs, SaveInv, Starts
<1>4. ValidInv'
  BY DEF Popup, InMenu, UserActs, ValidInv, SlotTypes, Starts
<1>5. TimeInv'
  BY DEF Popup, InMenu, UserActs, TimeInv, Starts
<1>6. UnloadInv'
  BY <1>1 DEF Popup, InMenu, UserActs, UnloadInv, IsLast, JobInv, BusyInv, SaveInv,
     TimeInv, SlotTypes, Starts
<1>7. LeftInv'
  BY DEF Popup, InMenu, UserActs, LeftInv, IsLast, JobInv, StatusInv, BusyInv,
     HistoryTypes, Starts
<1> QED
  BY <1>2, <1>3, <1>4, <1>5, <1>6, <1>7

LEMMA ResumeKeepsBase == ASSUME NoOverlap, Base, Resume PROVE Base'
<1> USE DEF Base, Types, NoOverlap
<1>1. disk' \in [Games -> [Slots -> Card]]
  BY DEF Resume
<1>2. job' \in [Threads -> Job]
  BY DEF Resume, Stays, Moves, Starts
<1>3. PlainTypes'
  BY DEF Resume, UserActs, CanSet, PlainTypes
<1>4. SlotTypes'
  BY DEF Resume, UserActs, CanSet, SlotTypes
<1>5. HistoryTypes'
  BY DEF Resume, UserActs, CanSet, HistoryTypes
<1>6. JobInv'
  BY DEF Resume, UserActs, CanSet, JobInv
<1>7. LockInv'
  BY DEF Resume, UserActs, CanSet, LockInv
<1>8. StatusInv'
  BY DEF Resume, UserActs, CanSet, StatusInv, JobInv
<1>9. BusyInv'
  BY DEF Resume, UserActs, CanSet, BusyInv, SlotTypes
<1>10. DrawInv'
  BY DEF Resume, UserActs, CanSet, DrawInv, SlotTypes
<1> QED
  BY <1>1, <1>2, <1>3, <1>4, <1>5, <1>6, <1>7, <1>8, <1>9, <1>10

LEMMA ResumeKeepsFiles == ASSUME NoShort, Base, Files, Base', Resume PROVE Files'
<1> USE DEF Base, Types, Files, NoShort
<1>1. DiskInv'
  BY DEF Resume, UserActs, CanSet, DiskInv, Whole, BeingSaved
<1>2. SaveInv'
  BY DEF Resume, UserActs, CanSet, SaveInv
<1>3. ValidInv'
  BY DEF Resume, UserActs, CanSet, ValidInv, SlotTypes
<1>4. TimeInv'
  BY DEF Resume, UserActs, CanSet, TimeInv
<1>5. UnloadInv'
  BY DEF Resume, UserActs, CanSet, UnloadInv, IsLast, JobInv, BusyInv, SaveInv, TimeInv,
     SlotTypes
<1>6. LeftInv'
  BY DEF Resume, UserActs, CanSet, LeftInv, IsLast, HistoryTypes
<1> QED
  BY <1>1, <1>2, <1>3, <1>4, <1>5, <1>6

LEMMA NoticeKeepsBase == ASSUME NoOverlap, Base, Notice PROVE Base'
<1> USE DEF Base, Types, NoOverlap
<1>1. disk' \in [Games -> [Slots -> Card]]
  BY DEF Notice
<1>2. job' \in [Threads -> Job]
  BY DEF Notice, Stays, Moves, Starts
<1>3. PlainTypes'
  BY DEF Notice, PlainTypes
<1>4. SlotTypes'
  BY DEF Notice, SlotTypes
<1>5. HistoryTypes'
  BY DEF Notice, HistoryTypes
<1>6. JobInv'
  BY DEF Notice, JobInv
<1>7. LockInv'
  BY DEF Notice, LockInv
<1>8. StatusInv'
  BY DEF Notice, StatusInv
<1>9. BusyInv'
  BY DEF Notice, BusyInv, SlotTypes
<1>10. DrawInv'
  BY DEF Notice, DrawInv, SlotTypes
<1> QED
  BY <1>1, <1>2, <1>3, <1>4, <1>5, <1>6, <1>7, <1>8, <1>9, <1>10

LEMMA NoticeKeepsFiles == ASSUME NoShort, Base, Files, Base', Notice PROVE Files'
<1> USE DEF Base, Types, Files, NoShort
<1>1. DiskInv'
  BY DEF Notice, DiskInv, Whole, BeingSaved
<1>2. SaveInv'
  BY DEF Notice, SaveInv
<1>3. ValidInv'
  BY DEF Notice, ValidInv, SlotTypes
<1>4. TimeInv'
  BY DEF Notice, TimeInv
<1>5. UnloadInv'
  BY DEF Notice, UnloadInv, IsLast
<1>6. LeftInv'
  BY DEF Notice, LeftInv, IsLast, HistoryTypes
<1> QED
  BY <1>1, <1>2, <1>3, <1>4, <1>5, <1>6

LEMMA EndIs ==
    ASSUME Base, NEW t \in Threads, End(t)
    PROVE  Starts(t, "none", 0, "idle")
<1>1. Idle \in Job /\ Idle.at = "idle" /\ Idle.what = "none" /\ Idle.slot = 0
  BY Constants DEF Idle, Job, Ats, Whats
<1> QED
  BY <1>1 DEF End, Base, Types, Starts

LEMMA EndKeepsBase == ASSUME NoOverlap, Base, NEW t \in Threads, End(t) PROVE Base'
<1>1. Starts(t, "none", 0, "idle")
  BY EndIs
<1> USE DEF Base, Types, NoOverlap
<1>2. disk' \in [Games -> [Slots -> Card]]
  BY DEF End, Puts
<1>3. job' \in [Threads -> Job]
  BY <1>1 DEF End, Stays, Moves, Starts
<1>4. PlainTypes'
  BY DEF End, CanSet, Release, PlainTypes, Starts
<1>5. SlotTypes'
  BY DEF End, CanSet, Release, SlotTypes, Starts
<1>6. HistoryTypes'
  BY DEF End, CanSet, Release, HistoryTypes, PlainTypes, Starts
<1>7. JobInv'
  BY DEF End, CanSet, Release, JobInv, Starts
<1>8. LockInv'
  BY DEF End, CanSet, Release, LockInv, Starts
<1>9. StatusInv'
  BY DEF End, CanSet, Release, StatusInv, JobInv, Starts
<1>10. BusyInv'
  BY DEF End, CanSet, Release, BusyInv, JobInv, StatusInv, SlotTypes, Starts
<1>11. DrawInv'
  BY DEF End, CanSet, Release, DrawInv, SlotTypes, Starts
<1> QED
  BY <1>2, <1>3, <1>4, <1>5, <1>6, <1>7, <1>8, <1>9, <1>10, <1>11

LEMMA EndKeepsFiles == ASSUME NoShort, Base, Files, Base', NEW t \in Threads, End(t) PROVE Files'
<1>1. Starts(t, "none", 0, "idle")
  BY EndIs
<1> USE DEF Base, Types, Files, NoShort
<1>2. DiskInv'
  BY DEF End, CanSet, Release, DiskInv, Whole, BeingSaved, Starts
<1>3. SaveInv'
  <2>1. ASSUME NEW u \in Threads, job'[u].at \in Saving \cup {"unimg"}
        PROVE  job'[u] = job[u] /\ UNCHANGED <<game, core, disk, tex>>
    <3>1. u # t /\ job'[u] = job[u]
      BY <1>1, <2>1 DEF Starts, Saving
    <3>2. job[t].what # "unload"
      BY <2>1, <3>1 DEF JobInv, StatusInv, Saving, Steps
    <3> QED
      BY <3>1, <3>2 DEF End
  <2> QED
    BY <2>1 DEF SaveInv, Saving
<1>4. ValidInv'
  BY DEF End, CanSet, Release, ValidInv, SlotTypes, Starts
<1>5. TimeInv'
  BY DEF End, CanSet, Release, TimeInv, Starts
<1>6. UnloadInv'
  BY DEF End, CanSet, Release, UnloadInv, JobInv, Starts
<1>7. LeftInv'
  <2>1. \A u \in Threads : u # t => job'[u] = job[u]
    BY <1>1 DEF Starts
  <2>2. CASE job[t].what = "unload"
    <3>1. job["main"].at \notin {"boot", "newest"} /\ job[t].at = "end"
      BY DEF End, JobInv
    <3>2. job'["main"].at \notin {"boot", "newest"}
      BY <1>1, <2>1, <3>1 DEF Starts
    <3>3. game \in Games /\ game' = None /\ disk' = disk
      BY <2>2 DEF End, StatusInv
    <3>4. \A g \in Games : left'[g] # None => left'[g] = left[g] \/ (g = game /\ AutoSave /\ valid[0] /\ left'[g] = core)
      BY DEF End, HistoryTypes
    <3>5. AutoSave /\ valid[0] => IsLast(game, core)
      BY <2>2, <3>1 DEF UnloadInv
    <3> QED
      BY Constants, <3>2, <3>3, <3>4, <3>5 DEF LeftInv, IsLast
  <2>3. CASE job[t].what # "unload"
    <3>1. UNCHANGED <<game, left, disk, valid>> /\ job[t].at = "end"
      BY <2>3 DEF End, slots, cards
    <3>2. \A g \in Games : game = g /\ job["main"].what = "boot" => job'["main"].what = "boot"
      BY Constants, <2>1, <3>1 DEF StatusInv, JobInv
    <3>3. job'["main"].at \in {"boot", "newest"} => job["main"].at = job'["main"].at
      BY <1>1, <2>1 DEF Starts
    <3> QED
      BY <3>1, <3>2, <3>3 DEF LeftInv, IsLast
  <2> QED
    BY <2>2, <2>3
<1> QED
  BY <1>2, <1>3, <1>4, <1>5, <1>6, <1>7

LEMMA BeginSaveIs ==
    ASSUME Base, NEW t \in Threads, BeginSave(t)
    PROVE  /\ Stays(t) /\ job'[t].at = "serialize" /\ job'[t].game = game
           /\ job'[t].bin = job[t].bin /\ job'[t].over = job[t].over
<1>1. GotoGame(t, "serialize", game)
  BY DEF BeginSave, GotoGame
<1> QED
  BY <1>1, GotoGameIs DEF Base, Types, PlainTypes, Ats

LEMMA BeginSaveKeepsBase == ASSUME NoOverlap, Base, NEW t \in Threads, BeginSave(t) PROVE Base'
<1>1. /\ Stays(t) /\ job'[t].at = "serialize" /\ job'[t].game = game
      /\ job'[t].bin = job[t].bin /\ job'[t].over = job[t].over
  BY BeginSaveIs
<1>2. /\ game \in Games /\ core \in Frame /\ screen = core
      /\ job[t].what \in {"menu", "save", "unload", "popup"} /\ job[t].slot \in Slots
      /\ job[t].at \in Saving => job[t].game = game
      /\ \A u \in Threads : u # t => job[u].at \in {"idle", "frame"}
  BY Saver DEF BeginSave
<1> USE DEF Base, Types, NoOverlap
<1>3. disk' \in [Games -> [Slots -> Card]]
  BY DEF BeginSave, Puts
<1>4. job' \in [Threads -> Job]
  BY <1>1, <1>2 DEF BeginSave, Stays, Moves, Starts
<1>5. PlainTypes'
  BY <1>2 DEF BeginSave, PlainTypes, Stays, Moves
<1>6. SlotTypes'
  BY <1>2 DEF BeginSave, SlotTypes, Stays, Moves
<1>7. HistoryTypes'
  BY <1>2 DEF BeginSave, HistoryTypes, Stays, Moves
<1>8. JobInv'
  BY DEF BeginSave, JobInv, Stays, Moves
<1>9. LockInv'
  BY DEF BeginSave, LockInv, Stays, Moves
<1>10. StatusInv'
  BY DEF BeginSave, StatusInv, Stays, Moves
<1>11. BusyInv'
  BY <1>2 DEF BeginSave, BusyInv, SlotTypes, Stays, Moves
<1>12. DrawInv'
  BY DEF BeginSave, DrawInv, SlotTypes, Stays, Moves
<1> QED
  BY <1>3, <1>4, <1>5, <1>6, <1>7, <1>8, <1>9, <1>10, <1>11, <1>12

LEMMA BeginSaveKeepsFiles == ASSUME NoShort, Base, Files, Base', NEW t \in Threads, BeginSave(t) PROVE Files'
<1>1. /\ Stays(t) /\ job'[t].at = "serialize" /\ job'[t].game = game
      /\ job'[t].bin = job[t].bin /\ job'[t].over = job[t].over
  BY BeginSaveIs
<1>2. /\ game \in Games /\ core \in Frame /\ screen = core
      /\ job[t].what \in {"menu", "save", "unload", "popup"} /\ job[t].slot \in Slots
      /\ job[t].at \in Saving => job[t].game = game
      /\ \A u \in Threads : u # t => job[u].at \in {"idle", "frame"}
  BY Saver DEF BeginSave
<1> USE DEF Base, Types, Files, NoShort
<1>3. DiskInv'
  BY DEF BeginSave, DiskInv, Whole, BeingSaved, Stays, Moves
<1>4. SaveInv'
  <2>1. \A u \in Threads : job'[u].at \notin {"open", "write", "shot", "jpeg", "free", "texture", "done", "unimg"}
    BY <1>1, <1>2 DEF Stays
  <2> QED
    BY <2>1 DEF SaveInv
<1>5. ValidInv'
  BY DEF BeginSave, ValidInv, SlotTypes, Stays, Moves
<1>6. TimeInv'
  BY <1>2 DEF BeginSave, TimeInv, Stays, Moves
<1>7. UnloadInv'
  BY <1>2 DEF BeginSave, UnloadInv, Stays, Moves
<1>8. LeftInv'
  BY <1>2 DEF BeginSave, LeftInv, IsLast, HistoryTypes, Stays, Moves
<1> QED
  BY <1>3, <1>4, <1>5, <1>6, <1>7, <1>8

LEMMA SerializeIs ==
    ASSUME NoOverlap, Base, NEW t \in Threads, Serialize(t)
    PROVE  /\ Stays(t) /\ job'[t].game = job[t].game /\ job'[t].over = job[t].over
           /\ job["main"].at # "frame"
           /\ \/ job'[t].at = "open" /\ job'[t].bin = core /\ core # None
              \/ job'[t].at = "end"
<1>1. job["main"].at # "frame"
  BY DEF Serialize, NoOverlap
<1>2. \/ core # None /\ GotoBin(t, "open", core)
      \/ Goto(t, "end")
  BY <1>1 DEF Serialize, Fails, GotoBin
<1>3. CASE core # None /\ GotoBin(t, "open", core)
  BY <1>1, <1>3, GotoBinIs DEF Base, Types, PlainTypes, Ats
<1>4. CASE Goto(t, "end")
  BY <1>1, <1>4, GotoIs DEF Base, Types, Ats, Moves
<1> QED
  BY <1>2, <1>3, <1>4

LEMMA SerializeKeepsBase == ASSUME NoOverlap, Base, NEW t \in Threads, Serialize(t) PROVE Base'
<1>1. /\ Stays(t) /\ job'[t].game = job[t].game /\ job'[t].over = job[t].over
      /\ job["main"].at # "frame"
      /\ \/ job'[t].at = "open" /\ job'[t].bin = core /\ core # None
         \/ job'[t].at = "end"
  BY SerializeIs
<1>2. /\ game \in Games /\ core \in Frame /\ screen = core
      /\ job[t].what \in {"menu", "save", "unload", "popup"} /\ job[t].slot \in Slots
      /\ job[t].at \in Saving => job[t].game = game
      /\ \A u \in Threads : u # t => job[u].at \in {"idle", "frame"}
  BY Saver DEF Serialize
<1> USE DEF Base, Types, NoOverlap
<1>3. disk' \in [Games -> [Slots -> Card]]
  BY DEF Serialize, Puts
<1>4. job' \in [Threads -> Job]
  BY <1>1, <1>2 DEF Serialize, Stays, Moves, Starts
<1>5. PlainTypes'
  BY <1>2 DEF Serialize, Fails, PlainTypes, Stays, Moves
<1>6. SlotTypes'
  BY <1>2 DEF Serialize, Fails, SlotTypes, Stays, Moves
<1>7. HistoryTypes'
  BY <1>2 DEF Serialize, Fails, HistoryTypes, Stays, Moves
<1>8. JobInv'
  BY <1>1, <1>2 DEF Serialize, Fails, JobInv, Stays, Moves
<1>9. LockInv'
  BY <1>1, <1>2 DEF Serialize, Fails, LockInv, Stays, Moves
<1>10. StatusInv'
  BY <1>1, <1>2 DEF Serialize, Fails, StatusInv, Stays, Moves
<1>11. BusyInv'
  BY <1>1, <1>2 DEF Serialize, Fails, BusyInv, SlotTypes, Stays, Moves
<1>12. DrawInv'
  BY <1>1, <1>2 DEF Serialize, Fails, DrawInv, SlotTypes, Stays, Moves
<1> QED
  BY <1>3, <1>4, <1>5, <1>6, <1>7, <1>8, <1>9, <1>10, <1>11, <1>12

LEMMA SerializeKeepsFiles == ASSUME NoShort, Base, Files, Base', NEW t \in Threads, Serialize(t) PROVE Files'
<1>1. /\ Stays(t) /\ job'[t].game = job[t].game /\ job'[t].over = job[t].over
      /\ job["main"].at # "frame"
      /\ \/ job'[t].at = "open" /\ job'[t].bin = core /\ core # None
         \/ job'[t].at = "end"
  BY SerializeIs DEF NoOverlap, NoShort
<1>2. /\ game \in Games /\ core \in Frame /\ screen = core
      /\ job[t].what \in {"menu", "save", "unload", "popup"} /\ job[t].slot \in Slots
      /\ job[t].at \in Saving => job[t].game = game
      /\ \A u \in Threads : u # t => job[u].at \in {"idle", "frame"}
  BY Saver DEF Serialize
<1> USE DEF Base, Types, Files, NoShort
<1>3. DiskInv'
  BY <1>2 DEF Serialize, Fails, DiskInv, Whole, BeingSaved, Stays, Moves
<1>4. SaveInv'
  BY <1>1, <1>2 DEF Serialize, Fails, SaveInv, Stays, Moves
<1>5. ValidInv'
  BY <1>2 DEF Serialize, Fails, ValidInv, SlotTypes, Stays, Moves
<1>6. TimeInv'
  BY <1>2 DEF Serialize, Fails, TimeInv, Stays, Moves
<1>7. UnloadInv'
  BY <1>1, <1>2 DEF Serialize, Fails, UnloadInv, JobInv, BusyInv, Stays, Moves
<1>8. LeftInv'
  BY <1>1, <1>2 DEF Serialize, Fails, LeftInv, IsLast, HistoryTypes, Stays, Moves
<1> QED
  BY <1>3, <1>4, <1>5, <1>6, <1>7, <1>8

LEMMA OpenIs ==
    ASSUME Base, NEW t \in Threads, Open(t)
    PROVE  \/ /\ Stays(t) /\ job'[t].at = "write" /\ job'[t].game = job[t].game /\ job'[t].bin = job[t].bin
              /\ job'[t].over = (disk[game][job[t].slot].img # None)
              /\ Puts(game, job[t].slot) /\ disk'[game][job[t].slot].bin = Torn
              /\ disk'[game][job[t].slot].img = disk[game][job[t].slot].img
              /\ disk'[game][job[t].slot].time = disk[game][job[t].slot].time
           \/ Moves(t, "end") /\ UNCHANGED disk
<1>1. game \in Games /\ job[t].slot \in Slots /\ job[t].game = game
  BY Saver DEF Open
<1>2. \/ Goto(t, "end") /\ UNCHANGED disk
      \/ /\ PutBin(game, job[t].slot, Torn)
         /\ GotoOver(t, "write", disk[game][job[t].slot].img # None)
  BY <1>1 DEF Open, Put, File, Fails, GotoOver, PutBin
<1>3. CASE Goto(t, "end") /\ UNCHANGED disk
  BY <1>3, GotoIs DEF Base, Types, Ats
<1>4. CASE /\ PutBin(game, job[t].slot, Torn)
           /\ GotoOver(t, "write", disk[game][job[t].slot].img # None)
  <2>1. /\ Stays(t) /\ job'[t].at = "write" /\ job'[t].game = job[t].game /\ job'[t].bin = job[t].bin
          /\ job'[t].over = (disk[game][job[t].slot].img # None)
    BY <1>4, GotoOverIs DEF Base, Types, Ats
  <2>2. /\ Puts(game, job[t].slot) /\ disk'[game][job[t].slot].bin = Torn
          /\ disk'[game][job[t].slot].img = disk[game][job[t].slot].img
          /\ disk'[game][job[t].slot].time = disk[game][job[t].slot].time
    BY <1>1, <1>4, PutBinIs DEF Base, Types
  <2> QED
    BY <2>1, <2>2
<1> QED
  BY <1>2, <1>3, <1>4

LEMMA OpenKeepsBase == ASSUME NoOverlap, Base, NEW t \in Threads, Open(t) PROVE Base'
<1>1. \/ /\ Stays(t) /\ job'[t].at = "write" /\ job'[t].game = job[t].game /\ job'[t].bin = job[t].bin
         /\ job'[t].over = (disk[game][job[t].slot].img # None)
         /\ Puts(game, job[t].slot) /\ disk'[game][job[t].slot].bin = Torn
         /\ disk'[game][job[t].slot].img = disk[game][job[t].slot].img
         /\ disk'[game][job[t].slot].time = disk[game][job[t].slot].time
      \/ Moves(t, "end") /\ UNCHANGED disk
  BY OpenIs
<1>2. /\ game \in Games /\ core \in Frame /\ screen = core
      /\ job[t].what \in {"menu", "save", "unload", "popup"} /\ job[t].slot \in Slots
      /\ job[t].at \in Saving => job[t].game = game
      /\ \A u \in Threads : u # t => job[u].at \in {"idle", "frame"}
  BY Saver DEF Open
<1>3. job[t].at = "open" /\ UNCHANGED <<status, tab, game, core, screen, valid, tex, clock, elock, vlock, draw, shown, left, hit>>
  BY DEF Open
<1> USE DEF Base, Types, NoOverlap
<1>4. disk' \in [Games -> [Slots -> Card]]
  BY <1>1, <1>2, <1>3 DEF Puts
<1>5. job' \in [Threads -> Job]
  BY <1>1, <1>2, <1>3 DEF Stays, Moves, Starts
<1>6. PlainTypes'
  BY <1>2, <1>3 DEF PlainTypes, Stays, Moves
<1>7. SlotTypes'
  BY <1>2, <1>3 DEF SlotTypes, Stays, Moves
<1>8. HistoryTypes'
  BY <1>2, <1>3 DEF HistoryTypes, Stays, Moves
<1>9. JobInv'
  BY <1>1, <1>2, <1>3 DEF JobInv, Stays, Moves
<1>10. LockInv'
  BY <1>1, <1>2, <1>3 DEF LockInv, Stays, Moves
<1>11. StatusInv'
  BY <1>1, <1>2, <1>3 DEF StatusInv, Stays, Moves
<1>12. BusyInv'
  BY <1>1, <1>2, <1>3 DEF BusyInv, SlotTypes, Stays, Moves
<1>13. DrawInv'
  BY <1>1, <1>2, <1>3 DEF DrawInv, SlotTypes, Stays, Moves
<1> QED
  BY <1>4, <1>5, <1>6, <1>7, <1>8, <1>9, <1>10, <1>11, <1>12, <1>13

LEMMA OpenKeepsFiles == ASSUME NoShort, Base, Files, Base', NEW t \in Threads, Open(t) PROVE Files'
<1>1. \/ /\ Stays(t) /\ job'[t].at = "write" /\ job'[t].game = job[t].game /\ job'[t].bin = job[t].bin
         /\ job'[t].over = (disk[game][job[t].slot].img # None)
         /\ Puts(game, job[t].slot) /\ disk'[game][job[t].slot].bin = Torn
         /\ disk'[game][job[t].slot].img = disk[game][job[t].slot].img
         /\ disk'[game][job[t].slot].time = disk[game][job[t].slot].time
      \/ Moves(t, "end") /\ UNCHANGED disk
  BY OpenIs
<1>2. /\ game \in Games /\ core \in Frame /\ screen = core
      /\ job[t].what \in {"menu", "save", "unload", "popup"} /\ job[t].slot \in Slots
      /\ job[t].at \in Saving => job[t].game = game
      /\ \A u \in Threads : u # t => job[u].at \in {"idle", "frame"}
  BY Saver DEF Open
<1>3. job[t].at = "open" /\ UNCHANGED <<status, tab, game, core, screen, valid, tex, clock, elock, vlock, draw, shown, left, hit>>
  BY DEF Open
<1> USE DEF Base, Types, Files, NoShort
<1>4. DiskInv'
  <2> SUFFICES ASSUME NEW g \in Games, NEW s \in Slots
               PROVE  s \in hit[g] \/ BeingSaved(g, s)' \/ Whole(disk'[g][s])
    BY <1>3 DEF DiskInv, Whole
  <2>1. s \in hit[g] \/ Whole(disk[g][s])
    BY <1>2, <1>3 DEF DiskInv, BeingSaved
  <2>2. CASE Moves(t, "end") /\ UNCHANGED disk
    BY <2>1, <2>2
  <2>3. CASE g # game \/ s # job[t].slot
    BY <1>1, <2>1, <2>3 DEF Puts
  <2>4. CASE g = game /\ s = job[t].slot /\ ~(Moves(t, "end") /\ UNCHANGED disk)
    BY <1>1, <1>2, <1>3, <2>4 DEF BeingSaved, Stays
  <2> QED
    BY <2>2, <2>3, <2>4
<1>5. SaveInv'
  <2>1. \A u \in Threads : u # t => job'[u].at \in {"idle", "frame"}
    BY <1>1, <1>2 DEF Moves, Stays
  <2>2. CASE Moves(t, "end") /\ UNCHANGED disk
    BY <2>1, <2>2 DEF SaveInv, Moves
  <2>3. CASE ~(Moves(t, "end") /\ UNCHANGED disk)
    <3>1. /\ job'[t].at = "write" /\ job'[t].slot = job[t].slot /\ job'[t].bin = job[t].bin
            /\ job'[t].over = (disk[game][job[t].slot].img # None)
            /\ disk'[game][job[t].slot].img = disk[game][job[t].slot].img
      BY <1>1, <2>3 DEF Stays
    <3>2. job[t].bin = core
      BY <1>3 DEF SaveInv
    <3> QED
      BY <1>3, <2>1, <3>1, <3>2 DEF SaveInv
  <2> QED
    BY <2>2, <2>3
<1>6. ValidInv'
  BY Constants, <1>1, <1>2, <1>3 DEF ValidInv, SlotTypes, Stays, Moves, Puts
<1>7. TimeInv'
  BY <1>1, <1>2, <1>3 DEF TimeInv, Stays, Moves, Puts
<1>8. UnloadInv'
  BY <1>1, <1>2, <1>3 DEF UnloadInv, JobInv, BusyInv, Stays, Moves, Puts
<1>9. LeftInv'
  BY <1>1, <1>2, <1>3 DEF LeftInv, IsLast, JobInv, HistoryTypes, Stays, Moves, Puts
<1> QED
  BY <1>4, <1>5, <1>6, <1>7, <1>8, <1>9

LEMMA WriteIs ==
    ASSUME Base, NEW t \in Threads, Write(t)
    PROVE  /\ Stays(t) /\ job'[t].at = "shot" /\ job'[t].game = job[t].game /\ job'[t].over = job[t].over
           /\ Puts(game, job[t].slot) /\ disk'[game][job[t].slot].img = disk[game][job[t].slot].img
           /\ disk'[game][job[t].slot].time = clock
           /\ disk'[game][job[t].slot].bin \in {job[t].bin, Torn}
           /\ "short" \notin Faults => disk'[game][job[t].slot].bin = job[t].bin
<1>1. game \in Games /\ job[t].slot \in Slots /\ job[t].game = game
  BY Saver DEF Write
<1>2. GotoBin(t, "shot", None)
  BY DEF Write, GotoBin
<1>3. /\ Stays(t) /\ job'[t].at = "shot" /\ job'[t].game = job[t].game /\ job'[t].over = job[t].over
  BY <1>2, GotoBinIs DEF Base, Types, Ats
<1>4. PICK bin : /\ bin = job[t].bin \/ ("short" \in Faults /\ bin = Torn)
                /\ PutBinTime(game, job[t].slot, bin, clock)
  BY <1>1 DEF Write, PutBinTime
<1>5. job[t].bin \in Frame \cup {None} /\ clock \in 0 .. MaxClock
  BY DEF Base, Types, PlainTypes, Job
<1>6. bin \in Frame \cup {None, Torn} /\ disk \in [Games -> [Slots -> Card]]
  BY <1>4, <1>5 DEF Base, Types
<1>7. /\ Puts(game, job[t].slot) /\ disk'[game][job[t].slot].bin = bin
      /\ disk'[game][job[t].slot].img = disk[game][job[t].slot].img
      /\ disk'[game][job[t].slot].time = clock
  <2> DEFINE s == job[t].slot
  <2>1. disk \in [Games -> [Slots -> Card]]
    BY <1>6
  <2>2. /\ game \in Games /\ s \in Slots
        /\ bin \in Frame \cup {None, Torn} /\ clock \in 0 .. MaxClock
    BY <1>1, <1>5, <1>6
  <2>3. PutBinTime(game, s, bin, clock)
    BY <1>4
  <2> HIDE DEF s
  <2>4. /\ Puts(game, s) /\ disk'[game][s].bin = bin
        /\ disk'[game][s].img = disk[game][s].img /\ disk'[game][s].time = clock
    BY <2>1, <2>2, <2>3, PutBinTimeIs
  <2> QED
    BY <2>4 DEF s
<1> QED
  BY <1>3, <1>4, <1>7

LEMMA WriteKeepsBase == ASSUME NoOverlap, Base, NEW t \in Threads, Write(t) PROVE Base'
<1>1. /\ Stays(t) /\ job'[t].at = "shot" /\ job'[t].game = job[t].game /\ job'[t].over = job[t].over
      /\ Puts(game, job[t].slot) /\ disk'[game][job[t].slot].img = disk[game][job[t].slot].img
      /\ disk'[game][job[t].slot].time = clock
      /\ disk'[game][job[t].slot].bin \in {job[t].bin, Torn}
      /\ "short" \notin Faults => disk'[game][job[t].slot].bin = job[t].bin
  BY WriteIs
<1>2. /\ game \in Games /\ core \in Frame /\ screen = core
      /\ job[t].what \in {"menu", "save", "unload", "popup"} /\ job[t].slot \in Slots
      /\ job[t].at \in Saving => job[t].game = game
      /\ \A u \in Threads : u # t => job[u].at \in {"idle", "frame"}
  BY Saver DEF Write
<1>3. job[t].at = "write" /\ UNCHANGED <<status, tab, game, core, screen, valid, tex, clock, elock, vlock, draw, shown, left, hit>>
  BY DEF Write
<1> USE DEF Base, Types, NoOverlap
<1>4. disk' \in [Games -> [Slots -> Card]]
  BY <1>1, <1>2, <1>3 DEF Puts
<1>5. job' \in [Threads -> Job]
  BY <1>1, <1>2, <1>3 DEF Stays, Moves, Starts
<1>6. PlainTypes'
  BY <1>2, <1>3 DEF PlainTypes, Stays, Moves
<1>7. SlotTypes'
  BY <1>2, <1>3 DEF SlotTypes, Stays, Moves
<1>8. HistoryTypes'
  BY <1>2, <1>3 DEF HistoryTypes, Stays, Moves
<1>9. JobInv'
  BY <1>1, <1>2, <1>3 DEF JobInv, Stays, Moves
<1>10. LockInv'
  BY <1>1, <1>2, <1>3 DEF LockInv, Stays, Moves
<1>11. StatusInv'
  BY <1>1, <1>2, <1>3 DEF StatusInv, Stays, Moves
<1>12. BusyInv'
  BY <1>1, <1>2, <1>3 DEF BusyInv, SlotTypes, Stays, Moves
<1>13. DrawInv'
  BY <1>1, <1>2, <1>3 DEF DrawInv, SlotTypes, Stays, Moves
<1> QED
  BY <1>4, <1>5, <1>6, <1>7, <1>8, <1>9, <1>10, <1>11, <1>12, <1>13

LEMMA WriteKeepsFiles == ASSUME NoShort, Base, Files, Base', NEW t \in Threads, Write(t) PROVE Files'
<1>1. /\ Stays(t) /\ job'[t].at = "shot" /\ job'[t].game = job[t].game /\ job'[t].over = job[t].over
      /\ Puts(game, job[t].slot) /\ disk'[game][job[t].slot].img = disk[game][job[t].slot].img
      /\ disk'[game][job[t].slot].time = clock
      /\ disk'[game][job[t].slot].bin \in {job[t].bin, Torn}
      /\ "short" \notin Faults => disk'[game][job[t].slot].bin = job[t].bin
  BY WriteIs
<1>2. /\ game \in Games /\ core \in Frame /\ screen = core
      /\ job[t].what \in {"menu", "save", "unload", "popup"} /\ job[t].slot \in Slots
      /\ job[t].at \in Saving => job[t].game = game
      /\ \A u \in Threads : u # t => job[u].at \in {"idle", "frame"}
  BY Saver DEF Write
<1>3. job[t].at = "write" /\ UNCHANGED <<status, tab, game, core, screen, valid, tex, clock, elock, vlock, draw, shown, left, hit>>
  BY DEF Write
<1> USE DEF Base, Types, Files, NoShort
<1>4. \A g \in Games, s \in Slots : disk[g][s].time \in Nat /\ clock \in Nat
  BY CardIs DEF Base, Types, PlainTypes
<1>5. DiskInv'
  BY <1>1, <1>2, <1>3, <1>4 DEF DiskInv, Whole, BeingSaved, Stays, Moves, Puts
<1>6. SaveInv'
  BY <1>1, <1>2, <1>3, <1>4 DEF SaveInv, Stays, Moves, Puts
<1>7. ValidInv'
  BY <1>1, <1>2, <1>3, <1>4 DEF ValidInv, BusyInv, SlotTypes, Stays, Moves, Puts
<1>8. TimeInv'
  BY <1>1, <1>2, <1>3, <1>4 DEF TimeInv, Stays, Moves, Puts
<1>9. UnloadInv'
  <2>1. ASSUME job[t].what = "unload"
        PROVE  /\ disk'[game][0].bin = core
               /\ \A s \in Slots : disk'[game][s].time <= disk'[game][0].time
    <3>1. job[t].slot = 0 /\ job[t].bin = core
      BY <1>3, <2>1 DEF JobInv, SaveInv
    <3>2. \A s \in Slots : s # 0 => disk'[game][s] = disk[game][s]
      BY <1>1, <1>2, <3>1 DEF Puts
    <3> QED
      BY <1>1, <1>2, <1>4, <3>1, <3>2 DEF TimeInv
  <2> QED
    BY <1>1, <1>2, <1>3, <2>1 DEF UnloadInv, Stays
<1>10. LeftInv'
  BY Constants, <1>1, <1>2, <1>3, <1>4 DEF LeftInv, IsLast, JobInv, Stays, Moves, Puts
<1> QED
  BY <1>5, <1>6, <1>7, <1>8, <1>9, <1>10

LEMMA ShotIs ==
    ASSUME Base, NEW t \in Threads, Shot(t)
    PROVE  /\ Puts(game, job[t].slot) /\ disk'[game][job[t].slot].time = disk[game][job[t].slot].time
           /\ \/ Moves(t, "jpeg") /\ disk'[game][job[t].slot].img = Torn /\ disk'[game][job[t].slot].bin = disk[game][job[t].slot].bin
              \/ Moves(t, "end") /\ disk'[game][job[t].slot].bin = None /\ disk'[game][job[t].slot].img = disk[game][job[t].slot].img
<1>1. game \in Games /\ job[t].slot \in Slots /\ job[t].game = game
  BY Saver DEF Shot
<1>2. \/ Goto(t, "jpeg") /\ PutImg(game, job[t].slot, Torn)
      \/ Goto(t, "end") /\ PutBin(game, job[t].slot, None)
  BY <1>1 DEF Shot, Put, Fails, PutBin, PutImg
<1>3. CASE Goto(t, "jpeg") /\ PutImg(game, job[t].slot, Torn)
  BY <1>1, <1>3, GotoIs, PutImgIs DEF Base, Types, Ats
<1>4. CASE Goto(t, "end") /\ PutBin(game, job[t].slot, None)
  BY <1>1, <1>4, GotoIs, PutBinIs DEF Base, Types, Ats
<1> QED
  BY <1>2, <1>3, <1>4

LEMMA ShotKeepsBase == ASSUME NoOverlap, Base, NEW t \in Threads, Shot(t) PROVE Base'
<1>1. /\ Puts(game, job[t].slot) /\ disk'[game][job[t].slot].time = disk[game][job[t].slot].time
      /\ \/ Moves(t, "jpeg") /\ disk'[game][job[t].slot].img = Torn /\ disk'[game][job[t].slot].bin = disk[game][job[t].slot].bin
         \/ Moves(t, "end") /\ disk'[game][job[t].slot].bin = None /\ disk'[game][job[t].slot].img = disk[game][job[t].slot].img
  BY ShotIs
<1>2. /\ game \in Games /\ core \in Frame /\ screen = core
      /\ job[t].what \in {"menu", "save", "unload", "popup"} /\ job[t].slot \in Slots
      /\ job[t].at \in Saving => job[t].game = game
      /\ \A u \in Threads : u # t => job[u].at \in {"idle", "frame"}
  BY Saver DEF Shot
<1>3. job[t].at = "shot" /\ UNCHANGED <<status, tab, game, core, screen, valid, tex, clock, elock, vlock, draw, shown, left, hit>>
  BY DEF Shot
<1> USE DEF Base, Types, NoOverlap
<1>4. disk' \in [Games -> [Slots -> Card]]
  BY <1>1, <1>2, <1>3 DEF Puts
<1>5. job' \in [Threads -> Job]
  BY <1>1, <1>2, <1>3 DEF Stays, Moves, Starts
<1>6. PlainTypes'
  BY <1>2, <1>3 DEF PlainTypes, Stays, Moves
<1>7. SlotTypes'
  BY <1>2, <1>3 DEF SlotTypes, Stays, Moves
<1>8. HistoryTypes'
  BY <1>2, <1>3 DEF HistoryTypes, Stays, Moves
<1>9. JobInv'
  BY <1>1, <1>2, <1>3 DEF JobInv, Stays, Moves
<1>10. LockInv'
  BY <1>1, <1>2, <1>3 DEF LockInv, Stays, Moves
<1>11. StatusInv'
  BY <1>1, <1>2, <1>3 DEF StatusInv, Stays, Moves
<1>12. BusyInv'
  BY <1>1, <1>2, <1>3 DEF BusyInv, SlotTypes, Stays, Moves
<1>13. DrawInv'
  BY <1>1, <1>2, <1>3 DEF DrawInv, SlotTypes, Stays, Moves
<1> QED
  BY <1>4, <1>5, <1>6, <1>7, <1>8, <1>9, <1>10, <1>11, <1>12, <1>13

LEMMA ShotKeepsFiles == ASSUME NoShort, Base, Files, Base', NEW t \in Threads, Shot(t) PROVE Files'
<1>1. /\ Puts(game, job[t].slot) /\ disk'[game][job[t].slot].time = disk[game][job[t].slot].time
      /\ \/ Moves(t, "jpeg") /\ disk'[game][job[t].slot].img = Torn /\ disk'[game][job[t].slot].bin = disk[game][job[t].slot].bin
         \/ Moves(t, "end") /\ disk'[game][job[t].slot].bin = None /\ disk'[game][job[t].slot].img = disk[game][job[t].slot].img
  BY ShotIs
<1>2. /\ game \in Games /\ core \in Frame /\ screen = core
      /\ job[t].what \in {"menu", "save", "unload", "popup"} /\ job[t].slot \in Slots
      /\ job[t].at \in Saving => job[t].game = game
      /\ \A u \in Threads : u # t => job[u].at \in {"idle", "frame"}
  BY Saver DEF Shot
<1>3. job[t].at = "shot" /\ UNCHANGED <<status, tab, game, core, screen, valid, tex, clock, elock, vlock, draw, shown, left, hit>>
  BY DEF Shot
<1> USE DEF Base, Types, Files, NoShort
<1>4. DiskInv'
  <2>1. Whole(disk'[game][job[t].slot])
    BY <1>1, <1>2, <1>3 DEF SaveInv, Whole
  <2>2. ASSUME NEW g \in Games, NEW s \in Slots, ~(g = game /\ s = job[t].slot)
        PROVE  s \in hit[g] \/ Whole(disk'[g][s])
    <3>1. disk'[g][s] = disk[g][s]
      BY <1>1, <2>2 DEF Puts
    <3>2. ~BeingSaved(g, s)
      BY <1>2, <1>3, <2>2 DEF BeingSaved, Saving
    <3> QED
      BY <3>1, <3>2 DEF DiskInv, Whole
  <2> QED
    BY <1>3, <2>1, <2>2 DEF DiskInv, Whole
<1>5. SaveInv'
  BY <1>1, <1>2, <1>3 DEF SaveInv, Stays, Moves, Puts
<1>6. ValidInv'
  BY <1>1, <1>2, <1>3 DEF ValidInv, BusyInv, SlotTypes, Stays, Moves, Puts
<1>7. TimeInv'
  BY <1>1, <1>2, <1>3 DEF TimeInv, Stays, Moves, Puts
<1>8. UnloadInv'
  <2>1. job'[t].what = job[t].what /\ \A u \in Threads : u # t => job'[u] = job[u]
    BY <1>1 DEF Moves, Stays
  <2>2. CASE job'[t].at = "jpeg"
    <3>1. \A s \in Slots : disk'[game][s].bin = disk[game][s].bin /\ disk'[game][s].time = disk[game][s].time
      BY <1>1, <1>2, <2>2 DEF Moves, Puts
    <3> QED
      BY Constants, <1>2, <1>3, <2>1, <2>2, <3>1 DEF UnloadInv
  <2>3. CASE job'[t].at = "end"
    <3>1. job[t].what = "unload" => ~valid[0]
      BY <1>3 DEF JobInv, BusyInv, Saving
    <3> QED
      BY <1>2, <1>3, <2>1, <2>3, <3>1 DEF UnloadInv
  <2> QED
    BY <1>1, <2>2, <2>3 DEF Moves
<1>9. LeftInv'
  <2>1. left[game] = None
    BY <1>2 DEF LeftInv, JobInv
  <2>2. \A g \in Games : g # game => disk'[g] = disk[g]
    BY <1>1 DEF Puts
  <2>3. job'["main"].what = job["main"].what /\ job'["main"].at \notin {"boot", "newest"}
    BY <1>1, <1>2 DEF Moves, Stays
  <2> QED
    BY <1>3, <2>1, <2>2, <2>3 DEF LeftInv, IsLast
<1> QED
  BY <1>4, <1>5, <1>6, <1>7, <1>8, <1>9

LEMMA JpegIs ==
    ASSUME Base, NEW t \in Threads, Jpeg(t)
    PROVE  /\ Moves(t, IF tex[job[t].slot] = None THEN "texture" ELSE "free")
           /\ Puts(game, job[t].slot) /\ disk'[game][job[t].slot].time = disk[game][job[t].slot].time
           /\ disk'[game][job[t].slot].img = screen /\ disk'[game][job[t].slot].bin = disk[game][job[t].slot].bin
<1>1. game \in Games /\ job[t].slot \in Slots /\ job[t].game = game
  BY Saver DEF Jpeg
<1>2. PutImg(game, job[t].slot, screen)
  BY <1>1 DEF Jpeg, Put, PutImg
<1>3. screen \in Frame \cup {None, Torn}
  BY DEF Base, Types, PlainTypes
<1>4. /\ Puts(game, job[t].slot) /\ disk'[game][job[t].slot].time = disk[game][job[t].slot].time
      /\ disk'[game][job[t].slot].img = screen /\ disk'[game][job[t].slot].bin = disk[game][job[t].slot].bin
  BY <1>1, <1>2, <1>3, PutImgIs DEF Base, Types
<1>5. Moves(t, IF tex[job[t].slot] = None THEN "texture" ELSE "free")
  BY GotoIs DEF Jpeg, Base, Types, Ats
<1> QED
  BY <1>4, <1>5

LEMMA JpegKeepsBase == ASSUME NoOverlap, Base, NEW t \in Threads, Jpeg(t) PROVE Base'
<1>1. /\ Moves(t, IF tex[job[t].slot] = None THEN "texture" ELSE "free")
      /\ Puts(game, job[t].slot) /\ disk'[game][job[t].slot].time = disk[game][job[t].slot].time
      /\ disk'[game][job[t].slot].img = screen /\ disk'[game][job[t].slot].bin = disk[game][job[t].slot].bin
  BY JpegIs
<1>2. /\ game \in Games /\ core \in Frame /\ screen = core
      /\ job[t].what \in {"menu", "save", "unload", "popup"} /\ job[t].slot \in Slots
      /\ job[t].at \in Saving => job[t].game = game
      /\ \A u \in Threads : u # t => job[u].at \in {"idle", "frame"}
  BY Saver DEF Jpeg
<1>3. job[t].at = "jpeg" /\ UNCHANGED <<status, tab, game, core, screen, valid, tex, clock, elock, vlock, draw, shown, left, hit>>
  BY DEF Jpeg
<1> USE DEF Base, Types, NoOverlap
<1>4. disk' \in [Games -> [Slots -> Card]]
  BY <1>1, <1>2, <1>3 DEF Puts
<1>5. job' \in [Threads -> Job]
  BY <1>1, <1>2, <1>3 DEF Stays, Moves, Starts
<1>6. PlainTypes'
  BY <1>2, <1>3 DEF PlainTypes, Stays, Moves
<1>7. SlotTypes'
  BY <1>2, <1>3 DEF SlotTypes, Stays, Moves
<1>8. HistoryTypes'
  BY <1>2, <1>3 DEF HistoryTypes, Stays, Moves
<1>9. JobInv'
  BY <1>1, <1>2, <1>3 DEF JobInv, Stays, Moves
<1>10. LockInv'
  BY <1>1, <1>2, <1>3 DEF LockInv, Stays, Moves
<1>11. StatusInv'
  BY <1>1, <1>2, <1>3 DEF StatusInv, Stays, Moves
<1>12. BusyInv'
  BY <1>1, <1>2, <1>3 DEF BusyInv, SlotTypes, Stays, Moves
<1>13. DrawInv'
  BY <1>1, <1>2, <1>3 DEF DrawInv, SlotTypes, Stays, Moves
<1> QED
  BY <1>4, <1>5, <1>6, <1>7, <1>8, <1>9, <1>10, <1>11, <1>12, <1>13

LEMMA JpegKeepsFiles == ASSUME NoShort, Base, Files, Base', NEW t \in Threads, Jpeg(t) PROVE Files'
<1>1. /\ Moves(t, IF tex[job[t].slot] = None THEN "texture" ELSE "free")
      /\ Puts(game, job[t].slot) /\ disk'[game][job[t].slot].time = disk[game][job[t].slot].time
      /\ disk'[game][job[t].slot].img = screen /\ disk'[game][job[t].slot].bin = disk[game][job[t].slot].bin
  BY JpegIs
<1>2. /\ game \in Games /\ core \in Frame /\ screen = core
      /\ job[t].what \in {"menu", "save", "unload", "popup"} /\ job[t].slot \in Slots
      /\ job[t].at \in Saving => job[t].game = game
      /\ \A u \in Threads : u # t => job[u].at \in {"idle", "frame"}
  BY Saver DEF Jpeg
<1>3. job[t].at = "jpeg" /\ UNCHANGED <<status, tab, game, core, screen, valid, tex, clock, elock, vlock, draw, shown, left, hit>>
  BY DEF Jpeg
<1> USE DEF Base, Types, Files, NoShort
<1>4. DiskInv'
  <2>1. Whole(disk'[game][job[t].slot])
    BY <1>1, <1>2, <1>3 DEF SaveInv, Whole
  <2>2. ASSUME NEW g \in Games, NEW s \in Slots, ~(g = game /\ s = job[t].slot)
        PROVE  s \in hit[g] \/ Whole(disk'[g][s])
    <3>1. disk'[g][s] = disk[g][s]
      BY <1>1, <2>2 DEF Puts
    <3>2. ~BeingSaved(g, s)
      BY <1>2, <1>3, <2>2 DEF BeingSaved, Saving
    <3> QED
      BY <3>1, <3>2 DEF DiskInv, Whole
  <2> QED
    BY <1>3, <2>1, <2>2 DEF DiskInv, Whole
<1>5. SaveInv'
  BY <1>1, <1>2, <1>3 DEF SaveInv, Stays, Moves, Puts
<1>6. ValidInv'
  BY <1>1, <1>2, <1>3 DEF ValidInv, BusyInv, SlotTypes, Stays, Moves, Puts
<1>7. TimeInv'
  BY <1>1, <1>2, <1>3 DEF TimeInv, Stays, Moves, Puts
<1>8. UnloadInv'
  BY Constants, <1>1, <1>2, <1>3 DEF UnloadInv, Stays, Moves, Puts
<1>9. LeftInv'
  BY Constants, <1>1, <1>2, <1>3 DEF LeftInv, IsLast, HistoryTypes, Stays, Moves, Puts
<1> QED
  BY <1>4, <1>5, <1>6, <1>7, <1>8, <1>9

LEMMA FreeTextureIs ==
    ASSUME Base, NEW t \in Threads, FreeTexture(t)
    PROVE  Moves(t, "texture")
BY GotoIs DEF FreeTexture, Base, Types, Ats

LEMMA FreeTextureKeepsBase == ASSUME NoOverlap, Base, NEW t \in Threads, FreeTexture(t) PROVE Base'
<1>1. Moves(t, "texture")
  BY FreeTextureIs
<1>2. /\ game \in Games /\ core \in Frame /\ screen = core
      /\ job[t].what \in {"menu", "save", "unload", "popup"} /\ job[t].slot \in Slots
      /\ job[t].at \in Saving => job[t].game = game
      /\ \A u \in Threads : u # t => job[u].at \in {"idle", "frame"}
  BY Saver DEF FreeTexture
<1> USE DEF Base, Types, NoOverlap
<1>3. disk' \in [Games -> [Slots -> Card]]
  BY DEF FreeTexture, Puts
<1>4. job' \in [Threads -> Job]
  BY <1>1, <1>2 DEF FreeTexture, Stays, Moves, Starts
<1>5. PlainTypes'
  BY <1>2 DEF FreeTexture, FreeShown, PlainTypes, Stays, Moves
<1>6. SlotTypes'
  BY <1>2 DEF FreeTexture, FreeShown, SlotTypes, Stays, Moves
<1>7. HistoryTypes'
  BY <1>2 DEF FreeTexture, FreeShown, HistoryTypes, Stays, Moves
<1>8. JobInv'
  BY <1>1, <1>2 DEF FreeTexture, FreeShown, JobInv, Stays, Moves
<1>9. LockInv'
  BY <1>1, <1>2 DEF FreeTexture, FreeShown, LockInv, Stays, Moves
<1>10. StatusInv'
  BY <1>1, <1>2 DEF FreeTexture, FreeShown, StatusInv, Stays, Moves
<1>11. BusyInv'
  BY <1>1, <1>2 DEF FreeTexture, FreeShown, BusyInv, SlotTypes, Stays, Moves
<1>12. DrawInv'
  BY <1>1, <1>2 DEF FreeTexture, FreeShown, DrawInv, BusyInv, SlotTypes, Stays, Moves
<1> QED
  BY <1>3, <1>4, <1>5, <1>6, <1>7, <1>8, <1>9, <1>10, <1>11, <1>12

LEMMA FreeTextureKeepsFiles == ASSUME NoShort, Base, Files, Base', NEW t \in Threads, FreeTexture(t) PROVE Files'
<1>1. Moves(t, "texture")
  BY FreeTextureIs
<1>2. /\ game \in Games /\ core \in Frame /\ screen = core
      /\ job[t].what \in {"menu", "save", "unload", "popup"} /\ job[t].slot \in Slots
      /\ job[t].at \in Saving => job[t].game = game
      /\ \A u \in Threads : u # t => job[u].at \in {"idle", "frame"}
  BY Saver DEF FreeTexture
<1> USE DEF Base, Types, Files, NoShort
<1>3. DiskInv'
  BY <1>2 DEF FreeTexture, FreeShown, DiskInv, Whole, BeingSaved, Stays, Moves
<1>4. SaveInv'
  BY <1>1, <1>2 DEF FreeTexture, FreeShown, SaveInv, Stays, Moves
<1>5. ValidInv'
  BY <1>2 DEF FreeTexture, FreeShown, ValidInv, BusyInv, SlotTypes, Stays, Moves
<1>6. TimeInv'
  BY <1>2 DEF FreeTexture, FreeShown, TimeInv, Stays, Moves
<1>7. UnloadInv'
  BY <1>1, <1>2 DEF FreeTexture, FreeShown, UnloadInv, Stays, Moves
<1>8. LeftInv'
  BY <1>1, <1>2 DEF FreeTexture, FreeShown, LeftInv, IsLast, HistoryTypes, Stays, Moves
<1> QED
  BY <1>3, <1>4, <1>5, <1>6, <1>7, <1>8

LEMMA LoadTextureIs ==
    ASSUME Base, NEW t \in Threads, LoadTexture(t)
    PROVE  Moves(t, "done")
BY GotoIs DEF LoadTexture, Base, Types, Ats

LEMMA LoadTextureKeepsBase == ASSUME NoOverlap, Base, NEW t \in Threads, LoadTexture(t) PROVE Base'
<1>1. Moves(t, "done")
  BY LoadTextureIs
<1>2. /\ game \in Games /\ core \in Frame /\ screen = core
      /\ job[t].what \in {"menu", "save", "unload", "popup"} /\ job[t].slot \in Slots
      /\ job[t].at \in Saving => job[t].game = game
      /\ \A u \in Threads : u # t => job[u].at \in {"idle", "frame"}
  BY Saver DEF LoadTexture
<1> USE DEF Base, Types, NoOverlap
<1>3. disk' \in [Games -> [Slots -> Card]]
  BY DEF LoadTexture, Puts
<1>4. job' \in [Threads -> Job]
  BY <1>1, <1>2 DEF LoadTexture, Stays, Moves, Starts
<1>5. PlainTypes'
  BY <1>2 DEF LoadTexture, Picture, File, PlainTypes, Stays, Moves
<1>6. SlotTypes'
  BY <1>2 DEF LoadTexture, Picture, File, SlotTypes, Stays, Moves
<1>7. HistoryTypes'
  BY <1>2 DEF LoadTexture, Picture, File, HistoryTypes, Stays, Moves
<1>8. JobInv'
  BY <1>1, <1>2 DEF LoadTexture, File, JobInv, Stays, Moves
<1>9. LockInv'
  BY <1>1, <1>2 DEF LoadTexture, File, LockInv, Stays, Moves
<1>10. StatusInv'
  BY <1>1, <1>2 DEF LoadTexture, File, StatusInv, Stays, Moves
<1>11. BusyInv'
  BY Constants, <1>1, <1>2 DEF LoadTexture, Picture, File, BusyInv, LockInv, StatusInv,
     SlotTypes, Stays, Moves
<1>12. DrawInv'
  BY <1>1, <1>2 DEF LoadTexture, File, DrawInv, BusyInv, SlotTypes, Stays, Moves
<1> QED
  BY <1>3, <1>4, <1>5, <1>6, <1>7, <1>8, <1>9, <1>10, <1>11, <1>12

LEMMA LoadTextureKeepsFiles == ASSUME NoShort, Base, Files, Base', NEW t \in Threads, LoadTexture(t) PROVE Files'
<1>1. Moves(t, "done")
  BY LoadTextureIs
<1>2. /\ game \in Games /\ core \in Frame /\ screen = core
      /\ job[t].what \in {"menu", "save", "unload", "popup"} /\ job[t].slot \in Slots
      /\ job[t].at \in Saving => job[t].game = game
      /\ \A u \in Threads : u # t => job[u].at \in {"idle", "frame"}
  BY Saver DEF LoadTexture
<1> USE DEF Base, Types, Files, NoShort
<1>3. DiskInv'
  BY <1>2 DEF LoadTexture, File, DiskInv, Whole, BeingSaved, Stays, Moves
<1>4. SaveInv'
  <2>1. \A u \in Threads : u # t => job'[u].at \in {"idle", "frame"}
    BY <1>1, <1>2 DEF Moves, Stays
  <2>2. job'[t].at = "done" /\ job'[t].slot = job[t].slot
    BY <1>1 DEF Moves, Stays
  <2>3. disk[game][job[t].slot].bin \in Frame /\ disk[game][job[t].slot].img = disk[game][job[t].slot].bin
    BY DEF LoadTexture, SaveInv
  <2>4. disk' = disk /\ game' = game /\ tex'[job[t].slot] = disk[game][job[t].slot].img
    BY <1>2, <2>3 DEF LoadTexture, SlotTypes, Picture, File
  <2> QED
    BY <2>1, <2>2, <2>3, <2>4 DEF SaveInv
<1>5. ValidInv'
  BY <1>2 DEF LoadTexture, File, ValidInv, SlotTypes, Stays, Moves
<1>6. TimeInv'
  BY <1>2 DEF LoadTexture, Picture, File, TimeInv, Stays, Moves
<1>7. UnloadInv'
  <2>1. disk' = disk /\ core' = core /\ game' = game /\ job[t].at = "texture"
    BY DEF LoadTexture
  <2>2. job'[t].at = "done" /\ job'[t].what = job[t].what
    BY <1>1 DEF Moves, Stays
  <2>3. \A u \in Threads : u # t => job'[u].at \in {"idle", "frame"}
    BY <1>1, <1>2 DEF Moves, Stays
  <2> QED
    BY <2>1, <2>2, <2>3 DEF UnloadInv
<1>8. LeftInv'
  BY <1>1, <1>2 DEF LoadTexture, File, LeftInv, IsLast, HistoryTypes, Stays, Moves
<1> QED
  BY <1>3, <1>4, <1>5, <1>6, <1>7, <1>8

LEMMA SavedIs ==
    ASSUME Base, NEW t \in Threads, Saved(t)
    PROVE  Moves(t, "end")
BY GotoIs DEF Saved, Base, Types, Ats

LEMMA SavedKeepsBase == ASSUME NoOverlap, Base, NEW t \in Threads, Saved(t) PROVE Base'
<1>1. Moves(t, "end")
  BY SavedIs
<1>2. /\ game \in Games /\ core \in Frame /\ screen = core
      /\ job[t].what \in {"menu", "save", "unload", "popup"} /\ job[t].slot \in Slots
      /\ job[t].at \in Saving => job[t].game = game
      /\ \A u \in Threads : u # t => job[u].at \in {"idle", "frame"}
  BY Saver DEF Saved
<1> USE DEF Base, Types, NoOverlap
<1>3. disk' \in [Games -> [Slots -> Card]]
  BY DEF Saved, Puts
<1>4. job' \in [Threads -> Job]
  BY <1>1, <1>2 DEF Saved, Stays, Moves, Starts
<1>5. PlainTypes'
  BY <1>2 DEF Saved, PlainTypes, Stays, Moves
<1>6. SlotTypes'
  BY <1>2 DEF Saved, SlotTypes, Stays, Moves
<1>7. HistoryTypes'
  BY <1>2 DEF Saved, HistoryTypes, Stays, Moves
<1>8. JobInv'
  BY <1>1, <1>2 DEF Saved, JobInv, Stays, Moves
<1>9. LockInv'
  BY <1>1, <1>2 DEF Saved, LockInv, Stays, Moves
<1>10. StatusInv'
  BY <1>1, <1>2 DEF Saved, StatusInv, Stays, Moves
<1>11. BusyInv'
  BY <1>1, <1>2 DEF Saved, BusyInv, SlotTypes, Stays, Moves
<1>12. DrawInv'
  BY <1>1, <1>2 DEF Saved, DrawInv, BusyInv, SlotTypes, Stays, Moves
<1> QED
  BY <1>3, <1>4, <1>5, <1>6, <1>7, <1>8, <1>9, <1>10, <1>11, <1>12

LEMMA SavedKeepsFiles == ASSUME NoShort, Base, Files, Base', NEW t \in Threads, Saved(t) PROVE Files'
<1>1. Moves(t, "end")
  BY SavedIs
<1>2. /\ game \in Games /\ core \in Frame /\ screen = core
      /\ job[t].what \in {"menu", "save", "unload", "popup"} /\ job[t].slot \in Slots
      /\ job[t].at \in Saving => job[t].game = game
      /\ \A u \in Threads : u # t => job[u].at \in {"idle", "frame"}
  BY Saver DEF Saved
<1> USE DEF Base, Types, Files, NoShort
<1>3. DiskInv'
  BY <1>2 DEF Saved, DiskInv, SaveInv, BusyInv, Whole, BeingSaved, Stays, Moves
<1>4. SaveInv'
  BY <1>1, <1>2 DEF Saved, SaveInv, Stays, Moves
<1>5. ValidInv'
  <2>1. UNCHANGED <<game, tex, disk>> /\ job[t].at = "done" /\ job["main"].at # "init"
    BY <1>2 DEF Saved
  <2>2. \A s \in Slots : valid'[s] => valid[s] \/ s = job[t].slot
    BY DEF Saved, SlotTypes
  <2>3. LET files == disk[game][job[t].slot] IN
          /\ files.bin \in Frame /\ files.img = files.bin
          /\ tex[job[t].slot] = Picture(files.img)
    BY DEF Saved, SaveInv, Picture
  <2> QED
    BY Constants, <1>2, <2>1, <2>2, <2>3 DEF ValidInv
<1>6. TimeInv'
  BY <1>2 DEF Saved, TimeInv, Stays, Moves
<1>7. UnloadInv'
  <2>1. \A u \in Threads : u # t => job'[u].what # "unload"
    BY <1>1, <1>2 DEF JobInv, Moves, Stays
  <2>2. UNCHANGED <<game, core, disk>> /\ job[t].at = "done" /\ job'[t].at = "end" /\ job'[t].what = job[t].what
    BY <1>1 DEF Saved, Moves, Stays
  <2>3. job[t].what = "unload" => IsLast(game, core)
    BY Constants, <1>2, <2>2 DEF UnloadInv, SaveInv, JobInv, IsLast
  <2> QED
    BY <2>1, <2>2, <2>3 DEF UnloadInv, IsLast
<1>8. LeftInv'
  BY <1>1, <1>2 DEF Saved, LeftInv, IsLast, HistoryTypes, Stays, Moves
<1> QED
  BY <1>3, <1>4, <1>5, <1>6, <1>7, <1>8

LEMMA LoadIs ==
    ASSUME Base, NEW t \in Threads, Load(t)
    PROVE  Moves(t, "end")
BY GotoIs DEF Load, Base, Types, Ats

LEMMA LoadKeepsBase == ASSUME NoOverlap, Base, NEW t \in Threads, Load(t) PROVE Base'
<1>1. Moves(t, "end")
  BY LoadIs
<1> USE DEF Base, Types, NoOverlap
<1>2. game \in Games /\ job[t].slot \in Slots
  BY DEF Load, Base, Types, PlainTypes, Job
<1>3. \A g \in Games, s \in Slots :
        /\ disk[g][s].bin \in Frame \cup {None, Torn} /\ disk[g][s].img \in Frame \cup {None, Torn}
        /\ disk[g][s].time \in Nat
  BY CardIs
<1>4. core' \in Frame
  BY Constants, <1>2, <1>3 DEF Load, Unserialized, Base, Types, PlainTypes
<1>5. disk' \in [Games -> [Slots -> Card]]
  BY DEF Load, Puts
<1>6. job' \in [Threads -> Job]
  BY <1>1, <1>2, <1>3, <1>4 DEF Load, Stays, Moves, Starts
<1>7. PlainTypes'
  BY <1>4 DEF Load, Unserialized, PlainTypes, Stays, Moves
<1>8. SlotTypes'
  BY <1>4 DEF Load, Unserialized, SlotTypes, Stays, Moves
<1>9. HistoryTypes'
  BY <1>4 DEF Load, Unserialized, HistoryTypes, Stays, Moves
<1>10. JobInv'
  BY <1>1, <1>2, <1>3, <1>4 DEF Load, Unserialized, JobInv, Stays, Moves
<1>11. LockInv'
  BY <1>1, <1>2, <1>3, <1>4 DEF Load, Unserialized, LockInv, Stays, Moves
<1>12. StatusInv'
  BY <1>1, <1>2, <1>3, <1>4 DEF Load, Unserialized, StatusInv, JobInv, Stays, Moves
<1>13. BusyInv'
  BY <1>1, <1>2, <1>3, <1>4 DEF Load, Unserialized, BusyInv, SlotTypes, Stays, Moves
<1>14. DrawInv'
  BY <1>1, <1>2, <1>3, <1>4 DEF Load, Unserialized, DrawInv, SlotTypes, Stays, Moves
<1> QED
  BY <1>5, <1>6, <1>7, <1>8, <1>9, <1>10, <1>11, <1>12, <1>13, <1>14

LEMMA LoadKeepsFiles == ASSUME NoShort, Base, Files, Base', NEW t \in Threads, Load(t) PROVE Files'
<1>1. Moves(t, "end")
  BY LoadIs
<1> USE DEF Base, Types, Files, NoShort
<1>2. game \in Games /\ job[t].slot \in Slots
  BY DEF Load, Base, Types, PlainTypes, Job
<1>3. \A g \in Games, s \in Slots :
        /\ disk[g][s].bin \in Frame \cup {None, Torn} /\ disk[g][s].img \in Frame \cup {None, Torn}
        /\ disk[g][s].time \in Nat
  BY CardIs
<1>4. core' \in Frame
  BY Constants, <1>2, <1>3 DEF Load, Unserialized, Base, Types, PlainTypes
<1>5. DiskInv'
  BY <1>1, <1>2, <1>3, <1>4 DEF Load, Unserialized, DiskInv, Whole, BeingSaved, Stays, Moves
<1>6. SaveInv'
  <2>1. job[t].at = "read"
    BY DEF Load
  <2>2. \A u \in Threads : u # t => job[u].at \in {"idle", "frame"}
    BY <2>1 DEF JobInv
  <2>3. \A u \in Threads : job'[u].at \in {"idle", "frame", "end"}
    BY <1>1, <2>2 DEF Stays, Moves
  <2> QED
    BY <2>3 DEF SaveInv
<1>7. ValidInv'
  BY <1>1, <1>2, <1>3, <1>4 DEF Load, Unserialized, ValidInv, SlotTypes, Stays, Moves
<1>8. TimeInv'
  BY <1>4 DEF Load, Unserialized, TimeInv, Stays, Moves
<1>9. UnloadInv'
  BY <1>1, <1>2, <1>3, <1>4 DEF Load, Unserialized, UnloadInv, JobInv, Stays, Moves
<1>10. LeftInv'
  BY <1>1, <1>2, <1>3, <1>4 DEF Load, Unserialized, LeftInv, IsLast, HistoryTypes, Stays,
     Moves
<1> QED
  BY <1>5, <1>6, <1>7, <1>8, <1>9, <1>10

LEMMA RemoveBinIs ==
    ASSUME Base, NEW t \in Threads, RemoveBin(t)
    PROVE  /\ Moves(t, "unimg")
           /\ Puts(game, job[t].slot) /\ disk'[game][job[t].slot].time = disk[game][job[t].slot].time
           /\ disk'[game][job[t].slot].bin = None /\ disk'[game][job[t].slot].img = disk[game][job[t].slot].img
<1>1. game \in Games /\ job[t].slot \in Slots
  BY Saver DEF RemoveBin
<1>2. PutBin(game, job[t].slot, None)
  BY DEF RemoveBin, PutBin
<1>3. /\ Puts(game, job[t].slot) /\ disk'[game][job[t].slot].time = disk[game][job[t].slot].time
      /\ disk'[game][job[t].slot].bin = None /\ disk'[game][job[t].slot].img = disk[game][job[t].slot].img
  BY <1>1, <1>2, PutBinIs DEF Base, Types
<1>4. Moves(t, "unimg")
  BY GotoIs DEF RemoveBin, Base, Types, Ats
<1> QED
  BY <1>3, <1>4

LEMMA RemoveBinKeepsBase == ASSUME NoOverlap, Base, NEW t \in Threads, RemoveBin(t) PROVE Base'
<1>1. /\ Moves(t, "unimg")
      /\ Puts(game, job[t].slot) /\ disk'[game][job[t].slot].time = disk[game][job[t].slot].time
      /\ disk'[game][job[t].slot].bin = None /\ disk'[game][job[t].slot].img = disk[game][job[t].slot].img
  BY RemoveBinIs
<1>2. /\ game \in Games /\ core \in Frame /\ screen = core
      /\ job[t].what \in {"menu", "save", "unload", "popup"} /\ job[t].slot \in Slots
      /\ job[t].at \in Saving => job[t].game = game
      /\ \A u \in Threads : u # t => job[u].at \in {"idle", "frame"}
  BY Saver DEF RemoveBin
<1>3. /\ job[t].at = "unbin" /\ valid' = [valid EXCEPT ![job[t].slot] = FALSE]
      /\ UNCHANGED <<status, tab, game, core, screen, tex, clock, elock, vlock, draw, shown, left, hit>>
  BY DEF RemoveBin
<1> USE DEF Base, Types, NoOverlap
<1>4. disk' \in [Games -> [Slots -> Card]]
  BY <1>1, <1>2, <1>3 DEF Puts
<1>5. job' \in [Threads -> Job]
  BY <1>1, <1>2, <1>3 DEF Stays, Moves, Starts
<1>6. PlainTypes'
  BY <1>2, <1>3 DEF PlainTypes, Stays, Moves
<1>7. SlotTypes'
  BY <1>2, <1>3 DEF SlotTypes, Stays, Moves
<1>8. HistoryTypes'
  BY <1>2, <1>3 DEF HistoryTypes, Stays, Moves
<1>9. JobInv'
  BY <1>1, <1>2, <1>3 DEF JobInv, Stays, Moves
<1>10. LockInv'
  BY <1>1, <1>2, <1>3 DEF LockInv, Stays, Moves
<1>11. StatusInv'
  BY <1>1, <1>2, <1>3 DEF StatusInv, Stays, Moves
<1>12. BusyInv'
  BY <1>1, <1>2, <1>3 DEF BusyInv, SlotTypes, Stays, Moves
<1>13. DrawInv'
  BY <1>1, <1>2, <1>3 DEF DrawInv, SlotTypes, Stays, Moves
<1> QED
  BY <1>4, <1>5, <1>6, <1>7, <1>8, <1>9, <1>10, <1>11, <1>12, <1>13

LEMMA RemoveBinKeepsFiles == ASSUME NoShort, Base, Files, Base', NEW t \in Threads, RemoveBin(t) PROVE Files'
<1>1. /\ Moves(t, "unimg")
      /\ Puts(game, job[t].slot) /\ disk'[game][job[t].slot].time = disk[game][job[t].slot].time
      /\ disk'[game][job[t].slot].bin = None /\ disk'[game][job[t].slot].img = disk[game][job[t].slot].img
  BY RemoveBinIs
<1>2. /\ game \in Games /\ core \in Frame /\ screen = core
      /\ job[t].what \in {"menu", "save", "unload", "popup"} /\ job[t].slot \in Slots
      /\ job[t].at \in Saving => job[t].game = game
      /\ \A u \in Threads : u # t => job[u].at \in {"idle", "frame"}
  BY Saver DEF RemoveBin
<1>3. /\ job[t].at = "unbin" /\ valid' = [valid EXCEPT ![job[t].slot] = FALSE]
      /\ UNCHANGED <<status, tab, game, core, screen, tex, clock, elock, vlock, draw, shown, left, hit>>
  BY DEF RemoveBin
<1> USE DEF Base, Types, Files, NoShort
<1>4. DiskInv'
  BY <1>1, <1>2, <1>3 DEF DiskInv, Whole, BeingSaved, Stays, Moves, Puts
<1>5. SaveInv'
  BY <1>1, <1>2, <1>3 DEF SaveInv, Stays, Moves, Puts
<1>6. ValidInv'
  BY <1>1, <1>2, <1>3 DEF ValidInv, SlotTypes, Stays, Moves, Puts
<1>7. TimeInv'
  BY <1>1, <1>2, <1>3 DEF TimeInv, Stays, Moves, Puts
<1>8. UnloadInv'
  BY <1>1, <1>2, <1>3 DEF UnloadInv, Stays, Moves, Puts
<1>9. LeftInv'
  BY Constants, <1>1, <1>2, <1>3 DEF LeftInv, IsLast, JobInv, Stays, Moves, Puts
<1> QED
  BY <1>4, <1>5, <1>6, <1>7, <1>8, <1>9

LEMMA RemoveImageIs ==
    ASSUME Base, NEW t \in Threads, RemoveImage(t)
    PROVE  /\ Moves(t, IF tex[job[t].slot] = None THEN "end" ELSE "untex")
           /\ Puts(game, job[t].slot) /\ disk'[game][job[t].slot].time = disk[game][job[t].slot].time
           /\ disk'[game][job[t].slot].img = None /\ disk'[game][job[t].slot].bin = disk[game][job[t].slot].bin
<1>1. game \in Games /\ job[t].slot \in Slots
  BY Saver DEF RemoveImage
<1>2. PutImg(game, job[t].slot, None)
  BY DEF RemoveImage, PutImg
<1>3. /\ Puts(game, job[t].slot) /\ disk'[game][job[t].slot].time = disk[game][job[t].slot].time
      /\ disk'[game][job[t].slot].img = None /\ disk'[game][job[t].slot].bin = disk[game][job[t].slot].bin
  BY <1>1, <1>2, PutImgIs DEF Base, Types
<1>4. Moves(t, IF tex[job[t].slot] = None THEN "end" ELSE "untex")
  BY GotoIs DEF RemoveImage, Base, Types, Ats
<1> QED
  BY <1>3, <1>4

LEMMA RemoveImageKeepsBase == ASSUME NoOverlap, Base, NEW t \in Threads, RemoveImage(t) PROVE Base'
<1>1. /\ Moves(t, IF tex[job[t].slot] = None THEN "end" ELSE "untex")
      /\ Puts(game, job[t].slot) /\ disk'[game][job[t].slot].time = disk[game][job[t].slot].time
      /\ disk'[game][job[t].slot].img = None /\ disk'[game][job[t].slot].bin = disk[game][job[t].slot].bin
  BY RemoveImageIs
<1>2. /\ game \in Games /\ core \in Frame /\ screen = core
      /\ job[t].what \in {"menu", "save", "unload", "popup"} /\ job[t].slot \in Slots
      /\ job[t].at \in Saving => job[t].game = game
      /\ \A u \in Threads : u # t => job[u].at \in {"idle", "frame"}
  BY Saver DEF RemoveImage
<1>3. /\ job[t].at = "unimg" /\ hit' = [hit EXCEPT ![game] = @ \ {job[t].slot}]
      /\ UNCHANGED <<status, tab, game, core, screen, valid, tex, clock, elock, vlock, draw, shown, left>>
  BY DEF RemoveImage
<1> USE DEF Base, Types, NoOverlap
<1>4. disk' \in [Games -> [Slots -> Card]]
  BY <1>1, <1>2, <1>3 DEF Puts
<1>5. job' \in [Threads -> Job]
  BY <1>1, <1>2, <1>3 DEF Stays, Moves, Starts
<1>6. PlainTypes'
  BY <1>2, <1>3 DEF PlainTypes, Stays, Moves
<1>7. SlotTypes'
  BY <1>2, <1>3 DEF SlotTypes, Stays, Moves
<1>8. HistoryTypes'
  BY <1>2, <1>3 DEF HistoryTypes, Stays, Moves
<1>9. JobInv'
  BY <1>1, <1>2, <1>3 DEF JobInv, Stays, Moves
<1>10. LockInv'
  BY <1>1, <1>2, <1>3 DEF LockInv, Stays, Moves
<1>11. StatusInv'
  BY <1>1, <1>2, <1>3 DEF StatusInv, Stays, Moves
<1>12. BusyInv'
  BY <1>1, <1>2, <1>3 DEF BusyInv, SlotTypes, Stays, Moves
<1>13. DrawInv'
  BY <1>1, <1>2, <1>3 DEF DrawInv, SlotTypes, Stays, Moves
<1> QED
  BY <1>4, <1>5, <1>6, <1>7, <1>8, <1>9, <1>10, <1>11, <1>12, <1>13

LEMMA RemoveImageKeepsFiles == ASSUME NoShort, Base, Files, Base', NEW t \in Threads, RemoveImage(t) PROVE Files'
<1>1. /\ Moves(t, IF tex[job[t].slot] = None THEN "end" ELSE "untex")
      /\ Puts(game, job[t].slot) /\ disk'[game][job[t].slot].time = disk[game][job[t].slot].time
      /\ disk'[game][job[t].slot].img = None /\ disk'[game][job[t].slot].bin = disk[game][job[t].slot].bin
  BY RemoveImageIs
<1>2. /\ game \in Games /\ core \in Frame /\ screen = core
      /\ job[t].what \in {"menu", "save", "unload", "popup"} /\ job[t].slot \in Slots
      /\ job[t].at \in Saving => job[t].game = game
      /\ \A u \in Threads : u # t => job[u].at \in {"idle", "frame"}
  BY Saver DEF RemoveImage
<1>3. /\ job[t].at = "unimg" /\ hit' = [hit EXCEPT ![game] = @ \ {job[t].slot}]
      /\ UNCHANGED <<status, tab, game, core, screen, valid, tex, clock, elock, vlock, draw, shown, left>>
  BY DEF RemoveImage
<1> USE DEF Base, Types, Files, NoShort
<1>4. DiskInv'
  BY <1>1, <1>2, <1>3 DEF DiskInv, Whole, BeingSaved, Stays, Moves, Puts
<1>5. SaveInv'
  BY <1>1, <1>2, <1>3 DEF SaveInv, Stays, Moves, Puts
<1>6. ValidInv'
  BY <1>1, <1>2, <1>3 DEF ValidInv, BusyInv, SlotTypes, Stays, Moves, Puts
<1>7. TimeInv'
  BY <1>1, <1>2, <1>3 DEF TimeInv, Stays, Moves, Puts
<1>8. UnloadInv'
  BY <1>1, <1>2, <1>3 DEF UnloadInv, JobInv, Stays, Moves, Puts
<1>9. LeftInv'
  BY <1>1, <1>2, <1>3 DEF LeftInv, IsLast, JobInv, Stays, Moves, Puts
<1> QED
  BY <1>4, <1>5, <1>6, <1>7, <1>8, <1>9

LEMMA RemoveTextureIs ==
    ASSUME Base, NEW t \in Threads, RemoveTexture(t)
    PROVE  Moves(t, "end")
BY GotoIs DEF RemoveTexture, Base, Types, Ats

LEMMA RemoveTextureKeepsBase == ASSUME NoOverlap, Base, NEW t \in Threads, RemoveTexture(t) PROVE Base'
<1>1. Moves(t, "end")
  BY RemoveTextureIs
<1>2. /\ game \in Games /\ core \in Frame /\ screen = core
      /\ job[t].what \in {"menu", "save", "unload", "popup"} /\ job[t].slot \in Slots
      /\ job[t].at \in Saving => job[t].game = game
      /\ \A u \in Threads : u # t => job[u].at \in {"idle", "frame"}
  BY Saver DEF RemoveTexture
<1> USE DEF Base, Types, NoOverlap
<1>3. disk' \in [Games -> [Slots -> Card]]
  BY DEF RemoveTexture, Puts
<1>4. job' \in [Threads -> Job]
  BY <1>1, <1>2 DEF RemoveTexture, Stays, Moves, Starts
<1>5. PlainTypes'
  BY <1>2 DEF RemoveTexture, FreeShown, PlainTypes, Stays, Moves
<1>6. SlotTypes'
  BY <1>2 DEF RemoveTexture, FreeShown, SlotTypes, Stays, Moves
<1>7. HistoryTypes'
  BY <1>2 DEF RemoveTexture, FreeShown, HistoryTypes, Stays, Moves
<1>8. JobInv'
  BY <1>1, <1>2 DEF RemoveTexture, FreeShown, JobInv, Stays, Moves
<1>9. LockInv'
  BY <1>1, <1>2 DEF RemoveTexture, FreeShown, LockInv, Stays, Moves
<1>10. StatusInv'
  BY <1>1, <1>2 DEF RemoveTexture, FreeShown, StatusInv, Stays, Moves
<1>11. BusyInv'
  BY <1>1, <1>2 DEF RemoveTexture, FreeShown, BusyInv, SlotTypes, Stays, Moves
<1>12. DrawInv'
  BY Constants, <1>1, <1>2 DEF RemoveTexture, FreeShown, DrawInv, SlotTypes, Stays, Moves
<1> QED
  BY <1>3, <1>4, <1>5, <1>6, <1>7, <1>8, <1>9, <1>10, <1>11, <1>12

LEMMA RemoveTextureKeepsFiles == ASSUME NoShort, Base, Files, Base', NEW t \in Threads, RemoveTexture(t) PROVE Files'
<1>1. Moves(t, "end")
  BY RemoveTextureIs
<1>2. /\ game \in Games /\ core \in Frame /\ screen = core
      /\ job[t].what \in {"menu", "save", "unload", "popup"} /\ job[t].slot \in Slots
      /\ job[t].at \in Saving => job[t].game = game
      /\ \A u \in Threads : u # t => job[u].at \in {"idle", "frame"}
  BY Saver DEF RemoveTexture
<1> USE DEF Base, Types, Files, NoShort
<1>3. DiskInv'
  BY <1>2 DEF RemoveTexture, FreeShown, DiskInv, Whole, BeingSaved, Stays, Moves
<1>4. SaveInv'
  BY <1>1, <1>2 DEF RemoveTexture, FreeShown, SaveInv, Stays, Moves
<1>5. ValidInv'
  BY <1>2 DEF RemoveTexture, FreeShown, ValidInv, BusyInv, SlotTypes, Stays, Moves
<1>6. TimeInv'
  BY <1>2 DEF RemoveTexture, FreeShown, TimeInv, Stays, Moves
<1>7. UnloadInv'
  BY <1>1, <1>2 DEF RemoveTexture, FreeShown, UnloadInv, JobInv, Stays, Moves
<1>8. LeftInv'
  BY <1>1, <1>2 DEF RemoveTexture, FreeShown, LeftInv, IsLast, HistoryTypes, Stays, Moves
<1> QED
  BY <1>3, <1>4, <1>5, <1>6, <1>7, <1>8

LEMMA LoadRomIs ==
    ASSUME Base, NEW g \in Games, LoadRom(g)
    PROVE  Starts("main", "boot", 0, "init")
BY Constants, StartIs DEF LoadRom, Base, Types, Ats, Whats

LEMMA LoadRomKeepsBase == ASSUME NoOverlap, Base, NEW g \in Games, LoadRom(g) PROVE Base'
<1>1. Starts("main", "boot", 0, "init")
  BY LoadRomIs
<1> USE DEF Base, Types, NoOverlap
<1>2. disk' \in [Games -> [Slots -> Card]]
  BY DEF LoadRom, Puts
<1>3. job' \in [Threads -> Job]
  BY <1>1 DEF LoadRom, Stays, Moves, Starts
<1>4. PlainTypes'
  BY DEF LoadRom, UserActs, CanSet, PlainTypes, Starts
<1>5. SlotTypes'
  BY DEF LoadRom, UserActs, CanSet, SlotTypes, Starts
<1>6. HistoryTypes'
  BY DEF LoadRom, UserActs, CanSet, HistoryTypes, Starts
<1>7. JobInv'
  BY <1>1 DEF LoadRom, UserActs, CanSet, JobInv, Starts
<1>8. LockInv'
  BY <1>1 DEF LoadRom, UserActs, CanSet, LockInv, Starts
<1>9. StatusInv'
  BY <1>1 DEF LoadRom, UserActs, CanSet, StatusInv, JobInv, Starts
<1>10. BusyInv'
  BY <1>1 DEF LoadRom, UserActs, CanSet, BusyInv, SlotTypes, Starts
<1>11. DrawInv'
  BY DEF LoadRom, UserActs, CanSet, DrawInv, SlotTypes, Starts
<1> QED
  BY <1>2, <1>3, <1>4, <1>5, <1>6, <1>7, <1>8, <1>9, <1>10, <1>11

LEMMA LoadRomKeepsFiles == ASSUME NoShort, Base, Files, Base', NEW g \in Games, LoadRom(g) PROVE Files'
<1>1. Starts("main", "boot", 0, "init")
  BY LoadRomIs
<1> USE DEF Base, Types, Files, NoShort
<1>2. DiskInv'
  BY DEF LoadRom, UserActs, CanSet, DiskInv, Whole, BeingSaved, Starts
<1>3. SaveInv'
  BY <1>1 DEF LoadRom, UserActs, CanSet, SaveInv, Starts
<1>4. ValidInv'
  BY <1>1 DEF LoadRom, UserActs, CanSet, ValidInv, SlotTypes, Starts
<1>5. TimeInv'
  BY DEF LoadRom, UserActs, CanSet, TimeInv, Starts
<1>6. UnloadInv'
  BY <1>1 DEF LoadRom, UserActs, CanSet, UnloadInv, IsLast, JobInv, BusyInv, SaveInv,
     TimeInv, SlotTypes, Starts
<1>7. LeftInv'
  BY <1>1 DEF LoadRom, UserActs, CanSet, LeftInv, IsLast, HistoryTypes, Starts
<1> QED
  BY <1>2, <1>3, <1>4, <1>5, <1>6, <1>7

LEMMA InitSlotsIs ==
    ASSUME Base, InitSlots
    PROVE  Moves("main", "boot")
BY GotoIs DEF InitSlots, Base, Types, Ats

LEMMA InitSlotsKeepsBase == ASSUME NoOverlap, Base, InitSlots PROVE Base'
<1>1. Moves("main", "boot")
  BY InitSlotsIs
<1> USE DEF Base, Types, NoOverlap
<1>2. disk' \in [Games -> [Slots -> Card]]
  BY DEF InitSlots, Puts
<1>3. job' \in [Threads -> Job]
  BY <1>1 DEF InitSlots, Stays, Moves, Starts
<1>4. PlainTypes'
  BY DEF InitSlots, Picture, PlainTypes, Stays, Moves
<1>5. SlotTypes'
  BY DEF InitSlots, Picture, SlotTypes, Stays, Moves
<1>6. HistoryTypes'
  BY DEF InitSlots, Picture, HistoryTypes, Stays, Moves
<1>7. JobInv'
  BY <1>1 DEF InitSlots, JobInv, Stays, Moves
<1>8. LockInv'
  BY <1>1 DEF InitSlots, LockInv, Stays, Moves
<1>9. StatusInv'
  BY <1>1 DEF InitSlots, StatusInv, Stays, Moves
<1>10. BusyInv'
  BY <1>1 DEF InitSlots, BusyInv, JobInv, StatusInv, SlotTypes, Stays, Moves
<1>11. DrawInv'
  BY Constants, <1>1 DEF InitSlots, Picture, DrawInv, BusyInv, SlotTypes, Stays, Moves
<1> QED
  BY <1>2, <1>3, <1>4, <1>5, <1>6, <1>7, <1>8, <1>9, <1>10, <1>11

LEMMA InitSlotsKeepsFiles == ASSUME NoShort, Base, Files, Base', InitSlots PROVE Files'
<1>1. Moves("main", "boot")
  BY InitSlotsIs
<1> USE DEF Base, Types, Files, NoShort
<1>2. DiskInv'
  BY <1>1 DEF InitSlots, DiskInv, Whole, BeingSaved, Stays, Moves
<1>3. SaveInv'
  BY <1>1 DEF InitSlots, SaveInv, BusyInv, JobInv, Stays, Moves
<1>4. ValidInv'
  BY Constants, <1>1 DEF InitSlots, Picture, ValidInv, BusyInv, SlotTypes, Stays, Moves
<1>5. TimeInv'
  BY DEF InitSlots, Picture, TimeInv, Stays, Moves
<1>6. UnloadInv'
  BY Constants, <1>1 DEF InitSlots, Picture, UnloadInv, IsLast, JobInv, BusyInv, SaveInv,
     TimeInv, SlotTypes, Stays, Moves
<1>7. LeftInv'
  BY Constants, <1>1 DEF InitSlots, Picture, LeftInv, IsLast, JobInv, StatusInv, UnloadInv,
     Stays, Moves
<1> QED
  BY <1>2, <1>3, <1>4, <1>5, <1>6, <1>7

LEMMA BootIs ==
    ASSUME Base, Boot
    PROVE  \/ core' = 0 /\ status' = "run" /\ Moves("main", "newest") /\ UNCHANGED game
           \/ game' = None /\ status' = "ui" /\ Moves("main", "end") /\ UNCHANGED core
BY GotoIs DEF Boot, Base, Types, Ats

LEMMA BootKeepsBase == ASSUME NoOverlap, Base, Boot PROVE Base'
<1>1. \/ core' = 0 /\ status' = "run" /\ Moves("main", "newest") /\ UNCHANGED game
      \/ game' = None /\ status' = "ui" /\ Moves("main", "end") /\ UNCHANGED core
  BY BootIs
<1> USE DEF Base, Types, NoOverlap
<1>2. disk' \in [Games -> [Slots -> Card]]
  BY DEF Boot, Puts
<1>3. job' \in [Threads -> Job]
  BY <1>1 DEF Boot, Stays, Moves, Starts
<1>4. PlainTypes'
  BY Constants, <1>1 DEF Boot, PlainTypes, Stays, Moves
<1>5. SlotTypes'
  BY DEF Boot, SlotTypes, Stays, Moves
<1>6. HistoryTypes'
  BY DEF Boot, HistoryTypes, Stays, Moves
<1>7. JobInv'
  BY <1>1 DEF Boot, JobInv, Stays, Moves
<1>8. LockInv'
  BY <1>1 DEF Boot, LockInv, Stays, Moves
<1>9. StatusInv'
  BY Constants, <1>1 DEF Boot, StatusInv, JobInv, Stays, Moves
<1>10. BusyInv'
  BY <1>1 DEF Boot, BusyInv, JobInv, StatusInv, SlotTypes, Stays, Moves
<1>11. DrawInv'
  BY <1>1 DEF Boot, DrawInv, SlotTypes, Stays, Moves
<1> QED
  BY <1>2, <1>3, <1>4, <1>5, <1>6, <1>7, <1>8, <1>9, <1>10, <1>11

LEMMA BootKeepsFiles == ASSUME NoShort, Base, Files, Base', Boot PROVE Files'
<1>1. \/ core' = 0 /\ status' = "run" /\ Moves("main", "newest") /\ UNCHANGED game
      \/ game' = None /\ status' = "ui" /\ Moves("main", "end") /\ UNCHANGED core
  BY BootIs
<1> USE DEF Base, Types, Files, NoShort
<1>2. DiskInv'
  BY <1>1 DEF Boot, DiskInv, Whole, BeingSaved, Stays, Moves
<1>3. SaveInv'
  BY <1>1 DEF Boot, SaveInv, BusyInv, JobInv, Stays, Moves
<1>4. ValidInv'
  BY DEF Boot, ValidInv, SlotTypes, Stays, Moves
<1>5. TimeInv'
  BY DEF Boot, TimeInv, Stays, Moves
<1>6. UnloadInv'
  BY <1>1 DEF Boot, UnloadInv, IsLast, JobInv, BusyInv, SaveInv, TimeInv, SlotTypes, Stays,
     Moves
<1>7. LeftInv'
  BY Constants, <1>1 DEF Boot, LeftInv, IsLast, HistoryTypes, Stays, Moves
<1> QED
  BY <1>2, <1>3, <1>4, <1>5, <1>6, <1>7

LEMMA AutoLoadIs ==
    ASSUME Base, AutoLoad
    PROVE  Moves("main", "frame")
BY GotoIs DEF AutoLoad, Base, Types, Ats

LEMMA AutoLoadKeepsBase == ASSUME NoOverlap, Base, AutoLoad PROVE Base'
<1>1. Moves("main", "frame")
  BY AutoLoadIs
<1> USE DEF Base, Types, NoOverlap
<1>2. game \in Games /\ core \in Frame
  BY DEF AutoLoad, Base, JobInv, StatusInv
<1>3. \A g \in Games, s \in Slots :
        /\ disk[g][s].bin \in Frame \cup {None, Torn} /\ disk[g][s].img \in Frame \cup {None, Torn}
        /\ disk[g][s].time \in Nat
  BY CardIs
<1>4. core' \in Frame
  BY Constants, <1>2, <1>3 DEF AutoLoad, Unserialized
<1>5. disk' \in [Games -> [Slots -> Card]]
  BY DEF AutoLoad, Puts
<1>6. job' \in [Threads -> Job]
  BY <1>1, <1>2, <1>3, <1>4 DEF AutoLoad, Stays, Moves, Starts
<1>7. PlainTypes'
  BY <1>4 DEF AutoLoad, Newest, Unserialized, PlainTypes, Stays, Moves
<1>8. SlotTypes'
  BY <1>4 DEF AutoLoad, Newest, Unserialized, SlotTypes, Stays, Moves
<1>9. HistoryTypes'
  BY <1>4 DEF AutoLoad, Newest, Unserialized, HistoryTypes, Stays, Moves
<1>10. JobInv'
  BY <1>1, <1>2, <1>3, <1>4 DEF AutoLoad, Newest, Unserialized, JobInv, Stays, Moves
<1>11. LockInv'
  BY <1>1, <1>2, <1>3, <1>4 DEF AutoLoad, Newest, Unserialized, LockInv, Stays, Moves
<1>12. StatusInv'
  BY <1>1, <1>2, <1>3, <1>4 DEF AutoLoad, Newest, Unserialized, StatusInv, JobInv, Stays,
     Moves
<1>13. BusyInv'
  BY <1>1, <1>2, <1>3, <1>4 DEF AutoLoad, Newest, Unserialized, BusyInv, JobInv, StatusInv,
     SlotTypes, Stays, Moves
<1>14. DrawInv'
  BY <1>1, <1>2, <1>3, <1>4 DEF AutoLoad, Newest, Unserialized, DrawInv, SlotTypes, Stays,
     Moves
<1> QED
  BY <1>5, <1>6, <1>7, <1>8, <1>9, <1>10, <1>11, <1>12, <1>13, <1>14

LEMMA AutoLoadKeepsFiles == ASSUME NoShort, Base, Files, Base', AutoLoad PROVE Files'
<1>1. Moves("main", "frame")
  BY AutoLoadIs
<1> USE DEF Base, Types, Files, NoShort
<1>2. game \in Games /\ core \in Frame
  BY DEF AutoLoad, Base, JobInv, StatusInv
<1>3. \A g \in Games, s \in Slots :
        /\ disk[g][s].bin \in Frame \cup {None, Torn} /\ disk[g][s].img \in Frame \cup {None, Torn}
        /\ disk[g][s].time \in Nat
  BY CardIs
<1>4. core' \in Frame
  BY Constants, <1>2, <1>3 DEF AutoLoad, Unserialized
<1>5. DiskInv'
  <2>1. UNCHANGED <<disk, hit>>
    BY DEF AutoLoad, cards, history
  <2>2. \A t \in Threads : job[t].at \in {"write", "shot"} => job'[t] = job[t]
    BY <1>1 DEF AutoLoad, At, Moves, Stays
  <2> QED
    BY <2>1, <2>2 DEF DiskInv, Whole, BeingSaved
<1>6. SaveInv'
  BY <1>1, <1>2, <1>3, <1>4 DEF AutoLoad, Newest, Unserialized, SaveInv, BusyInv, JobInv,
     Stays, Moves
<1>7. ValidInv'
  BY DEF AutoLoad, Newest, Unserialized, ValidInv, SlotTypes, Stays, Moves
<1>8. TimeInv'
  BY <1>4 DEF AutoLoad, Newest, Unserialized, TimeInv, Stays, Moves
<1>9. UnloadInv'
  BY <1>1, <1>2, <1>3, <1>4 DEF AutoLoad, Newest, Unserialized, UnloadInv, IsLast, JobInv,
     BusyInv, SaveInv, TimeInv, SlotTypes, Stays, Moves
<1>10. LeftInv'
  BY <1>1, <1>2, <1>3, <1>4 DEF AutoLoad, Newest, Unserialized, LeftInv, IsLast,
     HistoryTypes, Stays, Moves
<1> QED
  BY <1>5, <1>6, <1>7, <1>8, <1>9, <1>10

LEMMA RunGameIs ==
    ASSUME Base, RunGame
    PROVE  Starts("main", "frame", 0, "frame")
BY Constants, StartIs DEF RunGame, Base, Types, Ats, Whats

LEMMA RunGameKeepsBase == ASSUME NoOverlap, Base, RunGame PROVE Base'
<1>1. Starts("main", "frame", 0, "frame")
  BY RunGameIs
<1> USE DEF Base, Types, NoOverlap
<1>2. disk' \in [Games -> [Slots -> Card]]
  BY DEF RunGame, Puts
<1>3. job' \in [Threads -> Job]
  BY <1>1 DEF RunGame, Stays, Moves, Starts
<1>4. PlainTypes'
  BY DEF RunGame, PlainTypes, Starts
<1>5. SlotTypes'
  BY DEF RunGame, SlotTypes, Starts
<1>6. HistoryTypes'
  BY DEF RunGame, HistoryTypes, Starts
<1>7. JobInv'
  BY <1>1 DEF RunGame, JobInv, Starts
<1>8. LockInv'
  BY <1>1 DEF RunGame, LockInv, Starts
<1>9. StatusInv'
  BY <1>1 DEF RunGame, StatusInv, Starts
<1>10. BusyInv'
  BY <1>1 DEF RunGame, BusyInv, JobInv, LockInv, StatusInv, SlotTypes, Starts
<1>11. DrawInv'
  BY <1>1 DEF RunGame, DrawInv, SlotTypes, Starts
<1> QED
  BY <1>2, <1>3, <1>4, <1>5, <1>6, <1>7, <1>8, <1>9, <1>10, <1>11

LEMMA RunGameKeepsFiles == ASSUME NoShort, Base, Files, Base', RunGame PROVE Files'
<1>1. Starts("main", "frame", 0, "frame")
  BY RunGameIs
<1> USE DEF Base, Types, Files, NoShort
<1>2. DiskInv'
  BY <1>1 DEF RunGame, DiskInv, Whole, BeingSaved, Starts
<1>3. SaveInv'
  BY <1>1 DEF RunGame, SaveInv, Starts
<1>4. ValidInv'
  BY DEF RunGame, ValidInv, SlotTypes, Starts
<1>5. TimeInv'
  BY DEF RunGame, TimeInv, Starts
<1>6. UnloadInv'
  BY <1>1 DEF RunGame, UnloadInv, IsLast, Starts
<1>7. LeftInv'
  BY DEF RunGame, LeftInv, IsLast, JobInv, StatusInv, BusyInv, HistoryTypes, Starts
<1> QED
  BY <1>2, <1>3, <1>4, <1>5, <1>6, <1>7

LEMMA FrameEndsIs ==
    ASSUME Base, FrameEnds
    PROVE  Starts("main", "none", 0, "idle")
<1>1. Idle \in Job /\ Idle.at = "idle" /\ Idle.what = "none" /\ Idle.slot = 0
  BY Constants DEF Idle, Job, Ats, Whats
<1> QED
  BY <1>1 DEF FrameEnds, Base, Types, Starts

LEMMA FrameEndsKeepsBase == ASSUME NoOverlap, Base, FrameEnds PROVE Base'
<1>1. Starts("main", "none", 0, "idle")
  BY FrameEndsIs
<1> USE DEF Base, Types, NoOverlap
<1>2. core \in Frame /\ core' \in Frame /\ screen' = core'
  BY Constants DEF FrameEnds, Frame, Base, Types, PlainTypes
<1>3. disk' \in [Games -> [Slots -> Card]]
  BY DEF FrameEnds, Puts
<1>4. job' \in [Threads -> Job]
  BY <1>1, <1>2 DEF FrameEnds, Stays, Moves, Starts
<1>5. PlainTypes'
  BY <1>2 DEF FrameEnds, Release, PlainTypes, Starts
<1>6. SlotTypes'
  BY <1>2 DEF FrameEnds, Release, SlotTypes, Starts
<1>7. HistoryTypes'
  BY Constants, <1>1, <1>2 DEF FrameEnds, Release, HistoryTypes, Starts
<1>8. JobInv'
  BY DEF FrameEnds, Release, JobInv, Starts
<1>9. LockInv'
  BY DEF FrameEnds, Release, LockInv, Starts
<1>10. StatusInv'
  BY <1>2 DEF FrameEnds, Release, StatusInv, Starts
<1>11. BusyInv'
  BY DEF FrameEnds, Release, BusyInv, SlotTypes, Starts
<1>12. DrawInv'
  BY DEF FrameEnds, Release, DrawInv, SlotTypes, Starts
<1> QED
  BY <1>3, <1>4, <1>5, <1>6, <1>7, <1>8, <1>9, <1>10, <1>11, <1>12

LEMMA FrameEndsKeepsFiles == ASSUME NoShort, Base, Files, Base', FrameEnds PROVE Files'
<1> USE DEF Base, Types, Files, NoShort
<1>1. core \in Frame /\ core' \in Frame /\ screen' = core'
  BY DEF FrameEnds, Frame, Base, Types, PlainTypes
<1>2. DiskInv'
  BY DEF FrameEnds, Release, DiskInv, Whole, BeingSaved, Starts
<1>3. SaveInv'
  BY <1>1 DEF FrameEnds, Release, SaveInv, BusyInv, Starts
<1>4. ValidInv'
  BY DEF FrameEnds, Release, ValidInv, SlotTypes, Starts
<1>5. TimeInv'
  BY <1>1 DEF FrameEnds, Release, TimeInv, Starts
<1>6. UnloadInv'
  BY <1>1 DEF FrameEnds, Release, UnloadInv, JobInv, LockInv, Starts
<1>7. LeftInv'
  BY DEF FrameEnds, Release, LeftInv, IsLast, HistoryTypes, Starts
<1> QED
  BY <1>2, <1>3, <1>4, <1>5, <1>6, <1>7

LEMMA LookKeepsBase == ASSUME NoOverlap, Base, Look PROVE Base'
<1> USE DEF Base, Types, NoOverlap
<1>1. disk' \in [Games -> [Slots -> Card]]
  BY DEF Look
<1>2. job' \in [Threads -> Job]
  BY DEF Look, Stays, Moves, Starts
<1>3. PlainTypes'
  BY DEF Look, PlainTypes
<1>4. SlotTypes'
  BY DEF Look, SlotTypes
<1>5. HistoryTypes'
  BY DEF Look, HistoryTypes
<1>6. JobInv'
  BY DEF Look, JobInv
<1>7. LockInv'
  BY DEF Look, LockInv
<1>8. StatusInv'
  BY DEF Look, StatusInv
<1>9. BusyInv'
  BY DEF Look, BusyInv, SlotTypes
<1>10. DrawInv'
  BY DEF Look, DrawInv, SlotTypes
<1> QED
  BY <1>1, <1>2, <1>3, <1>4, <1>5, <1>6, <1>7, <1>8, <1>9, <1>10

LEMMA LookKeepsFiles == ASSUME NoShort, Base, Files, Base', Look PROVE Files'
<1> USE DEF Base, Types, Files, NoShort
<1>1. DiskInv'
  BY DEF Look, DiskInv, Whole, BeingSaved
<1>2. SaveInv'
  BY DEF Look, SaveInv
<1>3. ValidInv'
  BY DEF Look, ValidInv, SlotTypes
<1>4. TimeInv'
  BY DEF Look, TimeInv
<1>5. UnloadInv'
  BY DEF Look, UnloadInv, IsLast
<1>6. LeftInv'
  BY DEF Look, LeftInv, IsLast, HistoryTypes
<1> QED
  BY <1>1, <1>2, <1>3, <1>4, <1>5, <1>6

LEMMA LockToDrawKeepsBase == ASSUME NoOverlap, Base, LockToDraw PROVE Base'
<1> USE DEF Base, Types, NoOverlap
<1>1. disk' \in [Games -> [Slots -> Card]]
  BY DEF LockToDraw
<1>2. job' \in [Threads -> Job]
  BY DEF LockToDraw, Stays, Moves, Starts
<1>3. PlainTypes'
  BY DEF LockToDraw, PlainTypes
<1>4. SlotTypes'
  BY DEF LockToDraw, SlotTypes
<1>5. HistoryTypes'
  BY DEF LockToDraw, HistoryTypes
<1>6. JobInv'
  BY DEF LockToDraw, JobInv
<1>7. LockInv'
  BY DEF LockToDraw, LockInv
<1>8. StatusInv'
  BY DEF LockToDraw, StatusInv
<1>9. BusyInv'
  BY DEF LockToDraw, BusyInv, SlotTypes
<1>10. DrawInv'
  BY DEF LockToDraw, DrawInv, SlotTypes
<1> QED
  BY <1>1, <1>2, <1>3, <1>4, <1>5, <1>6, <1>7, <1>8, <1>9, <1>10

LEMMA LockToDrawKeepsFiles == ASSUME NoShort, Base, Files, Base', LockToDraw PROVE Files'
<1> USE DEF Base, Types, Files, NoShort
<1>1. DiskInv'
  BY DEF LockToDraw, DiskInv, Whole, BeingSaved
<1>2. SaveInv'
  BY DEF LockToDraw, SaveInv
<1>3. ValidInv'
  BY DEF LockToDraw, ValidInv, SlotTypes
<1>4. TimeInv'
  BY DEF LockToDraw, TimeInv
<1>5. UnloadInv'
  BY DEF LockToDraw, UnloadInv, IsLast
<1>6. LeftInv'
  BY DEF LockToDraw, LeftInv, IsLast, HistoryTypes
<1> QED
  BY <1>1, <1>2, <1>3, <1>4, <1>5, <1>6

LEMMA ShowKeepsBase == ASSUME NoOverlap, Base, Show PROVE Base'
<1> USE DEF Base, Types, NoOverlap
<1>1. disk' \in [Games -> [Slots -> Card]]
  BY DEF Show
<1>2. job' \in [Threads -> Job]
  BY DEF Show, Stays, Moves, Starts
<1>3. PlainTypes'
  BY DEF Show, PlainTypes
<1>4. SlotTypes'
  BY DEF Show, SlotTypes
<1>5. HistoryTypes'
  BY DEF Show, HistoryTypes
<1>6. JobInv'
  BY DEF Show, JobInv
<1>7. LockInv'
  BY DEF Show, LockInv
<1>8. StatusInv'
  BY DEF Show, StatusInv
<1>9. BusyInv'
  BY DEF Show, BusyInv, SlotTypes
<1>10. DrawInv'
  BY DEF Show, DrawInv, SlotTypes
<1> QED
  BY <1>1, <1>2, <1>3, <1>4, <1>5, <1>6, <1>7, <1>8, <1>9, <1>10

LEMMA ShowKeepsFiles == ASSUME NoShort, Base, Files, Base', Show PROVE Files'
<1> USE DEF Base, Types, Files, NoShort
<1>1. DiskInv'
  BY DEF Show, DiskInv, Whole, BeingSaved
<1>2. SaveInv'
  BY DEF Show, SaveInv
<1>3. ValidInv'
  BY DEF Show, ValidInv, SlotTypes
<1>4. TimeInv'
  BY DEF Show, TimeInv
<1>5. UnloadInv'
  BY DEF Show, UnloadInv, IsLast
<1>6. LeftInv'
  BY DEF Show, LeftInv, IsLast, HistoryTypes
<1> QED
  BY <1>1, <1>2, <1>3, <1>4, <1>5, <1>6

LEMMA RenderKeepsBase == ASSUME NoOverlap, Base, Render PROVE Base'
<1> USE DEF Base, Types, NoOverlap
<1>1. disk' \in [Games -> [Slots -> Card]]
  BY DEF Render
<1>2. job' \in [Threads -> Job]
  BY DEF Render, Stays, Moves, Starts
<1>3. PlainTypes'
  BY DEF Render, Release, PlainTypes
<1>4. SlotTypes'
  BY DEF Render, Release, SlotTypes
<1>5. HistoryTypes'
  BY DEF Render, Release, HistoryTypes
<1>6. JobInv'
  BY DEF Render, Release, JobInv
<1>7. LockInv'
  BY DEF Render, Release, LockInv
<1>8. StatusInv'
  BY DEF Render, Release, StatusInv
<1>9. BusyInv'
  BY DEF Render, Release, BusyInv, SlotTypes
<1>10. DrawInv'
  BY DEF Render, Release, DrawInv, SlotTypes
<1> QED
  BY <1>1, <1>2, <1>3, <1>4, <1>5, <1>6, <1>7, <1>8, <1>9, <1>10

LEMMA RenderKeepsFiles == ASSUME NoShort, Base, Files, Base', Render PROVE Files'
<1> USE DEF Base, Types, Files, NoShort
<1>1. DiskInv'
  BY DEF Render, Release, DiskInv, Whole, BeingSaved
<1>2. SaveInv'
  BY DEF Render, Release, SaveInv
<1>3. ValidInv'
  BY DEF Render, Release, ValidInv, SlotTypes
<1>4. TimeInv'
  BY DEF Render, Release, TimeInv
<1>5. UnloadInv'
  BY DEF Render, Release, UnloadInv, IsLast
<1>6. LeftInv'
  BY DEF Render, Release, LeftInv, IsLast, HistoryTypes
<1> QED
  BY <1>1, <1>2, <1>3, <1>4, <1>5, <1>6

LEMMA CrashIs ==
    ASSUME Base, Crash
    PROVE  /\ job' \in [Threads -> Job]
           /\ \A t \in Threads : job'[t].at = "idle" /\ job'[t].what = "none"
<1>1. Idle \in Job /\ Idle.at = "idle" /\ Idle.what = "none" /\ Idle.slot = 0
  BY Constants DEF Idle, Job, Ats, Whats
<1> QED
  BY <1>1 DEF Crash

LEMMA CrashKeepsBase == ASSUME NoOverlap, Base, Crash PROVE Base'
<1>1. /\ job' \in [Threads -> Job]
      /\ \A t \in Threads : job'[t].at = "idle" /\ job'[t].what = "none"
  BY CrashIs
<1> USE DEF Base, Types, NoOverlap
<1>2. \A g \in Games : {Slot(t) : t \in {t \in Threads : /\ job[t].game = g /\ job[t].over
                                                   /\ job[t].at \in {"write", "shot"}}} \subseteq Slots
  BY DEF Types, Job
<1>3. disk' \in [Games -> [Slots -> Card]]
  BY DEF Crash, Puts
<1>4. job' \in [Threads -> Job]
  BY <1>1, <1>2 DEF Crash, Stays, Moves, Starts
<1>5. PlainTypes'
  BY Constants, <1>1, <1>2 DEF Crash, PlainTypes
<1>6. SlotTypes'
  BY <1>2 DEF Crash, SlotTypes
<1>7. HistoryTypes'
  BY <1>2 DEF Crash, HistoryTypes
<1>8. JobInv'
  BY DEF Crash, JobInv
<1>9. LockInv'
  BY DEF Crash, LockInv
<1>10. StatusInv'
  BY DEF Crash, StatusInv
<1>11. BusyInv'
  BY DEF Crash, BusyInv, SlotTypes
<1>12. DrawInv'
  BY DEF Crash, DrawInv, SlotTypes
<1> QED
  BY <1>3, <1>4, <1>5, <1>6, <1>7, <1>8, <1>9, <1>10, <1>11, <1>12

LEMMA CrashKeepsFiles == ASSUME NoShort, Base, Files, Base', Crash PROVE Files'
<1>1. /\ job' \in [Threads -> Job]
      /\ \A t \in Threads : job'[t].at = "idle" /\ job'[t].what = "none"
  BY CrashIs
<1> USE DEF Base, Types, Files, NoShort
<1>2. DiskInv'
  <2> SUFFICES ASSUME NEW g \in Games, NEW s \in Slots
               PROVE  s \in hit'[g] \/ Whole(disk[g][s])
    BY DEF Crash, DiskInv, Whole
  <2>1. \A o \in hit[g] : o \in hit'[g]
    BY DEF Crash
  <2>2. CASE BeingSaved(g, s)
    <3>1. PICK t \in Threads : job[t].at \in {"write", "shot"} /\ job[t].slot = s /\ job[t].game = g
      BY <2>2 DEF BeingSaved
    <3>2. game = g
      BY <3>1 DEF BusyInv
    <3>3. CASE job[t].over
      <4>1. t \in {u \in Threads : job[u].game = g /\ job[u].over /\ job[u].at \in {"write", "shot"}}
        BY <3>1, <3>3
      <4> QED
        BY <3>1, <4>1 DEF Crash
    <3>4. CASE ~job[t].over
      BY <3>1, <3>2, <3>4 DEF SaveInv, Whole
    <3> QED
      BY <3>3, <3>4
  <2> QED
    BY <2>1, <2>2 DEF DiskInv
<1>3. SaveInv'
  BY DEF Crash, SaveInv
<1>4. ValidInv'
  BY DEF Crash, ValidInv, SlotTypes
<1>5. TimeInv'
  BY DEF Crash, TimeInv
<1>6. UnloadInv'
  BY DEF Crash, UnloadInv
<1>7. LeftInv'
  BY Constants, <1>1 DEF Crash, LeftInv, IsLast, HistoryTypes
<1> QED
  BY <1>2, <1>3, <1>4, <1>5, <1>6, <1>7

-----------------------------------------------------------------------------
\* The invariant of the jobs, locks and drawing: at first, and over each step.
LEMMA InitBase == ASSUME Init PROVE Base
<1>1. Idle \in Job /\ Idle.at = "idle" /\ Idle.what = "none" /\ NoFiles \in Card
  BY Constants DEF Idle, Job, NoFiles, Card
<1>2. job \in [Threads -> Job] /\ disk \in [Games -> [Slots -> Card]]
  BY <1>1 DEF Init
<1>3. PlainTypes /\ SlotTypes /\ HistoryTypes
  <2>1. 0 \in 0 .. MaxClock /\ 0 \in Frame
    BY Constants
  <2>2. PlainTypes
    BY <2>1 DEF Init, PlainTypes
  <2>3. SlotTypes
    BY DEF Init, SlotTypes
  <2>4. HistoryTypes
    BY DEF Init, HistoryTypes
  <2> QED
    BY <2>2, <2>3, <2>4
<1>4. \A t \in Threads : job[t].at = "idle" /\ job[t].what = "none"
  BY <1>1 DEF Init
<1>5. JobInv /\ LockInv /\ StatusInv /\ BusyInv /\ DrawInv
  BY Constants, <1>4 DEF Init, JobInv, LockInv, StatusInv, BusyInv, DrawInv
<1> QED
  BY <1>2, <1>3, <1>5 DEF Base, Types

LEMMA SaveBase == ASSUME NoOverlap, Base, NEW t \in Threads, SaveStep(t) PROVE Base'
  BY BeginSaveKeepsBase, SerializeKeepsBase, OpenKeepsBase, WriteKeepsBase, ShotKeepsBase, JpegKeepsBase, FreeTextureKeepsBase, LoadTextureKeepsBase, SavedKeepsBase DEF SaveStep

LEMMA JobBase == ASSUME NoOverlap, Base, NEW t \in Threads, JobStep(t) PROVE Base'
  BY SaveBase, LockEmulatorKeepsBase, LoadKeepsBase, EndKeepsBase, RemoveBinKeepsBase, RemoveImageKeepsBase, RemoveTextureKeepsBase DEF JobStep

LEMMA UserBase == ASSUME NoOverlap, Base, User PROVE Base'
  BY MenuButtonKeepsBase, ResumeKeepsBase, HotkeyKeepsBase, UnloadGameKeepsBase, SaveEmptyKeepsBase, PopupKeepsBase, LoadRomKeepsBase DEF User

LEMMA NextBase == ASSUME NoOverlap, Base, [Next]_vars PROVE Base'
<1>1. CASE User
  BY <1>1, UserBase
<1>2. CASE \E t \in Threads : JobStep(t)
  BY <1>2, JobBase
<1>3. CASE Notice
  BY <1>3, NoticeKeepsBase
<1>4. CASE RunGame
  BY <1>4, RunGameKeepsBase
<1>5. CASE BootStep
  BY <1>5, InitSlotsKeepsBase, BootKeepsBase, AutoLoadKeepsBase, FrameEndsKeepsBase DEF BootStep
<1>6. CASE DrawStep
  BY <1>6, LookKeepsBase, LockToDrawKeepsBase, ShowKeepsBase, RenderKeepsBase DEF DrawStep
<1>7. CASE Tick
  BY <1>7, TickKeepsBase
<1>8. CASE Crash
  BY <1>8, CrashKeepsBase
<1>9. CASE UNCHANGED vars
  BY <1>9 DEF vars, Base, Types, PlainTypes, SlotTypes, HistoryTypes, JobInv, LockInv,
     StatusInv, BusyInv, DrawInv
<1> QED
  BY <1>1, <1>2, <1>3, <1>4, <1>5, <1>6, <1>7, <1>8, <1>9 DEF Next

\* The invariant of the files.
LEMMA InitFiles == ASSUME Init PROVE Files
<1>1. \A t \in Threads : job[t].at = "idle" /\ job[t].what = "none"
  BY DEF Init, Idle
<1>2. \A g \in Games, s \in Slots :
         disk[g][s].bin = None /\ disk[g][s].img = None /\ disk[g][s].time = 0
  BY DEF Init, NoFiles
<1>3. DiskInv /\ SaveInv /\ ValidInv /\ TimeInv
  BY Constants, <1>1, <1>2 DEF Init, DiskInv, Whole, SaveInv, ValidInv, TimeInv
<1>4. UnloadInv /\ LeftInv
  BY <1>1 DEF Init, UnloadInv, LeftInv
<1> QED
  BY <1>3, <1>4 DEF Files

LEMMA SaveFiles == ASSUME NoShort, Base, Files, Base', NEW t \in Threads, SaveStep(t) PROVE Files'
  BY BeginSaveKeepsFiles, SerializeKeepsFiles, OpenKeepsFiles, WriteKeepsFiles, ShotKeepsFiles, JpegKeepsFiles, FreeTextureKeepsFiles, LoadTextureKeepsFiles, SavedKeepsFiles DEF SaveStep

LEMMA JobFiles == ASSUME NoShort, Base, Files, Base', NEW t \in Threads, JobStep(t) PROVE Files'
  BY SaveFiles, LockEmulatorKeepsFiles, LoadKeepsFiles, EndKeepsFiles, RemoveBinKeepsFiles, RemoveImageKeepsFiles, RemoveTextureKeepsFiles DEF JobStep

LEMMA UserFiles == ASSUME NoShort, Base, Files, Base', User PROVE Files'
  BY MenuButtonKeepsFiles, ResumeKeepsFiles, HotkeyKeepsFiles, UnloadGameKeepsFiles, SaveEmptyKeepsFiles, PopupKeepsFiles, LoadRomKeepsFiles DEF User

LEMMA NextFiles == ASSUME NoShort, Base, Files, Base', [Next]_vars PROVE Files'
<1>1. CASE User
  BY <1>1, UserFiles
<1>2. CASE \E t \in Threads : JobStep(t)
  BY <1>2, JobFiles
<1>3. CASE Notice
  BY <1>3, NoticeKeepsFiles
<1>4. CASE RunGame
  BY <1>4, RunGameKeepsFiles
<1>5. CASE BootStep
  BY <1>5, InitSlotsKeepsFiles, BootKeepsFiles, AutoLoadKeepsFiles, FrameEndsKeepsFiles DEF BootStep
<1>6. CASE DrawStep
  BY <1>6, LookKeepsFiles, LockToDrawKeepsFiles, ShowKeepsFiles, RenderKeepsFiles DEF DrawStep
<1>7. CASE Tick
  BY <1>7, TickKeepsFiles
<1>8. CASE Crash
  BY <1>8, CrashKeepsFiles
<1>9. CASE UNCHANGED vars
  BY <1>9 DEF vars, Files, DiskInv, BeingSaved, Whole, SaveInv, ValidInv, TimeInv,
     UnloadInv, LeftInv, IsLast
<1> QED
  BY <1>1, <1>2, <1>3, <1>4, <1>5, <1>6, <1>7, <1>8, <1>9 DEF Next
-----------------------------------------------------------------------------
\* A state's picture that the draw thread shows has been shown for the last time
\* before CoreState::Save deletes it: when the user lets the menu button's save
\* end before using the menu, ImGui::Render reads no deleted texture.
THEOREM DrawnSlotsAreLive ==
    ASSUME ~Overlaps
    PROVE  Spec => []DrawsLiveSlots
<1>1. NoOverlap
  BY DEF NoOverlap
<1>2. Init => Base
  BY InitBase
<1>3. Base /\ [Next]_vars => Base'
  BY <1>1, NextBase
<1>4. Base => DrawsLiveSlots
  BY DEF Base, DrawInv, DrawsLiveSlots
<1> QED
  BY <1>2, <1>3, <1>4, PTL DEF Spec

\* The invariant of the files, along every behaviour in which writes are whole.
LEMMA FilesHold ==
    ASSUME ~Overlaps, "short" \notin Faults
    PROVE  Spec => [](Base /\ Files)
<1>1. NoOverlap /\ NoShort
  BY DEF NoOverlap, NoShort
<1>2. Init => Base /\ Files
  BY InitBase, InitFiles
<1>3. Base /\ Files /\ [Next]_vars => Base' /\ Files'
  BY <1>1, NextBase, NextFiles
<1> QED
  BY <1>2, <1>3, PTL DEF Spec

\* A slot the menu offers has the state and the picture of one moment, and shows
\* that picture, whatever is saved, loaded, removed or left in between, and after
\* a crash in any step of a save but the one that cuts a file (which hit names).
THEOREM ValidSlotsAreWhole ==
    ASSUME ~Overlaps, "short" \notin Faults
    PROVE  Spec => []SlotsAreWhole
<1>1. Base /\ Files => SlotsAreWhole
  <2> SUFFICES ASSUME Base, Files, game # None, job["main"].at # "init",
                      NEW s \in Slots, valid[s], s \notin hit[game]
               PROVE  LET files == disk[game][s] IN
                      /\ files.bin \in Frame
                      /\ files.img \in {Torn, files.bin}
                      /\ tex[s] = Picture(files.img)
    BY DEF SlotsAreWhole
  <2>1. game \in Games
    BY DEF Base, Types, PlainTypes
  <2>2. /\ disk[game][s].bin # None /\ disk[game][s].img # None
        /\ tex[s] = Picture(disk[game][s].img)
    BY DEF Files, ValidInv
  <2>3. ~BeingSaved(game, s)
    BY DEF BeingSaved, Base, BusyInv
  <2> QED
    BY <2>1, <2>2, <2>3 DEF Files, DiskInv, Whole
<1> QED
  BY <1>1, FilesHold, PTL

\* Who else moves while the main thread looks for the newest state of the game.
LEMMA JobStepIs ==
    ASSUME NoOverlap, Base, NEW t \in Threads, JobStep(t)
    PROVE  job[t].at # "newest" /\ \A u \in Threads : u # t => job'[u] = job[u]
<1>1. ASSUME SaveStep(t)
      PROVE  job[t].at # "newest" /\ \A u \in Threads : u # t => job'[u] = job[u]
  BY <1>1, BeginSaveIs, SerializeIs, OpenIs, WriteIs, ShotIs, JpegIs, FreeTextureIs,
     LoadTextureIs, SavedIs
     DEF SaveStep, BeginSave, Serialize, Open, Write, Shot, Jpeg, FreeTexture, LoadTexture, Saved,
         Moves, Stays
<1>2. CASE LockEmulator(t) \/ Load(t) \/ End(t) \/ RemoveBin(t) \/ RemoveImage(t) \/ RemoveTexture(t)
  BY <1>2, LockEmulatorIs, LoadIs, EndIs, RemoveBinIs, RemoveImageIs, RemoveTextureIs
     DEF LockEmulator, Load, End, RemoveBin, RemoveImage, RemoveTexture, Moves, Stays, Starts
<1> QED
  BY <1>1, <1>2 DEF JobStep

LEMMA UserIs ==
    ASSUME Base, User, job["main"].at = "newest"
    PROVE  job'["main"] = job["main"]
<1>1. CASE MenuButton \/ Resume \/ \E what \in {"save", "load"} : Hotkey(what)
  BY <1>1, MenuButtonIs, HotkeyIs DEF MenuButton, Resume, Hotkey, Starts
<1>2. CASE \E t \in Threads : UnloadGame(t)
  BY <1>2, UnloadGameIs DEF UnloadGame, Starts
<1>3. CASE (\E s \in Slots : SaveEmpty(s) \/ Popup(s)) \/ \E g \in Games : LoadRom(g)
  BY <1>3 DEF SaveEmpty, Popup, InMenu, LoadRom
<1> QED
  BY <1>1, <1>2, <1>3 DEF User

\* The newest slot is the automatic one: none is newer, and of two of the same
\* second the loop over the slots keeps the first.
LEMMA AutoLoadLoads ==
    ASSUME Base, Files, AutoLoad, left[game] # None
    PROVE  core' = left[game]
<1>1. game \in Games /\ left[game] \in Frame
  BY DEF AutoLoad, Base, Types, HistoryTypes, JobInv, StatusInv
<1>2. valid[0] /\ IsLast(game, left[game])
  BY <1>1 DEF AutoLoad, Files, LeftInv
<1>3. PICK s \in Slots : Newest(s) /\ core' \in Unserialized(disk[game][s].bin)
  BY <1>2, Constants DEF AutoLoad
<1>4. \A o \in Slots : disk[game][o].time \in Nat
  BY <1>1, CardIs DEF Base, Types
<1>5. s = 0
  <2>1. \/ disk[game][0].time < disk[game][s].time
        \/ disk[game][0].time = disk[game][s].time /\ s <= 0
    BY <1>2, <1>3, Constants DEF Newest
  <2>2. disk[game][s].time <= disk[game][0].time
    BY <1>2 DEF IsLast
  <2>3. s \in Nat
    BY Constants
  <2> QED
    BY <1>4, <2>1, <2>2, <2>3, Constants
<1> QED
  BY <1>1, <1>2, <1>3, <1>5, Constants DEF IsLast, Unserialized

\* A game left with auto_save comes back where it was left: Emulator::LoadRom
\* loads the newest slot, and that is the state UnloadGame saved last.
THEOREM LeftGameIsResumed ==
    ASSUME ~Overlaps, "short" \notin Faults
    PROVE  Spec => ResumesWhereLeft
<1> DEFINE Resumed == At("main", "newest") /\ At("main", "frame")' /\ left[game] # None => core' = left[game]
<1>1. NoOverlap
  BY DEF NoOverlap
<1>2. ASSUME Base, Files, [Next]_vars PROVE Resumed
  <2> SUFFICES ASSUME job["main"].at = "newest", job'["main"].at = "frame", left[game] # None
               PROVE  core' = left[game]
    OBVIOUS
  <2>1. CASE User
    BY <1>2, <2>1, UserIs
  <2>2. CASE \E t \in Threads : JobStep(t)
    BY <1>1, <1>2, <2>2, JobStepIs
  <2>3. CASE Notice \/ RunGame \/ DrawStep \/ Tick \/ UNCHANGED vars
    BY <2>3 DEF Notice, RunGame, DrawStep, Look, LockToDraw, Show, Render, Tick, vars
  <2>4. CASE InitSlots \/ Boot \/ FrameEnds
    BY <2>4 DEF InitSlots, Boot, FrameEnds
  <2>5. CASE AutoLoad
    BY <1>2, <2>5, AutoLoadLoads
  <2>6. CASE Crash
    BY <1>2, <2>6, CrashIs
  <2> QED
    BY <1>2, <2>1, <2>2, <2>3, <2>4, <2>5, <2>6 DEF Next, BootStep
<1>3. Base /\ Files /\ [Next]_vars => [Resumed]_vars
  BY <1>2
<1> QED
  BY <1>3, FilesHold, PTL DEF Spec, ResumesWhereLeft
=============================================================================

