-------------------------------- MODULE MenuTabs --------------------------------
(***************************************************************************)
(* The user interface (ui.cpp): its tabs, what opens over them, and the    *)
(* table of key callbacks they share.  A tab enters its callbacks key by   *)
(* key and takes out its own; what opens pushes the table and pops it.     *)
(* The main thread calls them, and after a change of the status arranges   *)
(* tabs and callbacks anew (OnStatusChanged); the emulator's input thread  *)
(* changes the status, the core replaces tabs while a game is loaded, and  *)
(* the draw thread hides the tab of no favourites and ends the pad's test. *)
(*                                                                         *)
(* Assumed: the main thread sees each status before the next is set, a     *)
(* frame is drawn between two keys, the text dialog opens, the exit hotkey *)
(* is not pressed while something is open, and a core has one number of    *)
(* disks while its game runs and starts with one of them in.               *)
(***************************************************************************)
EXTENDS Naturals, Sequences, FiniteSets

CONSTANTS Image,    \* the disks of a game that has several
          None

VARIABLE menu
(* menu.status, menu.seen: gStatus, and last_status of the main loop       *)
(* menu.cur: _tab_index; menu.shown: the tabs that are there and visible   *)
(* menu.keys: whose callback is bound to a key; menu.levels: the tables    *)
(*   pushed, each with what pushed it; menu.open: what is open             *)
(* menu.multi: the game has several disks; menu.image: the one the core    *)
(*   has in; menu.disk: the disk tab, the items marked and _current_index  *)
(* menu.amiss: history, since the disk tab was made, and the last disk that*)
(*   went in, the core answered yes and kept the disk or no and took it    *)
(* menu.favs: there are favourites; menu.crash: a tab that is not there    *)
(*   was called                                                            *)

Order == <<"system", "disk", "state", "browser", "favorite", "control", "core", "options">>
Tab == { Order[i] : i \in DOMAIN Order }
\* turn: L1 and R1; hold: start pressed, start: released; square as triangle in Boot.
Key == {"turn", "menu", "enter", "cancel", "square", "select", "start", "hold"}
Widget == {"combo", "confirm", "dialog", "text", "gamepad"}
Freed == "freed"

KeysOf(o) == CASE o = "browser"  -> {"enter", "cancel", "square", "select", "start"}
               [] o = "control"  -> {"enter", "hold"}
               [] o = "boot"     -> {"enter", "cancel", "square"}
               [] o \in {"favorite", "combo", "confirm", "dialog"} -> {"enter", "cancel"}
               [] o \in {"text", "gamepad"} -> {}
               [] OTHER          -> {"enter"}

SetHooks(m, o) == [m EXCEPT !.keys = [k \in Key |-> IF k \in KeysOf(o) THEN o ELSE @[k]]]
UnsetHooks(m, o) == [m EXCEPT !.keys = [k \in Key |-> IF k \in KeysOf(o) THEN None ELSE @[k]]]

NoKeys == [k \in Key |-> None]
Push(m, w) == SetHooks([m EXCEPT !.levels = Append(@, [by |-> w, keys |-> m.keys]),
                                 !.keys = NoKeys, !.open = @ \cup {w}], w)
Pop(m, w) == LET n == Len(m.levels)
             IN [m EXCEPT !.levels = SubSeq(@, 1, n - 1), !.open = @ \ {w},
                          !.keys = IF n = 0 THEN NoKeys ELSE m.levels[n].keys]
-----------------------------------------------------------------------------
\* LOOP_MINUS_ONE and LOOP_PLUS_ONE until the tab is there and visible.
Place(t) == CHOOSE i \in DOMAIN Order : Order[i] = t
At(i) == Order[((i - 1) % Len(Order)) + 1]
Nearest(m, step) ==
    LET to(n) == At(Place(m.cur) + n * step)
    IN to(CHOOSE n \in 1 .. Len(Order) : to(n) \in m.shown /\ \A k \in 1 .. n - 1 : to(k) \notin m.shown)
Before(m) == Nearest(m, Len(Order) - 1)
After(m) == Nearest(m, 1)

TurnTo(m, t) ==
    LET gone == m.cur = "disk" /\ m.disk = None
        left == UnsetHooks(m, m.cur)
    IN SetHooks([left EXCEPT !.cur = t, !.crash = @ \/ gone], t)

SetInputHooks(m) ==
    LET turn == [m EXCEPT !.keys["turn"] = "ui"]
        there == IF m.cur \in m.shown THEN turn ELSE TurnTo(turn, Before(m))
    IN SetHooks(there, there.cur)

\* The tab is deleted and made again; UpdateCoreOptions, UpdateControllerOptions.
FreeOf(t, keys) == [k \in Key |-> IF keys[k] = t THEN Freed ELSE keys[k]]
FreeTab(m, t) ==
    LET Without(level) == [level EXCEPT !.keys = FreeOf(t, @)]
    IN [m EXCEPT !.keys = FreeOf(t, @), !.levels = [i \in DOMAIN @ |-> Without(@[i])]]

\* An operator named X_Bug is X as a plausible bug would have it; no definition
\* uses it, the checks are repeated with it to see that the properties notice.
Rebuild_Unbound(m, t) == FreeTab(m, t)
Rebuild(m, t) == IF m.cur = t THEN SetHooks(FreeTab(m, t), t) ELSE FreeTab(m, t)

NoDisk(m) == [FreeTab(m, "disk") EXCEPT !.disk = None, !.shown = @ \ {"disk"}]
UpdateDiskOptions(m) ==
    IF ~m.multi THEN NoDisk(m)
    ELSE Rebuild([m EXCEPT !.disk = [marked |-> {m.image}, current |-> m.image],
                           !.amiss = FALSE, !.shown = @ \cup {"disk"}], "disk")
-----------------------------------------------------------------------------
\* CreateTables, after a start without a rom.
Created ==
    SetInputHooks(
      [status |-> "ui", seen |-> "ui", cur |-> "browser",
       shown |-> Tab \ {"disk", "state", "favorite"}, keys |-> NoKeys, levels |-> <<>>,
       open |-> {}, multi |-> FALSE, image |-> 0, disk |-> None,
       amiss |-> FALSE, favs |-> FALSE, crash |-> FALSE])

Init == menu = Created

\* The player closes the application and starts it again, stuck or not.
Restart == menu' = Created

\* App::Run and Ui::OnStatusChanged; while a game runs the menu is left as it is.
Arranged(m, state) ==
    LET inGame == m.status = "menu"
        disk == IF m.multi = (m.disk # None) THEN m
                ELSE IF m.multi THEN UpdateDiskOptions(m) ELSE NoDisk(m)
        shown == (disk.shown \ {"state", "browser", "favorite"})
                   \cup (IF inGame THEN (IF state THEN {"state"} ELSE {})
                                   ELSE {"browser", "favorite"})
    IN [disk EXCEPT !.shown = shown,
                    !.cur = IF inGame THEN @ ELSE "browser",
                    !.keys["menu"] = IF inGame THEN "ui" ELSE None]

OnStatusChanged(m, state) ==
    IF m.status \in {"ui", "menu"} THEN SetInputHooks(Arranged(m, state)) ELSE m

Observe ==
    /\ menu.status # menu.seen
    /\ \E state \in BOOLEAN :   \* FALSE: in hardcore mode
          menu' = OnStatusChanged([menu EXCEPT !.seen = menu.status], state)

\* The draw thread, Ui::_ShowNormal.
DrawDue == menu.seen \in {"ui", "menu"} /\ ("favorite" \in menu.shown) # menu.favs
Draw ==
    /\ menu.status = menu.seen /\ DrawDue
    /\ LET m == [menu EXCEPT !.shown = IF menu.favs THEN @ \cup {"favorite"} ELSE @ \ {"favorite"}]
       IN menu' = IF ~m.favs /\ m.cur = "favorite" THEN TurnTo(m, Before(m)) ELSE m

\* The emulator's input thread: the menu's button, and the exit hotkey.
OnPsButton == menu.status = "run" /\ menu.seen = "run" /\ menu' = [menu EXCEPT !.status = "menu"]

Unloaded(m) == [m EXCEPT !.status = "ui", !.multi = FALSE]
OnHotkeyExitGame ==
    /\ menu.status \in {"run", "menu"} /\ menu.seen = menu.status /\ menu.levels = <<>>
    /\ menu' = Unloaded(menu)

\* The core, in a frame of the game.
CoreRebuilds ==
    /\ menu.status = "run" /\ menu.seen = "run"
    /\ \E t \in {"core", "control"} : menu' = Rebuild(menu, t)
-----------------------------------------------------------------------------
\* Emulator::LoadRom in the callback of a key of tab t, and NotifyBootResult.
\* The player may open the menu before it ends; a core that says no has logged
\* something, or not, or the file was not there.  A game that was loaded is not
\* unloaded first: the favourites are offered in the menu of a game too.
Loads(t) ==
    LET built == {menu} \cup { Rebuild(menu, o) : o \in {"core", "control"} }
        Started(m, multi, s) ==
            LET d == [m EXCEPT !.multi = multi, !.image = 0, !.status = s]
            IN [(IF multi THEN UpdateDiskOptions(d) ELSE d) EXCEPT !.cur = "state"]
        \* TabBrowser looks at the status again, the others do not.
        Leave(m) == IF t = "browser" /\ m.status # "run" THEN m ELSE UnsetHooks(m, t)
    IN \/ \E m \in built, multi \in BOOLEAN, s \in {"run", "menu"} :
            /\ s # menu.seen
            /\ menu' = Leave(Started(m, multi, s))
       \/ \E m \in built : menu' = SetHooks([m EXCEPT !.status = "boot"], "boot")
       \/ menu' = [menu EXCEPT !.status = "ui"]
       \/ UNCHANGED menu

Polled == menu.seen \in {"boot", "ui", "menu"} /\ menu.status = menu.seen /\ ~DrawDue
Pressed(k, o) == Polled /\ menu.keys[k] = o

Turn == /\ Pressed("turn", "ui")
        /\ \E t \in {Before(menu), After(menu)} : menu' = TurnTo(menu, t)

OnMenuKey == Pressed("menu", "ui") /\ menu' = [menu EXCEPT !.status = "run"]

\* Boot::_OnKey; UnsetInputHooks forgets two of its four keys.
OnBootKey == /\ \E k \in {"enter", "cancel", "square"} : Pressed(k, "boot")
             /\ menu' = [menu EXCEPT !.status = "ui", !.keys["enter"] = None, !.keys["cancel"] = None]

OnSystem ==
    /\ Pressed("enter", "system")
    /\ \/ menu' = Push(menu, "dialog")                              \* _OnCleanCache
       \/ menu.seen = "menu" /\ menu' = [menu EXCEPT !.status = "run"]   \* _ResumeGame, _ResetGame
       \/ menu.seen = "menu" /\ menu' = Unloaded(menu)                   \* _ExitGame
       \/ menu.seen # "menu" /\ Loads("system")                     \* _OnStartCore

OnBrowser == Pressed("enter", "browser") /\ Loads("browser")
OnSelect == Pressed("select", "browser") /\ menu' = Push(menu, "dialog")
OnStart == Pressed("start", "browser") /\ \E f \in BOOLEAN : menu' = [menu EXCEPT !.favs = f]
OnFavorite == Pressed("enter", "favorite") /\ Loads("favorite")
OnFavoriteCross == Pressed("cancel", "favorite") /\ menu' = Push(menu, "dialog")

\* ItemConfig, ItemControl, ItemCore, ItemState: a list; or one of two at once.
OnItem ==
    /\ \E t \in {"state", "control", "core", "options"} : Pressed("enter", t)
    /\ menu' = Push(menu, "combo") \/ UNCHANGED menu
OnGroup == Pressed("enter", "core") /\ menu' = Rebuild(menu, "core")

\* _ChangeRetroArchievements: no network, or the name is asked for.
OnLogin == /\ Pressed("enter", "options")
           /\ \E w \in {"dialog", "text"} : menu' = Push(menu, w)

\* TabControl::_OnStart.
OnTest == Pressed("hold", "control") /\ menu' = Push(menu, "gamepad")

OnDisk ==
    /\ Pressed("enter", "disk")
    /\ menu.disk.marked # Image     \* ItemDisk::OnActive: not the one that is in
    /\ menu' = Push(menu, "confirm")
-----------------------------------------------------------------------------
\* Enter and cancel of what is open; for a state, the list's enter asks first.
ComboClick ==
    /\ Pressed("enter", "combo")
    /\ \/ menu.cur # "control" /\ menu' = Pop(menu, "combo")
       \/ menu.cur = "state" /\ menu' = Push(menu, "confirm")
       \/ menu.cur = "control" /\ UNCHANGED menu        \* stays open

Cancel == \E w \in Widget : Pressed("cancel", w) /\ menu' = Pop(menu, w)

DialogClick ==
    /\ Pressed("enter", "dialog")
    /\ \E f \in (IF menu.cur = "favorite" THEN BOOLEAN ELSE {menu.favs}) :
          menu' = [Pop(menu, "dialog") EXCEPT !.favs = f]

\* ItemState::_OnRun pops the list too; after a load it unsets the list's keys.
ItemStateRun(m, loads) ==
    LET done == Pop(Pop(m, "confirm"), "combo")
    IN IF loads THEN UnsetHooks([done EXCEPT !.status = "run"], "combo") ELSE done

StateConfirmed ==
    /\ Pressed("enter", "confirm") /\ menu.cur = "state"
    /\ \E loads \in BOOLEAN : menu' = ItemStateRun(menu, loads)

\* ItemDisk::_OnRun and TabDisk::_InsertCallback.
Insert(m, i) == [m EXCEPT !.disk.marked = (@ \cup {i}) \ {m.disk.current}, !.disk.current = i]

\* DiskControl::ReplaceImageIndex opens the tray, sets the disk and answers
\* whether the tray closed; whether the disk was set is looked at by nobody.
Replaced(m, i, set, closed) ==
    [m EXCEPT !.image = IF set THEN i ELSE @,
              !.amiss = IF set = closed THEN @ /\ ~set ELSE TRUE]

DiskConfirmed ==
    /\ Pressed("enter", "confirm") /\ menu.cur = "disk"
    /\ LET m == Pop(menu, "confirm")
       IN \/ menu' = m
          \/ \E i \in Image \ menu.disk.marked, set \in BOOLEAN :
                \/ menu' = Insert(Replaced(m, i, set, TRUE), i)
                \/ menu' = Replaced(m, i, set, FALSE)

\* InputTextDialog::Run; after the name comes the password.
TextInput ==
    /\ Polled /\ "text" \in menu.open
    /\ menu' = Pop(menu, "text") \/ UNCHANGED menu

\* Gamepad::Show, when its tab is the one drawn and start was held.
TestEnds ==
    /\ "gamepad" \in menu.open /\ menu.cur = "control" /\ menu.seen \in {"ui", "menu"}
    /\ menu' = Pop(menu, "gamepad")

Next ==
    \/ Observe \/ Draw \/ OnPsButton \/ OnHotkeyExitGame \/ CoreRebuilds
    \/ Turn \/ OnMenuKey \/ OnBootKey \/ OnSystem \/ OnBrowser \/ OnSelect \/ OnStart
    \/ OnFavorite \/ OnFavoriteCross \/ OnItem \/ OnGroup \/ OnLogin \/ OnTest \/ OnDisk
    \/ ComboClick \/ Cancel \/ DialogClick \/ StateConfirmed \/ DiskConfirmed
    \/ TextInput \/ TestEnds \/ Restart

Spec == Init /\ [][Next]_menu
-----------------------------------------------------------------------------
TypeOK ==
    /\ menu.status \in {"boot", "ui", "run", "menu"} /\ menu.cur \in Tab
    /\ menu.shown \subseteq Tab /\ menu.open \subseteq Widget
    /\ DOMAIN menu.keys = Key /\ Len(menu.levels) <= 2
    /\ menu.image \in Image /\ {menu.favs, menu.multi, menu.amiss, menu.crash} \subseteq BOOLEAN

(* In a menu the enter key is bound to what has the screen: what is open   *)
(* last, or else the tab shown, which is visible and alive.  No rebuilt    *)
(* tab, failed start, changed status or disappearing tab leaves it to      *)
(* another, and every table pushed has its owner open to pop it            *)
(* (Ui::SetInputHooks, OnStatusChanged, UpdateCoreOptions).                *)
EnterIsTheShownOnes ==
    /\ ~menu.crash
    /\ Polled /\ menu.seen # "boot" =>
          IF menu.levels = <<>> THEN /\ menu.cur \in menu.shown /\ menu.keys["enter"] = menu.cur
                                     /\ menu.open = {}
          ELSE LET by == menu.levels[Len(menu.levels)].by
               IN /\ menu.keys["enter"] = IF KeysOf(by) = {} THEN None ELSE by
                  /\ menu.open = { menu.levels[i].by : i \in DOMAIN menu.levels }

(* The disk tab marks one disk, the one the next insertion will eject; and *)
(* that is the one the core has in, unless the core took a disk and said it*)
(* had not, or did not and said it had (TabDisk::_InsertCallback,          *)
(* DiskControl::ReplaceImageIndex).                                        *)
OneDiskIn ==
    menu.disk # None /\ menu.multi =>
        /\ menu.disk.marked = {menu.disk.current}
        /\ ~menu.amiss => menu.disk.current = menu.image
=============================================================================
