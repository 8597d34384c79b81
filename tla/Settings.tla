-------------------------------- MODULE Settings --------------------------------
(***************************************************************************)
(* What the user sets (config.cpp), the options of the core and the kinds  *)
(* of controller among it (core_options.cpp, device_options.cpp), the file *)
(* of the core and, with independent_config, one more per game; and the    *)
(* core, which tells what it offers and asks for what was chosen           *)
(* (callbacks.cpp).  A file is removed, then written; any file may fail to *)
(* be read or written, or be cut while it is written, which nobody looks   *)
(* at.                                                                     *)
(*                                                                         *)
(* One plain setting stands for all, one option and one controller port    *)
(* for theirs; the plain one is of those the pad goes by (control_maps),   *)
(* which Emulator::SetupKeys takes over, rotated with the picture (here the*)
(* map as it is).  Left out: rewind_buf_size, which Load sets back to its  *)
(* default, and the account, which is shared with the launcher's file;     *)
(* builds that restart to load a second game.  Assumed of the core: it     *)
(* registers when it is initialized, by the newer calls, which check what  *)
(* was chosen, asks for its options when a game starts, and describes its  *)
(* buttons, which saves, in a game.                                        *)
(***************************************************************************)
EXTENDS Naturals

CONSTANTS Game, Value, None,
          Vary,     \* bound: which of "plain", "option", "device" are set together
          Offer     \* what the versions of the core offer: non-empty, default first

VARIABLE cfg
(* cfg.vary: what is set in this behaviour; files carry all the same       *)
(* cfg.plain, cfg.option, cfg.device, cfg.own: in memory; own is           *)
(*   independent_config; an option None is not there yet                   *)
(* cfg.by: history, the version whose offer option and device were checked *)
(*   against, here or before they were saved                               *)
(* cfg.file: the files, of the core (None) and of the games; from one that *)
(*   was cut anything may be read, or nothing                              *)
(* cfg.game: _current_name; cfg.version: of the core                       *)
(* cfg.inited: _inited; cfg.flag: _core_options_updated                    *)
(* cfg.used: what the core works with                                      *)
(* cfg.keys: _keys, the control map the pad goes by; cfg.port: the         *)
(*   controller the core was last told to be plugged in; both matter only  *)
(*   while a game is loaded, and are left out without one                  *)
(* cfg.step: "ui", or how far a game's start is; in a save, "save", of the *)
(*   file cfg.path, after which cfg.then goes on                           *)
(* cfg.set: history, what was last set in a game that has its own          *)
(* cfg.behind: history, what was changed in memory since the core asked for*)
(*   it or SetupKeys took it over, with nobody told                        *)

EmptyRom == "NULL"      \* EMPTY_ROM_NAME, for a core that starts without a game
Rom == Game \cup {EmptyRom}
Version == DOMAIN Offer
Offered(c) == { Offer[c.version][i] : i \in DOMAIN Offer[c.version] }
Default(c) == Offer[c.version][1]
Unset == "unset"
Told == {"options", "controls", "device"}

\* An operator named X_Bug is X as a plausible bug would have it; no definition
\* uses it, the checks are repeated with it to see that the properties notice.
PathToSave_Core(c) == None

\* _GetConfigFilePath; to load, the file has to be there.
PathToSave(c) == IF c.own THEN c.game ELSE None
PathToLoad(c) == IF c.own /\ c.file[c.game] # None THEN c.game ELSE None

Content(c) == [plain |-> c.plain, option |-> c.option, device |-> c.device, own |-> c.own,
               by |-> c.by, whole |-> TRUE]
Cut(c) == [own |-> c.own, whole |-> FALSE]
Whole(f) == f # None /\ f.whole
Lost(c, path) == IF path = None THEN c ELSE [c EXCEPT !.set[path] = None]

\* CoreOptions and DeviceOptions take over what the file says, offered or not.
Taken(c, f) == [c EXCEPT !.plain = f.plain, !.option = IF f.option = None THEN @ ELSE f.option,
                         !.device = f.device, !.own = f.own, !.by = f.by]
\* What may be read from a file that was cut, as far as it is told apart here.
\* Without its line, independent_config is FALSE.
Garbled == "garbled"
Anything(c, own) == [plain : IF "plain" \in c.vary THEN Value \cup {0} ELSE {c.plain},
                     option : {IF "option" \in c.vary THEN Garbled ELSE c.option},
                     device : {IF "device" \in c.vary THEN Garbled ELSE c.device},
                     own : {own, FALSE}, by : {None}]
Loads(c, path) ==
    LET file == c.file[path]
    IN IF file = None THEN {} ELSE { Taken(c, f) : f \in IF file.whole THEN {file} ELSE Anything(c, file.own) }
\* Load, which leaves all as it is if the file cannot be read.
Load(c, path) == Loads(c, path) \cup {Lost(c, path)}

\* CoreOptions::_Load and DeviceOptions::Load, when the core registers.
Registered(c) == [c EXCEPT !.option = IF @ \in Offered(c) THEN @ ELSE Default(c),
                           !.device = IF @ \in Offered(c) THEN @ ELSE Unset, !.by = c.version]

\* Emulator::SetupKeys; a port that is unset is left as it is.
SetupKeys(c) ==
    IF c.game = None THEN c
    ELSE [c EXCEPT !.keys = c.plain, !.behind = @ \ {"controls", "device"},
                   !.port = IF c.device \in Offered(c) THEN c.device ELSE @]

\* No game is loaded; its settings stay in force.  What the empty rom has of its
\* own is written before it is read again, and left out until then.
Unloaded(c) == [c EXCEPT !.game = None, !.step = "ui", !.used = None, !.keys = 0, !.port = Unset,
                         !.behind = {}, !.file = [p \in DOMAIN @ |-> IF p = EmptyRom THEN None ELSE @[p]]]

\* Started, or started again: the constructor, the file or, if it is not to be
\* had or start is held, the defaults, which are saved; and Emulator::Init.
Boots(c) ==
    LET fresh == [Unloaded(c) EXCEPT
                     !.plain = 0, !.option = None, !.device = Unset, !.own = FALSE, !.by = None,
                     !.inited = TRUE, !.flag = FALSE, !.path = None, !.then = "ui",
                     !.set = [g \in Rom |-> IF c.file[g] = None THEN None ELSE @[g]]]
        defaults == { [fresh EXCEPT !.file[None] = f] : f \in {Content(fresh), None, Cut(fresh)} }
    IN { Registered(read) : read \in Loads(fresh, None) \cup defaults }

Init == \E v \in Version, what \in Vary :
    cfg \in Boots([vary |-> what, plain |-> 0, option |-> None, device |-> Unset, own |-> FALSE, by |-> None,
                   game |-> None, version |-> v, inited |-> TRUE, flag |-> FALSE, used |-> None,
                   step |-> "ui", then |-> "ui", path |-> None, keys |-> 0, port |-> Unset,
                   behind |-> {}, set |-> [g \in Rom |-> None],
                   file |-> [p \in Rom \cup {None} |-> None]])

Menu == cfg.step = "ui"
\* Config::Save has removed its file, and what it is about to write there.
Saving(c, path, then) == [c EXCEPT !.file[path] = None, !.step = "save", !.path = path, !.then = then]
Save(c) == Saving(c, PathToSave(c), "ui")
Written(c, path) == {[c EXCEPT !.file[path] = Content(c)]}
                    \cup { [Lost(c, path) EXCEPT !.file[path] = f] : f \in {None, Cut(c)} }
SaveWrites ==
    /\ cfg.step = "save"
    /\ \E c \in Written(cfg, cfg.path) : cfg' = [c EXCEPT !.step = cfg.then, !.path = None, !.then = "ui"]
-----------------------------------------------------------------------------
\* What is set in a game that has its own is this game's.
Note(c) == IF c.own /\ c.game \in Game THEN [c EXCEPT !.set[c.game] = c.plain] ELSE c

\* ItemControl and ItemConfig::_OnClick; the pad takes it over first.
SetPlain == Menu /\ "plain" \in cfg.vary /\ \E v \in Value : cfg' = Save(SetupKeys(Note([cfg EXCEPT !.plain = v])))

\* Switching independent_config always saves the core's.
SetOwn == Menu /\
    LET c == [cfg EXCEPT !.own = ~@, !.set = [g \in Rom |-> IF g = cfg.game THEN None ELSE @[g]]]
    IN cfg' = Saving(c, None, "ui")

\* One of the two is chosen again; the other may be of another offer.
Chosen(c) == [c EXCEPT !.by = IF @ = c.version THEN @ ELSE None]

\* ItemCore, its click: the core is told only if a game is loaded.
SetOption_Untold == Menu /\ "option" \in cfg.vary /\ \E v \in Offered(cfg) : cfg' = Save(Chosen([cfg EXCEPT !.option = v]))
SetOption == Menu /\ "option" \in cfg.vary /\ \E v \in Offered(cfg) :
    cfg' = Save(Chosen([cfg EXCEPT !.option = v, !.flag = @ \/ cfg.game # None]))
SetDevice == Menu /\ "device" \in cfg.vary /\ \E v \in Offered(cfg) \cup {Unset} :
    cfg' = Save(SetupKeys(Chosen([cfg EXCEPT !.device = v])))

\* What the menu's reset leaves behind.
Behind(c, what) == IF c.game = None THEN c ELSE [c EXCEPT !.behind = @ \cup what]

\* Ui::_ResetCoreOptions does not tell the core.
ResetOptions == Menu /\ cfg' = Save(Behind(Chosen([cfg EXCEPT !.option = Default(cfg)]), {"options"}))

\* Ui::_ResetControl does not tell the pad; the controllers it resets are copies.
ResetControl == Menu /\ cfg' = Save(Behind(Note([cfg EXCEPT !.plain = 0]), {"controls"}))

\* The core turns its picture.
SetRotation == Menu /\ cfg.game # None /\ cfg' = SetupKeys(cfg)

\* The game's picture and pad turn with auto_rotating, which is then saved.
ChangeAutoRotating == Menu /\ cfg' = Save(SetupKeys(cfg))

\* SET_INPUT_DESCRIPTORS, in a game or while it starts.
Describe == cfg.game # None /\ cfg.step \in {"ui", "start"} /\ cfg' = Saving(cfg, PathToSave(cfg), cfg.step)

\* Emulator::LoadRom, also from a game: the core's initialization, the game's
\* settings, and its start.  For EmptyRom no settings are loaded.
LoadRom(g) == Menu /\
    LET inited == IF cfg.inited THEN cfg ELSE [Registered(cfg) EXCEPT !.inited = TRUE]
        named == [inited EXCEPT !.game = g, !.flag = IF g = EmptyRom THEN @ ELSE FALSE]
        reads == IF named.own /\ g # EmptyRom THEN Load(named, PathToLoad(named)) ELSE {named}
    IN \/ g # EmptyRom /\ cfg' \in {Unloaded(cfg), Unloaded(named)}
       \/ \E read \in reads : cfg' = [read EXCEPT !.step = "start", !.used = read.option, !.behind = {}]

LoadFails == cfg.step = "start" /\ cfg' = Unloaded(cfg)

\* The game has started: the pad, and what is kept of the game in both files.
Started == cfg.step = "start" /\
    cfg' = Saving(SetupKeys(cfg), PathToSave(cfg), IF cfg.own THEN "kept" ELSE "ui")
KeepCore == cfg.step = "kept" /\ \E c \in Load(cfg, None) : cfg' = Saving(c, None, "load")
LoadOwn == cfg.step = "load" /\
    LET path == PathToLoad(cfg)
        same == path = cfg.game /\ Whole(cfg.file[path])
    IN \/ same /\ cfg' = [Taken(cfg, cfg.file[path]) EXCEPT !.step = "ui"]
       \/ \E c \in (IF same THEN {Lost(cfg, path)} ELSE Load(cfg, path)) :
             cfg' = [Behind(c, Told) EXCEPT !.step = "ui"]

\* A frame: RETRO_ENVIRONMENT_GET_VARIABLE_UPDATE, then GET_VARIABLE.
Frame ==
    /\ Menu /\ cfg.game # None /\ cfg.flag
    /\ cfg' = [cfg EXCEPT !.flag = FALSE, !.used = cfg.option, !.behind = @ \ {"options"}]

UnloadGame == Menu /\ cfg.game # None /\ cfg' = [Unloaded(cfg) EXCEPT !.inited = FALSE]

\* ~Config saves, when nothing is loaded any more.
Restart == Menu /\ cfg.game = None /\ \E c \in Written(cfg, None) : cfg' \in Boots(c)
\* A crash, at any time; the core may be another version afterwards.  Bound: not
\* where nothing is chosen of what it offers.
Crash == \E v \in Version :
    /\ cfg.vary = {"plain"} => v = cfg.version
    /\ cfg' \in Boots([cfg EXCEPT !.version = v])

Next ==
    \/ SaveWrites \/ SetPlain \/ SetOwn \/ SetOption \/ SetDevice \/ ResetOptions
    \/ ResetControl \/ SetRotation \/ ChangeAutoRotating \/ Describe
    \/ \E g \in Rom : LoadRom(g)
    \/ LoadFails \/ Started \/ KeepCore \/ LoadOwn \/ Frame \/ UnloadGame \/ Restart \/ Crash

Spec == Init /\ [][Next]_cfg
-----------------------------------------------------------------------------
TypeOK ==
    /\ cfg.plain \in Value \cup {0} /\ cfg.game \in Rom \cup {None} /\ cfg.version \in Version
    /\ {cfg.own, cfg.flag, cfg.inited} \subseteq BOOLEAN /\ cfg.behind \subseteq Told
    /\ cfg.keys \in Value \cup {0} /\ cfg.port \in Offered(cfg) \cup {Unset}

(* A game that has settings of its own is played with what was last set in *)
(* it, whatever was played and set in between and however the application  *)
(* ended, unless its file was lost in a crash or a failed save, or could   *)
(* not be read once (LoadRom, _GetConfigFilePath).  The empty rom is no    *)
(* game: what it has of its own is never read when it starts.              *)
OwnSettings ==
    Menu /\ cfg.game \in Game /\ cfg.own /\ cfg.set[cfg.game] # None =>
        cfg.plain = cfg.set[cfg.game]

(* While a game runs the core works with the options the menu shows, once  *)
(* it was told of a change, with the controller that is plugged in, and    *)
(* the pad with the control map shown; only a reset in the menu leaves them*)
(* behind, and a start whose own file is lost, and a controller is not     *)
(* unplugged (ItemCore, RETRO_ENVIRONMENT_GET_VARIABLE_UPDATE,             *)
(* Emulator::SetupKeys).                                                   *)
CoreUsesShown ==
    Menu /\ cfg.game # None =>
        /\ ~cfg.flag /\ "options" \notin cfg.behind => cfg.used = cfg.option
        /\ "controls" \notin cfg.behind => cfg.keys = cfg.plain
        /\ "device" \notin cfg.behind /\ cfg.device \in Offered(cfg) => cfg.port = cfg.device

(* What was checked against the offer of this version of the core is in it,*)
(* through all files and games: the list of choices indexes it with the    *)
(* place of the choice (CoreOption::SetValueIndex).  A file that another   *)
(* version saved, or that was cut, is taken over unchecked by a game's     *)
(* start (Emulator::LoadRom).                                              *)
ChosenIsOffered ==
    cfg.by = cfg.version => cfg.option \in Offered(cfg) /\ cfg.device \in Offered(cfg) \cup {Unset}
=============================================================================
