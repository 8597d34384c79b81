--------------------------------- MODULE Parts ---------------------------------
(* The parts of the application that share nothing but the status, each for  *)
(* itself: a behaviour is one of one part, so that a single run checks each  *)
(* of them in all its states.                                                *)
EXTENDS Naturals, Sequences, FiniteSets

CONSTANTS
    None,
    Thread,                 \* threads of the browser, see BrowserPicture and RomNames
    Name, Dir,              \* Favorites
    Entry, Folder, Texture, \* BrowserPicture
    Path, Slot(_), SaveAfter, MaxVersion, Lists,                    \* RomNames, Playlists
    Image,                  \* MenuTabs
    Game,                   \* Achievements
    Tuned, Value, Offer, Vary,                                      \* Settings
    Archived, Solid, Arcade, Called(_), MaxSize, MaxFiles,          \* Caches
    Rate, Exact, InSize, OutSize,                                   \* AudioPipe
    Table, Memory, Base,    \* Cheats
    Rows, Cores(_),         \* Launcher
    Plain, Locks, Modifier, BitOf(_)                                \* Keyboard

\* Nothing is called None, rates and bounds are numbers, and the output's ring
\* holds the longest latency.
ASSUME PicAssumption == Entry # {} /\ None \notin Texture
ASSUME AudioAssumption == Rate \subseteq Nat /\ InSize \in Nat /\ OutSize \in Nat /\ OutSize >= 2
ASSUME RaAssumption == None \notin Game
Maps == UNION { [names -> Dir] : names \in SUBSET Name }
ASSUME FavAssumption == IsFiniteSet(Name) /\ None \notin Maps
Offers == UNION { { Offer[v][i] : i \in DOMAIN Offer[v] } : v \in DOMAIN Offer }
ASSUME NamesAssumption ==
    None \notin Path \X Nat /\ {MaxVersion, SaveAfter} \subseteq Nat /\ Lists \in Seq(SUBSET Path)

VARIABLES part,     \* which one this behaviour is of
          state     \* its record

F == INSTANCE Favorites WITH fav <- state
P == INSTANCE BrowserPicture WITH pic <- state
N == INSTANCE RomNames WITH names <- state
Y == INSTANCE Playlists WITH lpls <- state
M == INSTANCE MenuTabs WITH menu <- state
S == INSTANCE Settings WITH cfg <- state, Game <- Tuned
C == INSTANCE Caches WITH rom <- state
A == INSTANCE AudioPipe WITH audio <- state
R == INSTANCE Achievements WITH ra <- state
H == INSTANCE Cheats WITH cheat <- state
L == INSTANCE Launcher WITH arch <- state
K == INSTANCE Keyboard WITH kbd <- state

\* What a file of the settings holds, whole or cut.  Every version of a core
\* offers something.
Words == Offers \cup {None, S!Unset, S!Garbled}
Files == [plain : Value \cup {0}, option : Words, device : Words, own : BOOLEAN,
          by : S!Version \cup {None}, whole : {TRUE}] \cup [own : BOOLEAN, whole : {FALSE}]
ASSUME CfgAssumption ==
    /\ None \notin S!Rom \cup Offers /\ None \notin S!Version /\ None \notin Files
    /\ S!EmptyRom \notin Tuned /\ \A v \in S!Version : 1 \in DOMAIN Offer[v]

\* Bytes have at least two values.
ASSUME CheatAssumption ==
    /\ None \notin DOMAIN Table /\ Memory \in Nat /\ Base \in Nat \ {0, 1}
    /\ \A g \in DOMAIN Table :
          /\ Table[g] \in Seq({ Table[g][i] : i \in DOMAIN Table[g] })
          /\ \A i \in DOMAIN Table[g] : Table[g][i].kind # "code" =>
                LET c == Table[g][i]
                IN /\ c.kind \in {"set", "increase"} \cup H!Conditions
                   /\ {c.address, c.value, c.add, c.step, c.count} \subseteq Nat
                   /\ c.width \in Nat \ {0}
\* The two caches are directories of their own, and only archives have blocks.
ASSUME RomAssumption ==
    /\ Solid \subseteq Archived /\ {MaxSize, MaxFiles} \subseteq Nat /\ None \notin Archived \cup Arcade
    /\ Archived \cap Arcade = {} /\ \A g \in Arcade : Called(g) \notin Archived
\* There is a row of consoles, none is empty, and each console has a core.
ASSUME LaunchAssumption ==
    /\ Rows \in Seq(Seq(L!Console) \ {<<>>}) \ {<<>>}
    /\ \A c \in L!Console : Cores(c) \in Seq(L!ToSet(Cores(c))) \ {<<>>}
\* A game has a first disk, and no disk tab and no owner of a key is called None.
ASSUME MenuAssumption ==
    /\ 0 \in Image /\ None \notin [marked : SUBSET Image, current : Image]
    /\ None \notin M!Tab \cup M!Widget \cup {"ui", "boot", M!Freed}

Init == \/ part = "favorites" /\ F!Init
        \/ part = "picture" /\ P!Init
        \/ part = "names" /\ N!Init
        \/ part = "playlists" /\ Y!Init
        \/ part = "menu" /\ M!Init
        \/ part = "settings" /\ S!Init
        \/ part = "caches" /\ C!Init
        \/ part = "audio" /\ A!Init
        \/ part = "achievements" /\ R!Init
        \/ part = "cheats" /\ H!Init
        \/ part = "launcher" /\ L!Init
        \/ part = "keyboard" /\ K!Init

Next == /\ UNCHANGED part
        /\ \/ part = "favorites" /\ F!Next
           \/ part = "picture" /\ P!Next
           \/ part = "names" /\ N!Next
           \/ part = "playlists" /\ Y!Next
           \/ part = "menu" /\ M!Next
           \/ part = "settings" /\ S!Next
           \/ part = "caches" /\ C!Next
           \/ part = "audio" /\ A!Next
           \/ part = "achievements" /\ R!Next
           \/ part = "cheats" /\ H!Next
           \/ part = "launcher" /\ L!Next
           \/ part = "keyboard" /\ K!Next

vars == <<part, state>>
Spec == Init /\ [][Next]_vars
-----------------------------------------------------------------------------
(* The records have their types.  The favourites tab never reads past the  *)
(* end of its map (TabFavorite::_Show), an option checked against what this*)
(* version of the core offers is one of it (CoreOptions::_Load), and a core*)
(* is told of all keys but those hiding the keyboard lets go               *)
(* (Keyboard::_OnKeyDown, _OnKeyUp).                                       *)
TypeOK ==
    CASE part = "favorites" -> F!TypeOK /\ F!UsesEntry
      [] part = "picture" -> P!TypeOK
      [] part = "names" -> N!TypeOK
      [] part = "playlists" -> Y!TypeOK
      [] part = "menu" -> M!TypeOK
      [] part = "settings" -> S!TypeOK /\ S!ChosenIsOffered
      [] part = "caches" -> C!TypeOK
      [] part = "audio" -> A!TypeOK
      [] part = "achievements" -> R!TypeOK
      [] part = "cheats" -> H!TypeOK
      [] part = "launcher" -> L!TypeOK
      [] part = "keyboard" -> K!TypeOK /\ K!CoreHearsKeys

(* A restart finds the favourites that were shown, but for an end or a     *)
(* failure amid a save, which loses the list (Favorites::Save).            *)
ShownIsSaved == part = "favorites" => F!ShownIsSaved

(* No texture of the browser's leaks or is drawn after it was freed        *)
(* (TabBrowser::_Update, _OnItemUpdated).                                  *)
TexturesHaveOwners == part = "picture" => P!TexturesHaveOwners

(* The caches of checksums and playlists answer what the files say now, but*)
(* for a rom that could not be read and a playlist's cache that was cut    *)
(* (Crc32Cache::Get, RetroArchPlaylists::Load).                            *)
CachesAreCurrent ==
    [][/\ part = "names" => N!HitsAreCurrent
       /\ part = "playlists" => Y!LabelsAreCurrent]_vars

(* Enter goes to the tab or dialog that is shown, and to no other, however *)
(* tabs are turned, rebuilt and hidden (Ui::OnStatusChanged); and the disk *)
(* the menu marks is the one that is in, if the core answers as it does    *)
(* (TabDisk::_InsertCallback, DiskControl::ReplaceImageIndex).             *)
EnterIsTheShownOnes == part = "menu" => M!EnterIsTheShownOnes /\ M!OneDiskIn

(* A game keeps its own settings (Config::Save, Load, Emulator::LoadRom).  *)
OwnSettings == part = "settings" => S!OwnSettings

(* The core goes by the options the menu shows (CoreOptions, ItemCore).    *)
CoreUsesShown == part = "settings" => S!CoreUsesShown

(* What a game is read from is whole (CacheManager, ArchiveManager).       *)
LoadsWholeGames == part = "caches" => C!LoadsWholeGames

(* No thread of the audio waits for what is there (AudioOutput,            *)
(* AudioResampler).                                                        *)
NobodyWaitsInVain == part = "audio" => A!NobodyWaitsInVain

(* The achievements in the menu are the loaded game's                      *)
(* (RetroAchievements::_LoadGameCallback, UnloadGame), and no note is drawn*)
(* with a picture the cache has freed (TextureCache::Clear).               *)
ShownAreTheGames == part = "achievements" => R!ShownAreTheGames /\ R!PicturesAreThere

(* Cheats write only to the memory of the game that is loaded, and within  *)
(* its bounds if they begin there (Cheat::_ApplyRetro), and while one is   *)
(* switched on the thread that applies them does not sleep                 *)
(* (Cheats::_CheatThread).                                                 *)
StaysInItsMemory == part = "cheats" => H!StaysInItsMemory /\ H!EnabledAreApplied

(* The launcher's index is that of a button, whatever is hidden, and a core *)
(* that ends finds its console selected (App::_OnKeyStart,                 *)
(* _RestoreLastCore).                                                      *)
SelectedIsShown == part = "launcher" => L!SelectedIsShown
=============================================================================
