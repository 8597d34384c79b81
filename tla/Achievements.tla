------------------------------ MODULE Achievements ------------------------------
(***************************************************************************)
(* RetroAchievements (retro_achievements.cpp, events.cpp): whether one is  *)
(* logged in, the achievements of the game, which the network's thread     *)
(* brings once the client has identified it, the menu's tab that points at *)
(* them, the notes on the screen (notification.cpp) and the cache their    *)
(* pictures come from (texture_cache.cpp).  The client itself, rc_client,  *)
(* is external: what it answers and which events it has is its choice.     *)
(*                                                                         *)
(* Assumed: a game that is asked for is found or the request comes to      *)
(* nothing, as _LoadGameCallback looks neither at its result nor at        *)
(* whether there is a game; and a picture comes out of the cache and into  *)
(* its note in one step, as nothing keeps the cache from being cleared     *)
(* between the two.  Left out: hardcore mode, leaderboards and challenges, *)
(* whose notes are like the others, and the memory the client reads.       *)
(***************************************************************************)
EXTENDS Naturals

CONSTANTS Game, None

VARIABLE ra
(* ra.game: the game that is loaded; ra.status, ra.looked: gStatus and what*)
(*   the main loop last saw of it                                          *)
(* ra.online, ra.session: _online, _login_session_count                    *)
(* ra.asked: the game the client was asked to identify; ra.step: where     *)
(*   _LoadGameCallback is                                                  *)
(* ra.list: whose achievements _achievements holds; ra.tab: whose the tab  *)
(*   points at, None when there are none or they are deleted               *)
(* ra.shown: the tab is visible                                           *)
(* ra.note: the notes; ra.pic: those with a picture of the cache's; and    *)
(*   ra.cache: the pictures it has                                         *)
(* ra.kept: history, a game was left while offline, with its achievements  *)
(* ra.torn: history, the tab was looked at, or a game left, amid a callback*)
(* Both are over when the tab is made anew for the game that is loaded.    *)

\* The note of the login, the game's, an achievement's and the progress of one.
Note == {"login", "game", "unlocked", "progress"}
Kind == {"none", "kept", "timed", "up"}
NoNotes == [n \in Note |-> "none"]
NeedShow == \E n \in Note : ra.note[n] # "none"

Init == ra = [game |-> None, status |-> "browser", looked |-> "browser", online |-> FALSE,
              session |-> 0, asked |-> None, step |-> "off", list |-> None, tab |-> None,
              shown |-> FALSE, note |-> NoNotes, pic |-> {}, cache |-> {},
              kept |-> FALSE, torn |-> FALSE]
-----------------------------------------------------------------------------
(* Notifications, and TextureCache::Get: a picture that is not in the      *)
(* cache is fetched, which may fail.                                       *)

Add(r, n, kind) == { [r EXCEPT !.note[n] = kind, !.pic = @ \cup {n}, !.cache = @ \cup {n}] }
                   \cup IF n \in r.cache THEN {}
                        ELSE { [r EXCEPT !.note[n] = kind, !.pic = @ \ {n}] }
\* A picture of its own, beside the cache; nobody frees it.
AddOwn(r, n, kind) == { [r EXCEPT !.note[n] = kind, !.pic = @ \ {n}] }

\* Notifications::Remove: its time is up.
Remove(r, n) == IF r.note[n] = "none" THEN r ELSE [r EXCEPT !.note[n] = "up"]
Clear(r) == [r EXCEPT !.note = NoNotes, !.pic = {}]

TimePasses == \E n \in Note : ra.note[n] = "timed" /\ ra' = [ra EXCEPT !.note[n] = "up"]

\* Notifications::Run, beside each frame: all at once, when all are up.
Run ==
    /\ ra.looked = "game" /\ NeedShow
    /\ \A n \in Note : ra.note[n] \in {"none", "up"}
    /\ ra' = Clear(ra)

\* _ClearAchievemnts: the tab is left with pointers to what is deleted.
ClearAchievements(r) == [Clear(r) EXCEPT !.list = None, !.tab = None]
-----------------------------------------------------------------------------
(* Logging in and out.                                                     *)

\* Login, LoginWithToekn: from the menu, at the start or by _RaThread.
Login == ra.session = 0 /\ ~ra.online /\ ra' = [ra EXCEPT !.session = 1]

LoginCallback ==
    /\ ra.session = 1
    /\ \/ ra' \in Add([ra EXCEPT !.session = 0, !.online = TRUE], "login", "timed")
       \/ ra' = [ra EXCEPT !.session = 0, !.online = FALSE]

\* In the menu; the client forgets its game.
Logout ==
    /\ ra.status \in {"menu", "browser"} /\ ra.online
    /\ ra.step = "off"
    /\ ra' = [ra EXCEPT !.online = FALSE, !.asked = None]
-----------------------------------------------------------------------------
(* The game: Emulator::LoadRom, UnloadGame and Reset; the menu.            *)

LoadGame(g) ==
    /\ ra.status = "browser" /\ ra.looked = "browser"
    /\ ra' = [ra EXCEPT !.game = g, !.status = "game", !.asked = IF ra.online THEN g ELSE @]

\* An operator named X_Bug is X as a plausible bug would have it; no definition
\* uses it, the checks are repeated with it to see that the properties notice.
UnloadGame_Keeps ==
    /\ ra.status \in {"game", "menu"} /\ ra.step = "off"
    /\ ra' = [ra EXCEPT !.game = None, !.status = "browser", !.asked = None,
                        !.kept = @ \/ (~ra.online /\ ra.list # None)]

\* Offline nothing is cleared.  In the midst of a callback see ra.torn.
UnloadGame ==
    /\ ra.status \in {"game", "menu"}
    /\ LET left == [ra EXCEPT !.game = None, !.status = "browser", !.torn = @ \/ ra.step # "off"]
       IN ra' = IF ra.online THEN [ClearAchievements(left) EXCEPT !.asked = None]
                ELSE [left EXCEPT !.kept = @ \/ ra.list # None]

Toggle == \/ ra.status = "game" /\ ra' = [ra EXCEPT !.status = "menu"]
          \/ ra.status = "menu" /\ ra' = [ra EXCEPT !.status = "game"]

\* In the browser, when no note is left.
ClearTextureCache(r) == IF \A n \in Note : r.note[n] = "none" THEN [r EXCEPT !.cache = {}] ELSE r

\* App::Run sees the status; Ui::OnStatusChanged then shows the tab or not.
Look ==
    /\ ra.looked # ra.status
    /\ LET r == [ra EXCEPT !.looked = ra.status, !.shown = ra.status = "menu" /\ ra.list # None,
                           !.torn = @ \/ (ra.status = "menu" /\ ra.step # "off")]
       IN ra' = IF ra.status = "browser" THEN ClearTextureCache(r) ELSE r
-----------------------------------------------------------------------------
(* _LoadGameCallback, on the network's thread.                             *)

CallbackClears ==
    /\ ra.asked # None /\ ra.step = "off" /\ ra.online
    /\ ra' \in Add([ClearAchievements(ra) EXCEPT !.step = "fill"], "game", "timed")

\* No achievements to process, or _UpdateAchievemnts.
CallbackFills ==
    /\ ra.step = "fill"
    /\ \/ ra' = [ra EXCEPT !.step = "off", !.asked = None]
       \/ ra.asked # None /\ ra' = [ra EXCEPT !.step = "tab", !.list = ra.asked]

\* Ui::UpdateAchievements: a new tab, and a new tab is visible.
CallbackMakesTab ==
    /\ ra.step = "tab"
    /\ ra' = [ra EXCEPT !.step = "off", !.tab = ra.list, !.shown = TRUE, !.asked = None,
                        !.kept = @ /\ ra.list # ra.game, !.torn = @ /\ ra.list # ra.game]
-----------------------------------------------------------------------------
(* _RaThread runs the client's frame in the game, and idles in the menu;   *)
(* the events are the client's.                                            *)

Frame == ra.online /\ ra.asked = None /\ ra.list # None /\ ra.game = ra.list /\ ra.status = "game"

OnAchievementTriggered == Frame /\ ra' \in AddOwn(ra, "unlocked", "timed")
OnProgressIndicatorShow == Frame /\ ra' \in Add(ra, "progress", "kept")
OnProgressIndicatorHide == Frame /\ ra' = Remove(ra, "progress")
OnGameCompleted == Frame /\ ra' \in Add(ra, "game", "timed")
OnDisconnected == Frame /\ ra' = [ra EXCEPT !.online = FALSE]

Next ==
    \/ TimePasses \/ Run \/ Login \/ LoginCallback \/ Logout
    \/ \E g \in Game : LoadGame(g)
    \/ UnloadGame \/ Toggle \/ Look
    \/ CallbackClears \/ CallbackFills \/ CallbackMakesTab
    \/ OnAchievementTriggered \/ OnProgressIndicatorShow \/ OnProgressIndicatorHide
    \/ OnGameCompleted \/ OnDisconnected

Spec == Init /\ [][Next]_ra
-----------------------------------------------------------------------------
TypeOK ==
    /\ {ra.game, ra.asked, ra.list, ra.tab} \subseteq Game \cup {None}
    /\ ra.note \in [Note -> Kind] /\ ra.pic \subseteq Note /\ ra.cache \subseteq Note
    /\ ra.session \in 0 .. 1 /\ ra.step \in {"off", "fill", "tab"}

(* The achievements the menu shows are there and are those of the game     *)
(* that is loaded, though games, logins and answers of the network overlap,*)
(* unless one was left while offline or in the midst of an answer          *)
(* (_LoadGameCallback, UnloadGame, OnStatusChanged).                       *)
ShownAreTheGames ==
    ra.shown /\ ra.status = "menu" /\ ra.looked = "menu" /\ ra.step = "off" /\ ~ra.kept /\ ~ra.torn =>
        ra.tab = ra.game

(* A note on the screen never has a picture that the cache has freed       *)
(* (App::Run, TextureCache::Clear).                                        *)
PicturesAreThere == ra.pic \subseteq ra.cache
=============================================================================
