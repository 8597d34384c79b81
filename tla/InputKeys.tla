------------------------------- MODULE InputKeys -------------------------------
(***************************************************************************)
(* Input (share/source/input.cpp) twice over: the emulator's, polled by    *)
(* its own thread as long as a game is loaded, and the one of the user     *)
(* interface, polled by the main thread while a menu is shown.  Both look  *)
(* at the same pad at moments of their own, both keep what they last saw,  *)
(* and both have callbacks that change the status of the application.      *)
(*                                                                         *)
(* A poll is one step, and so is the main thread's look at the status with *)
(* the poll it leads to (GameLoop has them apart).  Turbo keys come and go *)
(* while they are held, with the clock; the clock is left out.  So are     *)
(* touch panels, analog values, and all but one of the hotkeys that leave  *)
(* the status alone.                                                       *)
(***************************************************************************)
EXTENDS Naturals, Sequences

CONSTANTS
    Key,            \* the buttons of the pad, the sticks' directions included
    Turbo,          \* those with turbo in a game
    MenuToggle,     \* gConfig->hotkeys: sets of buttons
    GameRewind, SaveState, ExitGame,
    Enter           \* EnterButton: starts the game in the browser, resumes it in the menu

Chords == {GameRewind, SaveState, ExitGame}

\* The default hotkeys: the menu's alone, the others with one more button.
ASSUME KeysAssumption ==
    /\ Turbo \subseteq Key /\ Enter \subseteq Key /\ MenuToggle \subseteq Key
    /\ Chords \subseteq SUBSET Key
    /\ MenuToggle # {} /\ Enter # {}
    /\ \A c \in Chords : MenuToggle \subseteq c /\ MenuToggle # c

VARIABLES
    pad,        \* the buttons held
    status,     \* the status of the application: "ui", "run", "rewind", "menu"
    polling,    \* the emulator's input thread runs
    last,       \* _last_key, of the emulator's and of the interface's Input
    hot,        \* _current_hotkey
    upOn,       \* _enable_key_up
    called      \* history: the hotkeys the emulator called since all buttons were up

vars == <<pad, status, polling, last, hot, upOn, called>>

Poller == {"emulator", "interface"}
Menus == {"ui", "menu"}

\* Bindings in the order of SetHotKeys and SetInputHooks.
Down(p) == IF p = "emulator" THEN <<SaveState, ExitGame, GameRewind>> ELSE <<>>
Up(p) == IF p = "emulator" THEN <<GameRewind, MenuToggle>>
         ELSE IF status = "menu" THEN <<Enter, MenuToggle>> ELSE <<Enter>>

\* Of the bindings of list that fit, given by their places, the first is called
\* and the others are not looked at: a set of at most one hotkey.
FirstOf(list, fitting) ==
    {list[i] : i \in {j \in fitting : \A k \in fitting : j <= k}}

\* The functions behind the bindings: the status they leave.
AfterDown(called1) ==
    CASE called1 = {GameRewind} -> "rewind"
      [] called1 = {ExitGame}   -> "ui"
      [] OTHER                  -> status

\* An operator named X_Bug is X as a plausible bug would have it; no definition
\* uses it, the checks are repeated with it to see that the properties notice.
AfterUp_OnlyInRun(p, called1, s) ==
    CASE p = "interface" /\ called1 # {}           -> "run"
      [] p = "emulator" /\ called1 = {GameRewind}  -> "run"
      [] p = "emulator" /\ called1 = {MenuToggle} /\ s = "run" -> "menu"
      [] OTHER                                     -> s

AfterUp(p, called1, s) ==
    CASE p = "interface" /\ called1 # {}           -> "run"
      [] p = "emulator" /\ called1 = {GameRewind}  -> "run"
      [] p = "emulator" /\ called1 = {MenuToggle} /\ s \in {"run", "rewind"} -> "menu"
      [] OTHER                                     -> s

Init ==
    /\ pad = {}
    /\ status = "ui" /\ polling = FALSE
    /\ last = [p \in Poller |-> {}]
    /\ hot = [p \in Poller |-> {}]
    /\ upOn = [p \in Poller |-> TRUE]
    /\ called = {}
-----------------------------------------------------------------------------
\* The player presses and releases what he likes, as fast as he likes.
Press(k) ==
    /\ k \notin pad
    /\ pad' = pad \cup {k}
    /\ UNCHANGED <<status, polling, last, hot, upOn, called>>

Release(k) ==
    /\ k \in pad
    /\ pad' = pad \ {k}
    /\ UNCHANGED <<status, polling, last, hot, upOn, called>>

\* TEST_KEY on this poll and on the last.
NowDown(p, keys, k) == k \subseteq keys /\ ~(k \subseteq last[p])
NowUp(p, keys, k) == k \subseteq last[p] /\ ~(k \subseteq keys)

Own_Always(k, hotkeys) == TRUE

\* A key released counts unless it was a part of hotkeys called: the hotkey of
\* a single call, or none of their buttons.
Own(k, hotkeys) == k = hotkeys \/ ~(k \subseteq hotkeys)

CalledDown(p, keys) ==
    FirstOf(Down(p), {i \in DOMAIN Down(p) : NowDown(p, keys, Down(p)[i])})

CalledUp(p, keys, hotkeys) ==
    FirstOf(Up(p), {i \in DOMAIN Up(p) : /\ upOn[p]
                                         /\ NowUp(p, keys, Up(p)[i])
                                         /\ Own(Up(p)[i], hotkeys)})

\* _ProcCallbacks, with keys other than at the last poll.  Once a function was
\* called for a release with other keys still down, releases are passed over
\* until all keys are up.
ProcCallbacks(p, keys) ==
    LET down == CalledDown(p, keys)
        hotkeys == hot[p] \cup UNION down
        up == CalledUp(p, keys, hotkeys)
    IN
    /\ status' = AfterUp(p, up, AfterDown(down))
    /\ upOn' = [upOn EXCEPT ![p] = IF upOn[p] THEN up = {} \/ keys = {} ELSE keys = {}]
    /\ hot' = [hot EXCEPT ![p] = IF keys = {} THEN {} ELSE hotkeys]
    /\ called' = IF p = "interface" THEN called
                 ELSE IF keys = {} THEN {} ELSE called \cup down \cup up

\* Starting a game starts the emulator's thread, the exit hotkey stops it after
\* this poll; what it last saw is kept for the next game.
Poll(p, keys) ==
    /\ IF p = "emulator" THEN polling ELSE status \in Menus
    /\ keys # last[p]
    /\ ProcCallbacks(p, keys)
    /\ last' = [last EXCEPT ![p] = keys]
    /\ polling' = IF p = "emulator" THEN ExitGame \notin CalledDown(p, keys)
                  ELSE polling \/ (status = "ui" /\ status' = "run")
    /\ UNCHANGED pad

EmulatorPoll == \E off \in SUBSET (pad \cap Turbo) : Poll("emulator", pad \ off)
InterfacePoll == Poll("interface", pad)

Next ==
    \/ \E k \in Key : Press(k) \/ Release(k)
    \/ EmulatorPoll
    \/ InterfacePoll

Spec == Init /\ [][Next]_vars
-----------------------------------------------------------------------------
\* The variables have their types.
TypeOK ==
    /\ pad \in SUBSET Key
    /\ status \in {"ui", "run", "rewind", "menu"}
    /\ polling \in BOOLEAN
    /\ last \in [Poller -> SUBSET Key]
    /\ hot \in [Poller -> SUBSET Key]
    /\ upOn \in [Poller -> BOOLEAN]
    /\ called \in SUBSET (Chords \cup {MenuToggle})

\* An Input that saw all keys up has forgotten its hotkeys and calls for the
\* next release, whatever was pressed before, in whatever game or menu.
KeysUpMeansReady ==
    \A p \in Poller : last[p] = {} => hot[p] = {} /\ upOn[p]

\* The menu's button is in every hotkey; letting go of a hotkey does not open
\* the menu.
ChordsDoNotToggle ==
    [][/\ status \in {"run", "rewind"} /\ status' = "menu"
       => called \cap Chords = {}]_vars

\* Pressed and released alone, the menu's button opens the menu, whatever the
\* hotkeys called before it.
ToggleIsHeeded ==
    [][/\ last["emulator"] = MenuToggle /\ last'["emulator"] = {}
       /\ called = {} /\ status \in {"run", "rewind"}
       => status' = "menu"]_vars

=============================================================================
