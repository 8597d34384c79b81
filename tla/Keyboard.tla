-------------------------------- MODULE Keyboard --------------------------------
(***************************************************************************)
(* The keyboard on the screen (emu/keyboard.cpp).  A plain key is down     *)
(* while a finger holds it; a modifier, shift or caps lock say, changes    *)
(* over each time it is let go.  The core hears of the keys by its callback*)
(* and may ask for them too (CheckKey).  The draw thread shows the         *)
(* keyboard, hotkeys switch it on and off, both with the video's lock      *)
(* held: neither sees the other half done.  That the core may ask between  *)
(* the change of a key and the call that tells it so is left out.          *)
(***************************************************************************)
CONSTANTS Plain, Locks, Modifier    \* keys: without a modifier, caps and scroll lock, the others
CONSTANT BitOf(_)                   \* mod of a lock or modifier: both shifts have the same

VARIABLE kbd
(* kbd.visable: _visable; kbd.status: the keys set in _status              *)
(* kbd.mod: _mod, a set of bits; kbd.hooked: _callback is set, by a core   *)
(*   that wants it, before there is a game to show the keyboard in         *)
(* kbd.held: the key the finger is on; kbd.rewinding: not drawn            *)
(* kbd.told: history: the keys that are down for all the core was told     *)
(* kbd.left: history: those of them that hiding the keyboard let go        *)

Key == Plain \cup Locks \cup Modifier

Init == \E hooked \in BOOLEAN :
          kbd = [visable |-> FALSE, status |-> {}, mod |-> {}, hooked |-> hooked,
                 held |-> {}, rewinding |-> FALSE, told |-> {}, left |-> {}]

Drawn == kbd.visable /\ ~kbd.rewinding
Flip(set, e) == (set \ {e}) \cup ({e} \ set)
Told(down, up) == IF kbd.hooked THEN (kbd.told \cup down) \ up ELSE kbd.told
Left(down, up) == IF kbd.hooked THEN kbd.left \ (down \cup up) ELSE kbd.left

\* _OnKeyDown, with _ModKeyDown: the modifiers that are on come first.
KeyDown(k) ==
    /\ Drawn /\ kbd.held = {}
    /\ kbd' = IF k \notin Plain \/ k \in kbd.status THEN [kbd EXCEPT !.held = {k}]
              ELSE LET down == {k} \cup (kbd.status \cap Modifier) IN
                   [kbd EXCEPT !.held = {k}, !.status = @ \cup {k},
                               !.told = Told(down, {}), !.left = Left(down, {})]

\* _OnKeyUp
KeyUp(k) ==
    /\ Drawn /\ kbd.held = {k}
    /\ LET status == IF k \in Plain THEN kbd.status \ {k} ELSE Flip(kbd.status, k)
           down == {k} \cap status
           up == {k} \ status
       IN  kbd' = [kbd EXCEPT !.held = {}, !.status = status,
                     !.mod = IF k \in Plain THEN @ ELSE Flip(@, BitOf(k)),
                     !.told = Told(down, up), !.left = Left(down, up)]

\* A finger lifted away from its button: Show calls neither.
SlideOff == kbd.held # {} /\ kbd' = [kbd EXCEPT !.held = {}]

\* SetVisable: _status is cleared, _mod is not, and the core is not told.
SetVisable(on) ==
    kbd' = [kbd EXCEPT !.visable = on, !.held = {},
              !.left = IF on THEN @ ELSE @ \cup (kbd.status \cap kbd.told),
              !.status = IF on THEN @ ELSE {}]

\* The hotkey, which works while rewinding too, and the key of the menu.
OnHotkeyKeyboard == SetVisable(~kbd.visable)
OnPsButton == kbd.visable /\ SetVisable(FALSE)

Rewind == kbd' = [kbd EXCEPT !.rewinding = ~@, !.held = {}]

Next == \/ \E k \in Key : KeyDown(k) \/ KeyUp(k)
        \/ SlideOff \/ OnHotkeyKeyboard \/ OnPsButton \/ Rewind
-----------------------------------------------------------------------------
TypeOK ==
    /\ kbd.status \subseteq Key /\ kbd.told \subseteq Key /\ kbd.left \subseteq Key
    /\ kbd.held \subseteq Key /\ kbd.mod \subseteq {BitOf(k) : k \in Key \ Plain}

(* Asking and listening come to the same, but for what was down when the   *)
(* keyboard was hidden: of that the core hears nothing.                    *)
CoreHearsKeys ==
    kbd.hooked => kbd.told = kbd.status \cup kbd.left
===============================================================================
