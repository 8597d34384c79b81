-------------------------------- MODULE Launcher --------------------------------
(***************************************************************************)
(* The core launcher (arch/source/app.cpp, core_button.cpp, config.cpp):   *)
(* rows of consoles, each with its cores; the start key chooses which      *)
(* consoles are shown, enter opens the list of a console's cores and boots *)
(* one.  A core that ends starts the launcher anew.  _index_x and _index_y *)
(* count from one here.  The boot by URI, which goes round all of this,    *)
(* and the drawing are left out.                                           *)
(***************************************************************************)
EXTENDS Naturals, SequencesExt, Sift

CONSTANTS Rows,         \* _buttons: sequences of consoles
          Cores(_),     \* _cores of a console: a sequence of names, never empty
          None

VARIABLE arch
(* arch.shown: gConfig->consoles; arch.last: last_core                     *)
(* arch.saved: the two in the file, None when there is none                *)
(* arch.choice: _in_choice; arch.visible: _visable_buttons                 *)
(* arch.x, arch.y: _index_x, _index_y; arch.core: _index of each button    *)
(* arch.active: the button whose list is open, its hooks pushed, or None   *)
(* arch.step: "keys"; "remove" and "write" while the file is saved; "off"  *)
(* arch.boot: gCoreName, None while the launcher runs                      *)
(* arch.fresh: no key was pressed yet                                      *)

Console == UNION {ToSet(Rows[r]) : r \in DOMAIN Rows}

VisableButtons(shown) ==
    LET rows == [r \in DOMAIN Rows |-> Only(Rows[r], shown)]
    IN  Only(rows, ToSet(rows) \ {<<>>})

\* _current_buttons
Current(a) == IF a.choice THEN Rows ELSE a.visible
InRange(a) == a.y \in DOMAIN Current(a) /\ a.x \in DOMAIN Current(a)[a.y]
Selected(a) == Current(a)[a.y][a.x]
Lesser(i, j) == IF i <= j THEN i ELSE j

Places(rows, c) == UNION {{<<x, y>> : x \in {z \in DOMAIN rows[y] : rows[y][z] = c}} : y \in DOMAIN rows}
PositionOf(seq, e) == CHOOSE i \in DOMAIN seq : seq[i] = e

\* _SetIndex: a console that is not shown leaves the index alone.
SetIndex(a, c) ==
    IF Places(Current(a), c) = {} THEN a
    ELSE LET p == CHOOSE q \in Places(Current(a), c) : TRUE IN [a EXCEPT !.x = p[1], !.y = p[2]]

\* The constructor, and Load over it.
Load(saved) == IF saved = None THEN [shown |-> Console, last |-> None] ELSE saved

\* _RestoreLastCore, in a launcher just built.
RestoreLastCore(a) ==
    LET found == {c \in Console : Places(a.visible, c) # {} /\ a.last \in ToSet(Cores(c))}
    IN  IF found = {} THEN a
        ELSE LET c == CHOOSE d \in found : TRUE
             IN  [SetIndex(a, c) EXCEPT !.core[c] = PositionOf(Cores(c), a.last)]

Started(saved) ==
    RestoreLastCore([shown |-> Load(saved).shown, last |-> Load(saved).last, saved |-> saved,
                     choice |-> FALSE, visible |-> VisableButtons(Load(saved).shown),
                     x |-> 1, y |-> 1, core |-> [c \in Console |-> 1], active |-> None,
                     step |-> "keys", boot |-> None, fresh |-> TRUE])

Init == arch = Started(None)

\* The hooks of the launcher, and those of the list of a button.
Keys == arch.step = "keys" /\ arch.active = None
InList == arch.step = "keys" /\ arch.active # None

Moves(x, y) == arch' = [arch EXCEPT !.x = x, !.y = y, !.fresh = FALSE]
OnKeyLeft == Keys /\ arch.x > 1 /\ Moves(arch.x - 1, arch.y)
OnKeyRight == Keys /\ arch.x < Len(Current(arch)[arch.y]) /\ Moves(arch.x + 1, arch.y)
OnKeyUp ==
    /\ Keys /\ arch.y > 1
    /\ Moves(Lesser(arch.x, Len(Current(arch)[arch.y - 1])), arch.y - 1)
OnKeyDown ==
    /\ Keys /\ arch.y < Len(Current(arch))
    /\ Moves(Lesser(arch.x, Len(Current(arch)[arch.y + 1])), arch.y + 1)

\* _OnClick while choosing: the last console shown stays.
Toggle ==
    /\ Keys /\ arch.choice
    /\ LET c == Selected(arch) IN
       /\ c \in arch.shown => arch.shown # {c}
       /\ arch' = [arch EXCEPT !.fresh = FALSE, !.shown = IF c \in @ THEN @ \ {c} ELSE @ \cup {c}]

\* _OnClick otherwise: the button's OnActive.
OnActive ==
    /\ Keys /\ ~arch.choice
    /\ arch' = [arch EXCEPT !.active = arch.visible[arch.y][arch.x], !.fresh = FALSE]

\* The rows shown while choosing are all of them, and afterwards those chosen,
\* which need not have the console, the row or the column that was selected.
Clamped(a) ==
    LET y == Lesser(a.y, Len(a.visible))
    IN  [a EXCEPT !.y = y, !.x = Lesser(a.x, Len(a.visible[y]))]

\* An operator named X_Bug is X as a plausible bug would have it; no definition
\* uses it, the checks are repeated with it to see that the properties notice.
LeaveChoice_ClampsRowOnly(a, c) ==
    LET b == [a EXCEPT !.choice = FALSE, !.visible = VisableButtons(a.shown)]
    IN  IF Places(b.visible, c) # {} THEN SetIndex(b, c)
        ELSE [b EXCEPT !.y = Lesser(b.y, Len(b.visible))]

LeaveChoice(a, c) ==
    LET b == [a EXCEPT !.choice = FALSE, !.visible = VisableButtons(a.shown)]
    IN  IF Places(b.visible, c) # {} THEN SetIndex(b, c) ELSE Clamped(b)

\* The configuration is saved on the way out of the choice; nothing looks at
\* the index before it is.
OnKeyStart ==
    /\ Keys
    /\ arch' = LET c == Selected(arch) IN
               IF arch.choice
               THEN [LeaveChoice(arch, c) EXCEPT !.step = "remove", !.fresh = FALSE]
               ELSE SetIndex([arch EXCEPT !.choice = TRUE, !.fresh = FALSE], c)

\* Config::Save; ~App saves too, and the core is booted after that.
SaveRemoves == arch.step = "remove" /\ arch' = [arch EXCEPT !.step = "write", !.saved = None]
SaveWrites ==
    /\ arch.step = "write"
    /\ arch' = [arch EXCEPT !.step = IF arch.boot = None THEN "keys" ELSE "off",
                            !.saved = [shown |-> arch.shown, last |-> arch.last]]

\* Up and down in the list of cores, round its ends.
OnListKey ==
    /\ InList
    /\ \E d \in {1, Len(Cores(arch.active)) - 1} :
          arch' = [arch EXCEPT !.core[arch.active] = ((@ - 1 + d) % Len(Cores(arch.active))) + 1]

OnCancel == InList /\ arch' = [arch EXCEPT !.active = None]

BootCore ==
    /\ InList
    /\ LET core == Cores(arch.active)[arch.core[arch.active]]
       IN  arch' = [arch EXCEPT !.active = None, !.last = core, !.boot = core, !.step = "remove"]

\* The core has ended; or the power was cut at any moment.
Start == arch.step = "off" /\ arch' = Started(arch.saved)
Crash == arch' = Started(arch.saved)

Next == \/ OnKeyLeft \/ OnKeyRight \/ OnKeyUp \/ OnKeyDown
        \/ Toggle \/ OnActive \/ OnKeyStart
        \/ SaveRemoves \/ SaveWrites
        \/ OnListKey \/ OnCancel \/ BootCore
        \/ Start \/ Crash
-----------------------------------------------------------------------------
TypeOK ==
    /\ arch.shown \subseteq Console /\ arch.choice \in BOOLEAN /\ arch.fresh \in BOOLEAN
    /\ arch.step \in {"keys", "remove", "write", "off"}
    /\ arch.active \in Console \cup {None}
    /\ \A c \in Console : arch.core[c] \in DOMAIN Cores(c)

(* The index is that of a button, whatever consoles were hidden (_Show and *)
(* every key read the button at it unchecked), and a core that has come    *)
(* back finds its console selected, itself first in the list.              *)
SelectedIsShown ==
    /\ InRange(arch)
    /\ arch.active # None => ~arch.choice /\ arch.active = Selected(arch)
    /\ LET c == Selected(arch)
           chosen == {d \in arch.shown : arch.last \in ToSet(Cores(d))}
       IN  arch.fresh /\ chosen # {} => c \in chosen /\ Cores(c)[arch.core[c]] = arch.last
===============================================================================
