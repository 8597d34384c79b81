------------------------------- MODULE Favorites -------------------------------
(***************************************************************************)
(* The favourites (favorite.cpp), a map from the name of a file to where   *)
(* it is, that the browser's start key adds to and takes from and that has *)
(* a tab of its own (tab_favorite.cpp) with a bare index into it.  Each    *)
(* change is saved at once: the file is removed, then written, and nobody  *)
(* looks whether that went well.  The draw thread corrects the index and   *)
(* hides the tab of an empty map, and it draws a frame between any two     *)
(* keys: that is an assumption here.  Names are numbered in their order;   *)
(* an entry cut in the middle of its text is taken to be lost.             *)
(***************************************************************************)
EXTENDS Naturals, FiniteSets

CONSTANTS Name, Dir, None

VARIABLE fav
(* fav.map, fav.saved: the map and the file, None when there is none       *)
(* fav.there: the files that are on the card                               *)
(* fav.tab: which of the two tabs is on; fav.index: _index of this one     *)
(* fav.busy: "key" when a key may come, "draw" when a frame is due,        *)
(*   "remove" and "write" while it is saved; fav.dialog: the confirmation  *)
(* fav.bad: history, an index past the end was used; fav.torn: history, the*)
(*   last save did not go through                                          *)

Card == Name \X Dir
Size == Cardinality(DOMAIN fav.map)
Empty == [n \in {} |-> None]
Kept(m, there) == [n \in { n \in DOMAIN m : <<n, m[n]>> \in there } |-> m[n]]

\* Load: what is no longer on the card is left out.
Load(saved, there) == IF saved = None THEN Empty ELSE Kept(saved, there)

Init == fav = [map |-> Empty, saved |-> None, there |-> Card, tab |-> "browser",
               index |-> 0, busy |-> "draw", dialog |-> FALSE, bad |-> FALSE,
               torn |-> FALSE]

Key == fav.busy = "key"

\* TabBrowser::_OnKeyStart: the map knows a file by its name alone.
OnKeyStart(n, d) ==
    /\ Key /\ fav.tab = "browser" /\ <<n, d>> \in fav.there
    /\ fav' = [fav EXCEPT !.busy = "remove",
                 !.map = IF n \in DOMAIN @ THEN [m \in DOMAIN @ \ {n} |-> @[m]]
                         ELSE [m \in DOMAIN @ \cup {n} |-> IF m = n THEN d ELSE @[m]]]

\* File::Remove, then CSimpleIni::SaveFile, which may write nothing, or the
\* first entries only; its result is looked at by nobody.
SaveRemoves == fav.busy = "remove" /\ fav' = [fav EXCEPT !.busy = "write", !.saved = None]
First(m, k) == [n \in { n \in DOMAIN m : n < k } |-> m[n]]
SaveWrites ==
    /\ fav.busy = "write"
    /\ \/ fav' = [fav EXCEPT !.busy = "draw", !.saved = fav.map, !.torn = FALSE]
       \/ \E s \in {None} \cup { First(fav.map, k) : k \in Name } :
             fav' = [fav EXCEPT !.busy = "draw", !.saved = s, !.torn = TRUE]

Switch ==
    /\ Key /\ ~fav.dialog
    /\ \/ fav.tab = "browser" /\ Size > 0 /\ fav' = [fav EXCEPT !.tab = "favorite", !.busy = "draw"]
       \/ fav.tab = "favorite" /\ fav' = [fav EXCEPT !.tab = "browser", !.busy = "draw"]

\* Up and down; _Update then reads the entry at the index.
Moved(i) == { IF i = 0 THEN Size - 1 ELSE i - 1, IF i + 1 >= Size THEN 0 ELSE i + 1 }
Move ==
    /\ Key /\ fav.tab = "favorite" /\ ~fav.dialog /\ Size > 0
    /\ \E i \in Moved(fav.index) :
          fav' = [fav EXCEPT !.index = i, !.bad = @ \/ i >= Size, !.busy = "draw"]

\* The enter key loads the entry at the index, unchecked: see GameLoop.
OnActive ==
    /\ Key /\ fav.tab = "favorite" /\ ~fav.dialog
    /\ fav' = [fav EXCEPT !.bad = @ \/ fav.index >= Size, !.busy = "draw"]

OnKeyCross ==
    /\ Key /\ fav.tab = "favorite" /\ ~fav.dialog
    /\ fav' = [fav EXCEPT !.dialog = TRUE, !.busy = "draw"]

\* An operator named X_Bug is X as a plausible bug would have it; no definition
\* uses it, the checks are repeated with it to see that the properties notice.
OnDialog_Unsaved(yes) ==
    /\ Key /\ fav.dialog
    /\ IF ~yes THEN fav' = [fav EXCEPT !.dialog = FALSE, !.busy = "draw"]
       ELSE \E n \in DOMAIN fav.map :
              fav' = [fav EXCEPT !.dialog = FALSE, !.busy = "draw",
                        !.map = [m \in DOMAIN @ \ {n} |-> @[m]]]

\* Yes erases the entry at the index, whichever name that is.
OnDialog(yes) ==
    /\ Key /\ fav.dialog
    /\ IF ~yes THEN fav' = [fav EXCEPT !.dialog = FALSE, !.busy = "draw"]
       ELSE \E n \in DOMAIN fav.map :
              fav' = [fav EXCEPT !.dialog = FALSE, !.busy = "remove",
                        !.bad = @ \/ fav.index >= Size,
                        !.map = [m \in DOMAIN @ \ {n} |-> @[m]]]

Draw_TrustsIndex ==
    /\ fav.busy = "draw"
    /\ fav' = [fav EXCEPT !.busy = "key", !.tab = IF Size = 0 THEN "browser" ELSE @]

\* Ui::_ShowNormal and TabFavorite::_Show.
Draw ==
    /\ fav.busy = "draw"
    /\ fav' = [fav EXCEPT !.busy = "key",
                 !.tab = IF Size = 0 THEN "browser" ELSE @,
                 !.index = IF fav.tab = "favorite" /\ Size > 0 /\ @ >= Size THEN 0 ELSE @]

\* Started again, or after a crash at any moment, with some file gone from the
\* card.  The index is that of the last rom.
Restart(gone) ==
    LET there == fav.there \ gone
        map == Load(fav.saved, there)
    IN \E i \in {0} \cup 0 .. Cardinality(DOMAIN map) - 1 :
         fav' = [fav EXCEPT !.there = there, !.map = map, !.index = i, !.tab = "browser",
                   !.dialog = FALSE, !.busy = "draw", !.torn = FALSE]

Next ==
    \/ \E n \in Name, d \in Dir : OnKeyStart(n, d)
    \/ SaveRemoves \/ SaveWrites \/ Switch \/ Move \/ OnActive \/ OnKeyCross \/ Draw
    \/ \E yes \in BOOLEAN : OnDialog(yes)
    \/ \E f \in Card : Restart({f})

Spec == Init /\ [][Next]_fav
-----------------------------------------------------------------------------
TypeOK ==
    /\ DOMAIN fav.map \subseteq Name
    /\ fav.there \subseteq Card /\ fav.index \in Nat
    /\ fav.busy \in {"key", "draw", "remove", "write"}
    /\ {fav.dialog, fav.bad, fav.torn} \subseteq BOOLEAN /\ fav.tab \in {"browser", "favorite"}

(* The tab never reads, starts or erases an entry past the end of the map, *)
(* though both tabs shrink the map under its index (TabFavorite::_Show).   *)
UsesEntry == ~fav.bad

(* What a restart would bring back (Favorites::Save, Load).  Once a change *)
(* was saved it is what is shown, without exception; until the old file is *)
(* removed, all but the one favourite that was changed.  A crash while     *)
(* there is no file, or after a save that failed, may cost all of them.    *)
Restored == Load(fav.saved, fav.there)
Same(n) == /\ n \in DOMAIN fav.map <=> n \in DOMAIN Restored
           /\ n \in DOMAIN fav.map => fav.map[n] = Restored[n]
ShownIsSaved ==
    ~fav.torn =>
       /\ fav.busy \in {"key", "draw"} => \A n \in Name : Same(n)
       /\ fav.busy = "remove" => \E changed \in Name : \A n \in Name \ {changed} : Same(n)
=============================================================================
