---------------------------- MODULE BrowserPicture ----------------------------
(***************************************************************************)
(* The picture beside the browser's list.  The main thread's _Update frees *)
(* the picture of the entry the cursor left and starts a thread that looks *)
(* up the new entry's name and loads its picture; several such threads may *)
(* be under way.  The draw thread draws the picture, and the GPU is at it  *)
(* after the video lock was given back.  What is under the video lock is   *)
(* one step.                                                               *)
(***************************************************************************)
EXTENDS Naturals, FiniteSets

CONSTANTS
    Thread,     \* bound: threads of UpdateDetails under way
    Entry,      \* entries of the list, the directories among them
    Folder,
    Texture,    \* bound: textures there are
    None

VARIABLE pic
(* pic.index: _index; pic.main: where _Update is; pic.tex: _texture        *)
(* pic.live: the textures that are allocated; pic.gpu: the one being drawn *)
(* pic.job: what each thread works on                                      *)

Idle == [at |-> "off", entry |-> None, tex |-> None]

Init == pic = [index |-> CHOOSE e \in Entry : TRUE, main |-> "idle", tex |-> None,
               live |-> {}, gpu |-> None, job |-> [t \in Thread |-> Idle]]

\* The cursor moves, or the list is rebuilt: _Update begins.
Move(e) ==
    /\ pic.main = "idle"
    /\ pic' = [pic EXCEPT !.index = e, !.main = "free"]

\* The next-key moves the cursor and does not update.
Square(e) ==
    /\ pic.main = "idle"
    /\ pic' = [pic EXCEPT !.index = e]

\* An operator named X_Bug is X as a plausible bug would have it; no definition
\* uses it, the checks are repeated with it to see that the properties notice.
UpdateFrees_TooEarly ==
    /\ pic.main = "free"
    /\ pic' = [pic EXCEPT !.main = "start", !.tex = None, !.live = @ \ {pic.tex}]

\* vita2d_wait_rendering_done, vita2d_free_texture.
UpdateFrees ==
    /\ pic.main = "free"
    /\ pic' = [pic EXCEPT !.main = "start", !.tex = None, !.live = @ \ {pic.tex},
                 !.gpu = IF pic.tex = None THEN @ ELSE None]

\* UpdateDetails of a file starts a thread.
UpdateStarts ==
    /\ pic.main = "start"
    /\ IF pic.index \in Folder THEN pic' = [pic EXCEPT !.main = "idle"]
       ELSE \E t \in Thread :
              /\ pic.job[t] = Idle
              /\ pic' = [pic EXCEPT !.main = "idle",
                           !.job[t] = [at |-> "names", entry |-> pic.index, tex |-> None]]

\* UpdateDetialsThread, see RomNames; then the callback, which is content when
\* the cursor is where it was.
Named(t) ==
    /\ pic.job[t].at = "names"
    /\ pic' = [pic EXCEPT !.job[t] = IF pic.index = @.entry THEN [@ EXCEPT !.at = "load"] ELSE Idle]

\* GetPreviewImage, GetRomPreviewImage: a picture, or none.
Loads(t) ==
    /\ pic.job[t].at = "load"
    /\ \/ pic' = [pic EXCEPT !.job[t].at = "set"]
       \/ \E x \in Texture \ pic.live :
             pic' = [pic EXCEPT !.live = @ \cup {x}, !.job[t].at = "set", !.job[t].tex = x]

Sets(t) ==
    /\ pic.job[t].at = "set"
    /\ LET x == pic.job[t].tex
       IN pic' = IF x = None THEN [pic EXCEPT !.job[t] = Idle]
                 ELSE [pic EXCEPT !.job[t] = Idle, !.tex = x, !.live = @ \ {pic.tex},
                         !.gpu = IF pic.tex = None THEN @ ELSE None]

\* TabBrowser::_Show; the GPU is done with the last frame.
Draw == pic' = [pic EXCEPT !.gpu = pic.tex]

Next ==
    \/ \E e \in Entry : Move(e) \/ Square(e)
    \/ UpdateFrees \/ UpdateStarts \/ Draw
    \/ \E t \in Thread : Named(t) \/ Loads(t) \/ Sets(t)

Spec == Init /\ [][Next]_pic
-----------------------------------------------------------------------------
TypeOK ==
    /\ pic.index \in Entry /\ pic.main \in {"idle", "free", "start"}
    /\ pic.live \subseteq Texture /\ {pic.tex, pic.gpu} \subseteq Texture \cup {None}
    /\ pic.job \in [Thread -> [at : {"off", "names", "load", "set"},
                               entry : Entry \cup {None}, tex : Texture \cup {None}]]

(* Every texture that is allocated has one owner, the browser or the one   *)
(* thread that is about to hand it over, and what is owned or drawn is     *)
(* allocated: nothing leaks and nothing freed is drawn, whichever thread   *)
(* comes first (_Update, _OnItemUpdated, _Show).                           *)
Owned == { pic.job[t].tex : t \in Thread } \cup {pic.tex}
TexturesHaveOwners ==
    /\ Owned \ {None} = pic.live
    /\ \A t \in Thread : pic.job[t].tex # None => pic.job[t].tex # pic.tex
    /\ pic.gpu \in pic.live \cup {None}
=============================================================================
