-------------------------------- MODULE Browser --------------------------------
(***************************************************************************)
(* The file browser (tab_browser.cpp over directory.cpp and file.cpp): the *)
(* list of a directory, the cursor that is a bare index into it, the       *)
(* clipboard, the dialogs that ask, and what all of it does to the memory  *)
(* card.  Every step is a key, a dialog's answer or the end of a download; *)
(* they run on the main thread (Ui::Run), the end of a download does not.  *)
(* There is a device "dev" with one directory "sub" in it.  A name is its  *)
(* place in the alphabet, 0 a directory's; a file's contents are a number. *)
(* The picture beside the list is in BrowserPicture.  Left out: contents   *)
(* of names and texts, and the renaming of a directory, which keeps its    *)
(* place.                                                                  *)
(***************************************************************************)
EXTENDS Naturals, Sequences, FiniteSets

CONSTANTS
    Rom,            \* the names whose suffix the core takes
    Archive,            \* those that are archives
    Good,           \* the contents of an archive with a rom in it
    Place,          \* where each of the contents is at first
    Threshold,      \* THRESHOLD_FILE_COUNT
    Page,           \* how far left and right go
    HistorySize,    \* HISTROY_SIZE
    Thumbnails,     \* gConfig->auto_download_thumbnail
    FirstCmd,       \* what _cmd may be at first: nothing initialises it
    MaxChanges,     \* bound: commands that change the card
    None

VARIABLES
    card,       \* card[d][n]: contents of the file named n in d, None if none
    path,       \* _current_path
    items,      \* _items
    tested,     \* _tested
    index,      \* _index, from 0
    found,      \* _search_results
    visits,     \* _dir_history
    clip,       \* _clipboard
    cmd,        \* _cmd
    mode,       \* what is open: the list, a dialog, the download
    options,    \* what the menu dialog offers
    asked,      \* the file the confirm dialog names
    depth,      \* callbacks that are pushed
    refused,    \* history, text dialogs that the system did not open
    changes

vars == <<card, path, items, tested, index, found, visits, clip, cmd, mode,
          options, asked, depth, refused, changes>>
listing == <<path, items, tested, found>>

Dir == {"dev", "sub"}
Name == Rom \cup Archive
Empty == 0                  \* a file that was created and never written
Contents == {Empty} \cup DOMAIN Place
Out == 1000                 \* size_t(-1)
PASTE == 10                 \* CMD_PASTE is -1
COPY == 0
CUT == 1
DELETE == 2
RENAME == 3
THUMBS == 4
-----------------------------------------------------------------------------
(* Directory.                                                              *)

LegalTest(c, d, n) == n \in Rom \/ (n \in Archive /\ c[d][n] \in Good)

Files(c, d) == { n \in Name : c[d][n] # None }
Tested(c, d) == Cardinality(Files(c, d)) <= Threshold

\* A small directory lists what passes the test, a large one what may.
Listed(c, d) == IF Tested(c, d) THEN { n \in Files(c, d) : LegalTest(c, d, n) }
                                ELSE Files(c, d)

Folder == [name |-> 0, dir |-> TRUE, legal |-> TRUE]
File(n) == [name |-> n, dir |-> FALSE, legal |-> TRUE]
\* In the order of the alphabet.
Nth(names, i) == CHOOSE n \in names : Cardinality({ m \in names : m < n }) = i - 1
FileItems(c, d) == [i \in 1 .. Cardinality(Listed(c, d)) |-> File(Nth(Listed(c, d), i))]
ItemsOf(c, d) == CASE d = "root" -> <<Folder>>
                   [] d = "dev"  -> <<Folder>> \o FileItems(c, d)
                   [] d = "sub"  -> FileItems(c, d)

\* An operator named X_Bug is X as a plausible bug would have it; no definition
\* uses it, the checks are repeated with it to see that the properties notice.
SetCurrentPath_KeepsResults(c, d) ==
    /\ path' = d /\ items' = ItemsOf(c, d)
    /\ tested' = IF d = "root" THEN tested ELSE Tested(c, d)
    /\ UNCHANGED found

SetCurrentPath(c, d) ==
    /\ path' = d /\ items' = ItemsOf(c, d)
    /\ tested' = IF d = "root" THEN tested ELSE Tested(c, d)
    /\ found' = {}

\* A directory that cannot be opened leaves an empty list and the old path.
CannotOpen == items' = <<>> /\ found' = {} /\ UNCHANGED <<path, tested>>

At(its, i) == its[i + 1]
Garbage == { [name |-> 0, dir |-> b, legal |-> TRUE] : b \in BOOLEAN }
\* GetItem does not check its index.
Item(its, i) == IF i < Len(its) THEN {At(its, i)} ELSE Garbage
FirstAt(its, n) == { i \in 0 .. Len(its) - 1 : At(its, i) = File(n) }
GetIndex(its, n) == IF FirstAt(its, n) = {} THEN Out ELSE CHOOSE i \in FirstAt(its, n) : TRUE

CurrentFullPath(it) == IF index < Len(items) /\ ~it.dir THEN <<path, it.name>> ELSE None

\* _Update: the test that a large directory's list was spared.
Update(its, c, d, i, t) ==
    IF t \/ i >= Len(its) \/ d = "root" \/ At(its, i).dir THEN its
    ELSE [its EXCEPT ![i + 1].legal = LegalTest(c, d, At(its, i).name)]
-----------------------------------------------------------------------------
Put(c, d, n, x) == [c EXCEPT ![d][n] = x]

Init ==
    /\ card = [d \in Dir |-> [n \in Name |->
                IF \E x \in DOMAIN Place : Place[x] = <<d, n>>
                THEN CHOOSE x \in DOMAIN Place : Place[x] = <<d, n>> ELSE None]]
    /\ path = "dev" /\ items = ItemsOf(card, "dev") /\ tested = Tested(card, "dev")
    /\ index = 0 /\ found = {} /\ visits = [d \in {} |-> 0]
    /\ clip = None
    /\ cmd \in FirstCmd
    /\ mode = "list" /\ options = <<>> /\ asked = None
    /\ depth = 0 /\ refused = 0 /\ changes = 0

\* The application is closed and started again; what is on the card stays.
Restart ==
    /\ SetCurrentPath(card, "dev")
    /\ index' = 0 /\ visits' = [d \in {} |-> 0]
    /\ clip' = None
    /\ cmd' \in FirstCmd
    /\ mode' = "list" /\ options' = <<>> /\ asked' = None
    /\ depth' = 0 /\ refused' = 0 /\ UNCHANGED <<card, changes>>
-----------------------------------------------------------------------------
(* Keys of the list.                                                       *)

Keys == mode = "list" /\ depth = 0

End == Len(items) - 1
Up == IF index = 0 \/ index > End THEN End ELSE index - 1
Down == IF index = Out \/ index >= End THEN 0 ELSE index + 1
Left == IF index < Page THEN 0 ELSE IF index = Out \/ index - Page > End THEN End ELSE index - Page

Right == LET i == IF index = Out THEN Page - 1 ELSE index + Page
         IN IF i > End THEN End ELSE i

\* A key that leaves the card, the dialogs and the clipboard alone.
Browses == UNCHANGED <<card, clip, cmd, mode, options, asked, depth, refused, changes>>

Move ==
    /\ Keys /\ Len(items) > 0
    /\ index' \in {Up, Down, Left, Right}
    /\ items' = Update(items, card, path, index', tested)
    /\ Browses /\ UNCHANGED <<path, tested, found, visits>>

Rank == [root |-> 0, dev |-> 1, sub |-> 2]
SaveIndexHistory ==
    LET v == [d \in DOMAIN visits \cup {path} |-> IF d = path THEN index ELSE visits[d]]
        first == CHOOSE d \in DOMAIN v : \A e \in DOMAIN v : Rank[d] <= Rank[e]
    IN IF Cardinality(DOMAIN v) > HistorySize THEN [d \in DOMAIN v \ {first} |-> v[d]] ELSE v

IndexFromHistory(v, d) == IF d \in DOMAIN v THEN v[d] ELSE 0

\* SetCurrentPath, _SetIndexFromHistory, _Update.
Enter(d) ==
    /\ visits' = SaveIndexHistory
    /\ \/ /\ SetCurrentPath(card, d)
          /\ index' = IndexFromHistory(visits', d)
       \/ /\ d # "root" /\ CannotOpen
          /\ index' = IndexFromHistory(visits', path)

\* The enter key on a directory, or on a rom, which is loaded: see GameLoop.
OnActive ==
    /\ Keys /\ index < Len(items)
    /\ IF At(items, index).dir
       THEN Enter(IF path = "root" THEN "dev" ELSE "sub")
       ELSE visits' = SaveIndexHistory /\ UNCHANGED <<listing, index>>
    /\ Browses

OnKeyCross ==
    /\ Keys
    /\ Enter(IF path = "sub" THEN "dev" ELSE "root")
    /\ Browses

\* The next place a search found.
NextFound(f) == LET after == { r \in f : r > index }
                    from == IF Cardinality(f) > 1 /\ after # {} THEN after ELSE f
                IN IF f = {} THEN index ELSE CHOOSE r \in from : \A s \in from : r <= s

OnKeySquare ==
    /\ Keys /\ found # {}
    /\ index' = NextFound(found)
    /\ Browses /\ UNCHANGED <<listing, visits>>
-----------------------------------------------------------------------------
(* What opens over the list.                                               *)

Open(m) == mode' = m /\ depth' = depth + 1
Close == /\ mode' = "list" /\ depth' = depth - 1 /\ options' = <<>> /\ asked' = None
         /\ UNCHANGED refused
Instead(m) == mode' = m /\ depth' = depth /\ options' = <<>> /\ UNCHANGED refused
Stays == UNCHANGED <<card, listing, index, visits, changes>>

\* InputTextDialog::Open, whose result nobody looks at: the system may not open
\* it, while the callbacks, of which n are pushed, stay so.
TextDialog(m, n) ==
    /\ options' = <<>> /\ depth' = n
    /\ \/ mode' = m /\ UNCHANGED refused
       \/ mode' = "list" /\ refused' = refused + 1

\* The select key: what can be done with the entry.
OnKeySelect ==
    /\ Keys
    /\ \E it \in Item(items, index) :
          options' = (IF clip # None THEN <<"paste">> ELSE <<>>)
                     \o (IF ~it.dir THEN <<"copy", "cut", "delete", "rename">> ELSE <<>>)
                     \o (IF Thumbnails THEN <<"thumbnails">> ELSE <<>>)
    /\ options' # <<>> /\ Open("menu")
    /\ Stays /\ UNCHANGED <<clip, cmd, asked, refused>>

OnKeyTriangle ==
    /\ Keys
    /\ TextDialog("search", depth + 1)
    /\ Stays /\ UNCHANGED <<clip, cmd, asked>>

OnCancel ==
    /\ mode \in {"menu", "confirm"} /\ Close
    /\ Stays /\ UNCHANGED <<clip, cmd>>

\* The file dst is replaced by what the clipboard names: Remove and rename, or
\* CopyFile, which makes dst empty before it knows that the source is there.
Pasted(dst) ==
    LET from == card[clip.dir][clip.name]
    IN IF dst[1] = "root" THEN card
       ELSE IF ~clip.cut
            THEN Put(card, dst[1], dst[2], IF from = None THEN Empty ELSE from)
            ELSE IF from = None THEN Put(card, dst[1], dst[2], None)
                 ELSE Put(Put(card, dst[1], dst[2], from), clip.dir, clip.name, None)

Paste ==
    /\ card' = Pasted(<<path, clip.name>>) /\ changes' = changes + 1
    /\ clip' = None /\ SetCurrentPath(card', path) /\ index' = GetIndex(items', clip.name)
    /\ Close

PasteFile_Unasked(overwrite) ==
    IF clip.dir = path THEN Close /\ UNCHANGED <<card, listing, index, clip, changes>>
    ELSE Paste

\* overwrite: the user was asked.  Close ends the dialog that called it.
PasteFile(overwrite) ==
    IF clip.dir = path THEN Close /\ UNCHANGED <<card, listing, index, clip, changes>>
    ELSE IF path # "root" /\ card[path][clip.name] # None /\ ~overwrite
    THEN /\ Instead("confirm") /\ asked' = <<path, clip.name>>
         /\ UNCHANGED <<card, listing, index, clip, changes>>
    ELSE Paste

\* The command an answer of the menu stands for: the code counts from where it
\* assumes the options to begin.
Command(k, it) ==
    LET i == k + (IF it.dir THEN 4 ELSE 0)
    IN IF clip = None THEN i ELSE IF i = 0 THEN PASTE ELSE i - 1

OnDialog(k) ==
    /\ mode = "menu" /\ changes < MaxChanges
    /\ \E it \in Item(items, index) :
         LET c == Command(k, it)
             file == CurrentFullPath(it)
         IN /\ cmd' = c
            /\ \/ c = PASTE /\ PasteFile(FALSE)
               \/ /\ c \in {COPY, CUT} /\ Close /\ Stays
                  /\ clip' = IF file = None THEN None
                             ELSE [dir |-> file[1], name |-> file[2], cut |-> c = CUT]
               \/ /\ c = DELETE /\ Instead("confirm") /\ asked' = file
                  /\ Stays /\ UNCHANGED clip
               \/ /\ c = RENAME
                  /\ IF index < Len(items) THEN TextDialog("rename", depth) /\ UNCHANGED asked ELSE Close
                  /\ Stays /\ UNCHANGED clip
               \/ /\ c = THUMBS /\ Instead("download")
                  /\ Stays /\ UNCHANGED <<clip, asked>>
               \/ /\ c > THUMBS /\ c # PASTE /\ Close /\ Stays /\ UNCHANGED clip
    /\ UNCHANGED visits

\* Yes to the confirm dialog.  What it removes is what the cursor is on now.
OnConfirmDialog ==
    /\ mode = "confirm" /\ changes < MaxChanges
    /\ \/ cmd = PASTE /\ PasteFile(TRUE)
       \/ /\ cmd = DELETE /\ Close
          /\ \E it \in Item(items, index) :
                LET f == CurrentFullPath(it)
                    c == IF f = None THEN card ELSE Put(card, f[1], f[2], None)
                IN IF f # None
                   THEN /\ card' = c /\ clip' = None /\ SetCurrentPath(c, path)
                   ELSE UNCHANGED <<card, clip, listing>>
          /\ changes' = changes + 1 /\ UNCHANGED index
    /\ UNCHANGED <<visits, cmd>>

\* The download thread is done with its list: it pops the callbacks itself.
DownloadEnds ==
    /\ mode = "download" /\ Close
    /\ Stays /\ UNCHANGED <<clip, cmd>>

\* sceIoRename does not replace a file.
Renamed(n) ==
    { card } \cup
    { Put(Put(card, path, n, card[f[1]][f[2]]), f[1], f[2], None) :
        f \in { f \in {CurrentFullPath(At(items, index))} : f # None /\ card[f[1]][f[2]] # None
                                                           /\ card[path][n] = None } }

\* A text was entered, for the name n or for a search that finds what is in f,
\* in whichever of the two dialogs.
TextInput(n, f) ==
    /\ mode \in {"search", "rename"} /\ Close
    /\ IF cmd = RENAME
       THEN /\ changes < MaxChanges
            /\ IF index < Len(items) THEN card' \in Renamed(n) ELSE UNCHANGED card
            /\ SetCurrentPath(card', path) /\ cmd' = None
            /\ changes' = changes + 1 /\ UNCHANGED index
       ELSE /\ found' = f /\ index' = NextFound(f)
            /\ items' = Update(items, card, path, index', tested)
            /\ UNCHANGED <<card, path, tested, cmd, changes>>
    /\ UNCHANGED <<visits, clip>>

NoText_KeepsCallbacks ==
    /\ mode \in {"search", "rename"} /\ mode' = "list"
    /\ Stays /\ UNCHANGED <<clip, cmd, options, asked, depth, refused>>

\* The text dialog was cancelled, or the text is empty: cmd stays what it was.
NoText ==
    /\ mode \in {"search", "rename"} /\ Close
    /\ Stays /\ UNCHANGED <<clip, cmd>>

FileAt == { i \in 0 .. End : ~At(items, i).dir }

Next ==
    \/ Move \/ OnActive \/ OnKeyCross \/ OnKeySquare \/ OnKeySelect \/ OnKeyTriangle
    \/ OnCancel \/ OnConfirmDialog \/ DownloadEnds \/ NoText \/ Restart
    \/ \E k \in 0 .. Len(options) - 1 : OnDialog(k)
    \/ \E n \in Name, f \in SUBSET FileAt : TextInput(n, f)

Spec == Init /\ [][Next]_vars
-----------------------------------------------------------------------------
Range0 == 0 .. Cardinality(Name)

\* Every variable holds a value of its type in the code.
TypeOK ==
    /\ card \in [Dir -> [Name -> Contents \cup {None}]]
    /\ path \in Dir \cup {"root"} /\ tested \in BOOLEAN
    /\ index \in Range0 \cup {Out} /\ found \subseteq Range0
    /\ \A i \in DOMAIN items : items[i].name \in Name \cup {0}
    /\ mode \in {"list", "menu", "confirm", "search", "rename", "download"}
    /\ depth \in 0 .. 1 /\ refused \in 0 .. 1

(* A file's contents go from the card only when the confirm dialog named   *)
(* that file and was answered with yes: no paste, no search and no rename  *)
(* costs any other file (_PasteFile, _OnConfirmDialog, _TextInputCallback).*)
OnCard(c) == { c[d][n] : d \in Dir, n \in Name }
ConfirmedOnly ==
    [][\A d \in Dir, n \in Name :
          card[d][n] \notin OnCard(card') \cup {None, Empty} =>
             mode = "confirm" /\ asked = <<d, n>>]_vars

(* Callbacks are pushed while something is open that will pop them, and    *)
(* only then: with nothing open the keys are the list's, whatever was      *)
(* cancelled or asked again on the way.  The one exception is a text dialog*)
(* the system does not open: its callbacks have nothing to pop them, and   *)
(* the keys are dead until the application is started again.               *)
LevelsHaveOwners == depth = (IF mode = "list" THEN 0 ELSE 1) + refused

(* What the next-key jumps to was found in the list that is shown: a place *)
(* in it, and a file, though pasting, deleting and renaming rebuild it.    *)
FoundInList == \A r \in found : r < Len(items) /\ ~At(items, r).dir

(* What the help says of the triangle key: it searches.  The text given to *)
(* the dialog it opens changes no file.                                    *)
SearchLeavesCard == [][mode = "search" => card' = card]_vars
=============================================================================
