------------------------------- MODULE Playlists -------------------------------
(***************************************************************************)
(* RetroArch's playlists (ra_lpl.cpp) give roms their labels.  When the    *)
(* application starts it reads one after the other, each from a cache of   *)
(* its own if it has one, which is found by the playlist's path, size and  *)
(* time.  Any of these files may fail to be read or written, and a cache be*)
(* cut while it is written.  A playlist's contents and time are its        *)
(* version.  Names that collide are left out.                              *)
(***************************************************************************)
EXTENDS Naturals, Sequences

CONSTANTS
    Path,       \* the roms
    Lists,      \* the playlists, first the own ones, each the set of its roms
    MaxVersion, \* bound: how often a playlist is edited
    None

VARIABLE lpls
(* lpls.version: of each playlist                                          *)
(* lpls.bins: the caches, by playlist and key: the version that was saved, *)
(*   and whether all of it was                                             *)
(* lpls.next: the playlist that is read next, at the start                 *)
(* lpls.labels: in memory, the list and version a label is from; a version *)
(*   None stands for garbage                                               *)
(* lpls.missed: history, the last playlist could not be read               *)

List == DOMAIN Lists
Version == 0 .. MaxVersion
Labelled == [p \in Path |-> None]

NoBins == [l \in List |-> [k \in Version |-> None]]

Init == lpls = [version |-> [l \in List |-> 0], bins |-> NoBins,
                next |-> 1, labels |-> Labelled, missed |-> FALSE]

\* An operator named X_Bug is X as a plausible bug would have it; no definition
\* uses it, the checks are repeated with it to see that the properties notice.
LplCrc32_PathOnly(v) == 0
\* _GetLplCrc32.
LplCrc32(v) == v

\* What a list says.  insert does not replace: the first that has a rom names it.
Items(l, v) == [p \in Lists[l] |-> <<l, v>>]
Insert(labels, items) ==
    [p \in Path |-> IF labels[p] = None /\ p \in DOMAIN items THEN items[p] ELSE labels[p]]

\* _LoadCache: what is past the end of a cache that was cut may be anything.
CacheItems(l, bin) ==
    IF bin = None THEN {}
    ELSE IF bin.whole THEN {Items(l, bin.of)}
    ELSE UNION { [found -> {<<l, bin.of>>, <<l, None>>}] : found \in SUBSET Lists[l] }

LoadCache(l) ==
    \E items \in CacheItems(l, lpls.bins[l][LplCrc32(lpls.version[l])]) :
        lpls' = [lpls EXCEPT !.next = l + 1, !.labels = Insert(@, items), !.missed = FALSE]

\* _LoadLpl and _SaveCache: there may be no file to write to, or its end be missing.
LoadLpl(l) ==
    LET v == lpls.version[l]
        bin == lpls.bins[l][LplCrc32(v)]
        written == IF Lists[l] = {} THEN {} ELSE { [of |-> v, whole |-> w] : w \in BOOLEAN }
    IN \E b \in {bin} \cup written :
         lpls' = [lpls EXCEPT !.next = l + 1, !.labels = Insert(@, Items(l, v)), !.missed = FALSE,
                              !.bins[l][LplCrc32(v)] = b]

Miss(l) == lpls' = [lpls EXCEPT !.next = l + 1, !.missed = TRUE]

Load(l) == lpls.next = l /\ (LoadCache(l) \/ LoadLpl(l) \/ Miss(l))

EditList(l) ==
    /\ lpls.version[l] < MaxVersion
    /\ lpls' = [lpls EXCEPT !.version[l] = @ + 1]

\* At any time, also while they are read.
Restart == lpls' = [lpls EXCEPT !.next = 1, !.labels = Labelled, !.missed = FALSE]

\* By the menu, or by start held when the application starts.
ClearCache == lpls' = [lpls EXCEPT !.bins = NoBins]

Next == Restart \/ ClearCache \/ \E l \in List : Load(l) \/ EditList(l)

Spec == Init /\ [][Next]_lpls
-----------------------------------------------------------------------------
TypeOK ==
    /\ lpls.version \in [List -> Version] /\ lpls.next \in 1 .. Len(Lists) + 1
    /\ lpls.missed \in BOOLEAN
    /\ \A p \in Path : lpls.labels[p] # None => lpls.labels[p][1] \in List

(* A playlist that is read gives each rom that has no label yet the one it *)
(* was last given, and no other, however often it was edited and cached;   *)
(* unless it could not be read, or its cache was cut when it was written,  *)
(* which is never noticed (RetroArchPlaylists::Load, _GetLplCrc32).        *)
Cut(l) == LET bin == lpls.bins[l][lpls.version[l]] IN bin # None /\ ~bin.whole
LabelsAreCurrent ==
    \A l \in List : Load(l) /\ ~lpls'.missed /\ ~Cut(l) =>
        \A p \in Path : lpls'.labels[p] = IF lpls.labels[p] = None /\ p \in Lists[l]
                                          THEN <<l, lpls.version[l]>> ELSE lpls.labels[p]
=============================================================================
