--------------------------------- MODULE Caches ---------------------------------
(***************************************************************************)
(* The file a game is read from (Emulator::LoadRom): an entry of an archive*)
(* is first extracted into a cache, named by its checksum                  *)
(* (archive_manager.cpp, archive_reader.h), and an arcade game whose file  *)
(* has another name is first copied into one under the name the core knows *)
(* (arcade_manager.cpp).  Both caches are a CacheManager (cache_manager.h):*)
(* a directory on the card and a map of what is in it, read once, at the   *)
(* start.                                                                  *)
(*                                                                         *)
(* Assumed: a card that keeps the space at the end of a copy's name, or one*)
(* that drops it, is told by rom.space; nobody else writes to the caches,  *)
(* and only one thread has a reader open, which nothing sees to.           *)
(***************************************************************************)
EXTENDS Naturals, Sequences, Sift

CONSTANTS
    Archived,   \* the entries of archives
    Solid,      \* those in a solid block of a 7z archive, not alone in it
    Arcade,     \* the arcade games' files
    Called(_),  \* the name the core knows one by, None when it is to be used as it is
    MaxSize,    \* of a cache's map
    MaxFiles,   \* bound: files written
    None

VARIABLE rom
(* rom.space: the card keeps the space                                     *)
(* rom.card: what the file of each cached name holds, "none" when there is *)
(*   none; rom.files: those there are, the oldest first                    *)
(* rom.map: the keys of the two _cache, the oldest first                   *)
(* rom.at: the game that is being extracted or copied, None between two    *)
(* rom.asked, rom.got: the game that was last asked for and what was read  *)
(* rom.cut: history, the names whose file was half written at the start    *)
(* rom.written: bound                                                      *)

AnyGame == Archived \cup Arcade
CacheName == Archived \cup ({ Called(g) : g \in Arcade } \ {None})
NameOf(g) == IF g \in Arcade THEN Called(g) ELSE g
Kind == {"archive", "arcade"}
KindOf(n) == IF n \in Archived THEN "archive" ELSE "arcade"
\* A key of the map: the scan takes a copy's space for a part of its name.
Key(n) == [name |-> n, space |-> FALSE]
Scanned(n, space) == [name |-> n, space |-> space /\ n \notin Archived]
-----------------------------------------------------------------------------
(* CacheManager.                                                           *)

IsInCache(r, n) == \E i \in DOMAIN r.map[KindOf(n)] : r.map[KindOf(n)][i] = Key(n)

\* One only; its file stays, as it is removed by its bare name.
CheckSize(keys) == IF Len(keys) <= MaxSize THEN keys ELSE Tail(keys)

Set(r, n) == [r EXCEPT !.map[KindOf(n)] = CheckSize(Append(@, Key(n)))]

\* The constructor; nothing that was under way goes on.
Start(r) ==
    LET found(k) == Only(r.files, { n \in CacheName : KindOf(n) = k })
        keys(k) == [i \in DOMAIN found(k) |-> Scanned(found(k)[i], r.space)]
    IN [r EXCEPT !.map = [k \in Kind |-> CheckSize(keys(k))], !.at = None, !.asked = None,
                 !.got = "none", !.cut = { n \in CacheName : r.card[n] = "part" }]

Init == \E space \in BOOLEAN :
    rom = Start([space |-> space, card |-> [n \in CacheName |-> "none"], files |-> <<>>, at |-> None,
                 map |-> [k \in Kind |-> <<>>], asked |-> None, got |-> "none", cut |-> {},
                 written |-> 0])

Restart == rom' = Start(rom)

\* An operator named X_Bug is X as a plausible bug would have it; no definition
\* uses it, the checks are repeated with it to see that the properties notice.
ClearCache_FilesOnly ==
    /\ rom.at = None
    /\ rom' = [rom EXCEPT !.card = [n \in CacheName |-> "none"], !.files = <<>>, !.got = "none",
                          !.asked = None, !.cut = {}]

\* The menu: the files of both go, then ClearCache empties both maps.
ClearCache ==
    /\ rom.at = None
    /\ rom' = [rom EXCEPT !.card = [n \in CacheName |-> "none"], !.files = <<>>, !.got = "none",
                          !.asked = None, !.cut = {}, !.map = [k \in Kind |-> <<>>]]
-----------------------------------------------------------------------------
(* GetCachedPath of the two managers, and what is then read.               *)

Read(r, g) == [r EXCEPT !.at = None, !.asked = g, !.got = r.card[NameOf(g)]]
Nothing(r, g) == [r EXCEPT !.at = None, !.asked = g, !.got = "none"]
Itself(r, g) == [r EXCEPT !.at = None, !.asked = g, !.got = "whole"]

\* NeedReplace, GetRomName: as it is.
UseItself(g) == rom.at = None /\ g \in Arcade /\ Called(g) = None /\ rom' = Itself(rom, g)

UseCached(g) == rom.at = None /\ NameOf(g) # None /\ IsInCache(rom, NameOf(g)) /\ rom' = Read(rom, g)

\* Open or ExtractByHash finds nothing: the archive is gone or is another by now.
NotFound(g) ==
    /\ rom.at = None /\ g \in Archived /\ ~IsInCache(rom, g)
    /\ rom' = Nothing(rom, g)

\* SCE_O_TRUNC; the file's time is when it is written.
Begin(g) ==
    /\ rom.at = None /\ NameOf(g) # None /\ ~IsInCache(rom, NameOf(g)) /\ rom.written < MaxFiles
    /\ rom' = [rom EXCEPT !.at = g, !.card[NameOf(g)] = "part", !.written = @ + 1,
                          !.files = Append(Only(@, CacheName \ {NameOf(g)}), NameOf(g))]

\* ExtractCurrent of a 7z archive writes the whole block it unpacked.
Contents(g) == IF g \in Solid THEN "block" ELSE "whole"

Done ==
    /\ rom.at # None
    /\ LET n == NameOf(rom.at)
           r == Set([rom EXCEPT !.card[n] = Contents(rom.at)], n)
       IN rom' = Read([r EXCEPT !.cut = @ \ {n}], rom.at)

\* What was written stays; an arcade game is used under the name it has.
Failed ==
    /\ rom.at # None
    /\ rom' = IF rom.at \in Arcade THEN Itself(rom, rom.at) ELSE Nothing(rom, rom.at)

Next ==
    \/ Restart \/ ClearCache \/ Done \/ Failed
    \/ \E g \in AnyGame : UseItself(g) \/ UseCached(g) \/ NotFound(g) \/ Begin(g)

Spec == Init /\ [][Next]_rom
-----------------------------------------------------------------------------
TypeOK ==
    /\ rom.card \in [CacheName -> {"none", "part", "whole", "block"}] /\ rom.cut \subseteq CacheName
    /\ rom.at \in AnyGame \cup {None} /\ rom.asked \in AnyGame \cup {None}
    /\ rom.files \in Seq(CacheName) /\ rom.written \in 0 .. MaxFiles

(* The game that is read is whole, through failed extractions, full caches,*)
(* a cleared cache and a restart amid an extraction, unless its file was   *)
(* half written when the application started, which takes it for a cached  *)
(* one, or it shares its block (GetCachedPath, CacheManager, UseCached).   *)
LoadsWholeGames ==
    LET n == NameOf(rom.asked)
    IN rom.asked # None /\ rom.got # "whole" =>
           \/ rom.got = "none" /\ rom.asked \in Archived /\ ~IsInCache(rom, n)
           \/ rom.got = "part" /\ n \in rom.cut
           \/ rom.got = "block" /\ rom.asked \in Solid
=============================================================================
