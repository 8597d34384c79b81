------------------------------- MODULE RomNames -------------------------------
(***************************************************************************)
(* What a rom is called goes by the checksum of its contents, cached by    *)
(* path, time and size (crc32_cache.h), which the threads of UpdateDetails *)
(* ask for (directory.cpp); then by the label of a playlist, see Playlists,*)
(* or the names the database has for the checksum (rom_name.cpp).  A file  *)
(* may fail to be read, and one that is written to be cut.  A file's       *)
(* contents and time are its version.  An entry of the cache is taken to be*)
(* written in one step, and its file to be cut between entries.  Checksums *)
(* and keys that collide are left out.                                     *)
(***************************************************************************)
EXTENDS Naturals

CONSTANTS
    Path,       \* the roms
    Slot(_),    \* their place in the cache: the low bits of the path's crc32
    Thread,     \* bound: threads of UpdateDetails under way
    SaveAfter,  \* misses after which the cache is saved
    MaxVersion, \* bound: how often a file is replaced
    None

VARIABLE names
(* names.rom: the version of each file; names.saved: the file of the cache *)
(* names.cache, names.misses: what is in memory; a checksum None is 0      *)
(* names.job: the threads                                                  *)
(* names.unread: history, the keys of roms that could not be read          *)

Slots == { Slot(p) : p \in Path }
NoEntry == [key |-> None, crc |-> None]
Idle == [at |-> "off", path |-> None, key |-> None, crc |-> None]

Init == names = [rom |-> [p \in Path |-> 0], saved |-> [s \in Slots |-> NoEntry],
                 cache |-> [s \in Slots |-> NoEntry], misses |-> 0,
                 job |-> [t \in Thread |-> Idle], unread |-> {}]

\* Crc32Cache::Save, whose result nobody looks at: nothing is written, or the
\* entries of some first slots, or all.
Written(cache, slots) == [s \in Slots |-> IF s \in slots THEN cache[s] ELSE NoEntry]
Save(saved, cache) == {saved} \cup { Written(cache, slots) : slots \in SUBSET Slots }

\* The application ends in order (the cache is saved) or not, and starts.
Restart == \E saved \in Save(names.saved, names.cache) :
    names' = [names EXCEPT !.saved = saved, !.cache = saved, !.misses = 0,
                           !.job = [t \in Thread |-> Idle]]

Replace(p) ==
    /\ names.rom[p] < MaxVersion
    /\ names' = [names EXCEPT !.rom[p] = @ + 1]

\* An operator named X_Bug is X as a plausible bug would have it; no definition
\* uses it, the checks are repeated with it to see that the properties notice.
Key_PathOnly(p) == <<p, 0>>

\* Crc32Cache::Get: the key, and a hit.
Key(p) == <<p, names.rom[p]>>

Lookup(t, p) ==
    /\ names.job[t].at = "off"
    /\ LET e == names.cache[Slot(p)]
           hit == e.key = Key(p)
       IN names' = [names EXCEPT !.job[t] =
             [at |-> IF hit THEN "name" ELSE "sum", path |-> p, key |-> Key(p),
              crc |-> IF hit THEN e.crc ELSE None]]

\* File::GetCrc32 reads the whole file, or answers 0; the entry is replaced
\* whichever it was.
Sum(t) ==
    /\ names.job[t].at = "sum"
    /\ \E read \in BOOLEAN :
         LET j == names.job[t]
             crc == IF read THEN <<j.path, names.rom[j.path]>> ELSE None
             cache == [names.cache EXCEPT ![Slot(j.path)] = [key |-> j.key, crc |-> crc]]
             full == names.misses + 1 > SaveAfter
         IN \E saved \in (IF full THEN Save(names.saved, cache) ELSE {names.saved}) :
              names' = [names EXCEPT !.job[t].at = "name", !.job[t].crc = crc, !.cache = cache,
                          !.misses = IF full THEN 0 ELSE @ + 1, !.saved = saved,
                          !.unread = IF read THEN @ ELSE @ \cup {j.key}]

\* The label or what the database says of the checksum; then the callback.
FindName(t) ==
    /\ names.job[t].at = "name"
    /\ names' = [names EXCEPT !.job[t] = Idle]

Next ==
    \/ Restart
    \/ \E p \in Path : Replace(p) \/ \E t \in Thread : Lookup(t, p)
    \/ \E t \in Thread : Sum(t) \/ FindName(t)

Spec == Init /\ [][Next]_names
-----------------------------------------------------------------------------
TypeOK ==
    /\ names.rom \in [Path -> 0 .. MaxVersion] /\ names.misses \in 0 .. SaveAfter
    /\ \A t \in Thread : names.job[t].at \in {"off", "sum", "name"}

(* A hit gives the checksum of the rom as it is, though it was replaced,   *)
(* evicted by another or saved before a crash in between; or 0, but only if*)
(* the rom as it is could once not be read (Crc32Cache::Get).              *)
HitsAreCurrent ==
    \A t \in Thread : names.job[t].at = "off" /\ names'.job[t].at = "name" =>
        LET j == names'.job[t]
        IN \/ j.crc = <<j.path, names.rom[j.path]>>
           \/ j.crc = None /\ <<j.path, names.rom[j.path]>> \in names.unread
=============================================================================
