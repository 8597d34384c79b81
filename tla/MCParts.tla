-------------------------------- MODULE MCParts --------------------------------
(* The parts, with what makes their interesting cases happen.                *)
EXTENDS Parts

CONSTANTS t1, t2

MCThread == {t1, t2}
\* Two roms whose checksums share a place of the cache, both in the second list.
MCSlot(p) == 0
MCLists == <<{1}, {1, 2}>>
\* Versions of a core: what was chosen goes, or comes back.
MCOffer == << <<"b", "a">>, <<"b">> >>
\* An arcade game with the core's name, and two that are the same game to it.
MCCalled(g) == IF g = "own" THEN None ELSE "name"
\* A condition, one that runs over the end of the memory, and a core's code; and
\* two whose place, for their width, is not one in the memory.
MCTable ==
    [ga |-> << [kind |-> "if less", width |-> 1, address |-> 0, value |-> 1,
                count |-> 1, step |-> 1, add |-> 0],
               [kind |-> "increase", width |-> 2, address |-> 2, value |-> 3,
                count |-> 2, step |-> 1, add |-> 1],
               [kind |-> "code"] >>,
     gb |-> << [kind |-> "set", width |-> 2, address |-> 1, value |-> 3,
                count |-> 2, step |-> 1, add |-> 0],
               [kind |-> "if equal", width |-> 1, address |-> 7, value |-> 1,
                count |-> 1, step |-> 1, add |-> 0] >>,
     gc |-> << >>]

\* Rows of two, one and two consoles; one of them has two cores.
MCRows == <<<<"c1", "c2">>, <<"c3">>, <<"c4", "c5">>>>
MCCores(c) == IF c = "c2" THEN <<c, "k2">> ELSE <<c>>
MCBitOf(k) == IF k = "caps" THEN k ELSE "shift"
=============================================================================
