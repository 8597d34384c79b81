--------------------------------- MODULE Cheats ---------------------------------
(***************************************************************************)
(* The cheats of a game (cheat.cpp): a thread that, once the game has run  *)
(* a while, applies those that are on in every frame, straight to the      *)
(* core's memory or by the core's own codes, or waits until the menu turns *)
(* one on.  A cheat sets, raises or lowers a value, over a number of       *)
(* places, or is the condition of the next.                                *)
(*                                                                         *)
(* Left out: cheats of less than a byte, whose address moves on each time  *)
(* they are applied (cheat.cpp:329), and the order of bytes.  Assumed: the *)
(* 10 ms of Stop(true) and the loading of the next game are longer than a  *)
(* sleep of this thread.                                                   *)
(***************************************************************************)
EXTENDS Naturals, Sequences

CONSTANTS
    Table,      \* Table[g]: the cheats of the game g, a sequence, empty without a file
    Memory,     \* the size of the core's memory, in bytes
    Base,       \* the values of a byte
    None

VARIABLE cheat
(* cheat.game, cheat.status: the game that is loaded, gStatus              *)
(* cheat.list: the game the list was loaded for; cheat.on: those enabled   *)
(* cheat.ram: the game's memory; cheat.of: whose memory _memory_data is    *)
(* cheat.at: where the thread is; cheat.next, cheat.run, cheat.applied: its*)
(*   index, run_cheat, applied                                             *)
(* cheat.keep: _keep_running; cheat.sema: 0 or 1; cheat.due: the menu has  *)
(*   switched and is about to signal; cheat.warm: 100 frames have passed   *)
(* cheat.bad: history, memory was touched that is not the game's           *)
(* cheat.out: history, the cheats of the list that reached past the memory *)

Games == DOMAIN Table
Byte == 0 .. Base - 1
List == IF cheat.list = None THEN <<>> ELSE Table[cheat.list]

Init == cheat = [game |-> None, status |-> "browser", list |-> None, on |-> {},
                 ram |-> [a \in 0 .. Memory - 1 |-> 0], of |-> None, at |-> "off", next |-> 1,
                 run |-> TRUE, applied |-> FALSE, keep |-> FALSE, sema |-> 0, due |-> FALSE,
                 warm |-> FALSE, bad |-> FALSE, out |-> {}]
-----------------------------------------------------------------------------
(* _ApplyRetro: what a cheat of width w at the address a reads and writes, *)
(* in words of Base.                                                       *)

Inside(a, w) == a + w <= Memory
Word(w) == IF w = 1 THEN Base ELSE Base * Base
Mask(w) == Word(w) - 1

\* Anything is read past the end; what is written there is lost to the model.
ValueAt(ram, a, w) ==
    IF ~Inside(a, w) THEN 0 .. Word(w) - 1
    ELSE {IF w = 1 THEN ram[a] ELSE ram[a] + Base * ram[a + 1]}
Poke(ram, a, w, v) ==
    [b \in DOMAIN ram |-> CASE b = a -> v % Base
                           [] b = a + 1 /\ w = 2 -> (v \div Base) % Base
                           [] OTHER -> ram[b]]

\* An operator named X_Bug is X as a plausible bug would have it; no definition
\* uses it, the checks are repeated with it to see that the properties notice.
NextPlace_PastEnd(c, a) == a + c.step * c.width
\* The next place wraps at the end of the memory, the value at the mask.
NextPlace(c, a) == (a + c.step * c.width) % Memory
NextValue(c, v) == (v + c.add) % Mask(c.width)

\* Places and values from the first on, for repeat_count.
Place(c) == LET p[i \in 1 .. c.count] == IF i = 1 THEN c.address ELSE NextPlace(c, p[i - 1]) IN p
Values(c, v) == LET f[i \in 1 .. c.count] == IF i = 1 THEN v ELSE NextValue(c, f[i - 1]) IN f
AllInside(c) == \A i \in 1 .. c.count : Inside(Place(c)[i], c.width)
Written(ram, c, v) ==
    LET r[i \in 0 .. c.count] ==
          IF i = 0 THEN ram ELSE Poke(r[i - 1], Place(c)[i], c.width, Values(c, v)[i])
    IN r[c.count]

Target(c, now) == CASE c.kind = "set" -> c.value
                    [] c.kind = "increase" -> (now + c.value) % Word(c.width)
Holds(c, now) == CASE c.kind = "if equal" -> c.value = now
                   [] c.kind = "if less" -> c.value < now
Conditions == {"if equal", "if less"}

\* What a cheat came to, if now is what it read.
Effect(s, c, now) ==
    IF c.kind \in Conditions THEN [s EXCEPT !.run = Holds(c, now)]
    ELSE [s EXCEPT !.ram = Written(@, c, Target(c, now))]
Reaches(c) == ~Inside(c.address, c.width) \/ (c.kind \notin Conditions /\ ~AllInside(c))

\* The cheat i, and whether the one before it lets it run: a skipped cheat lets
\* the next one run.
ApplyRetro(s, i, c) ==
    IF ~s.run THEN {[s EXCEPT !.run = TRUE]}
    ELSE LET r == [s EXCEPT !.of = IF @ = None THEN s.game ELSE @,
                            !.out = IF Reaches(c) THEN @ \cup {i} ELSE @]
         IN IF r.of # r.game THEN {[r EXCEPT !.bad = TRUE]}
            ELSE { Effect(r, c, now) : now \in ValueAt(r.ram, c.address, c.width) }

\* Cheat::Apply: a code goes to the core, whatever run_cheat says.
Apply(s, i) == IF List[i].kind = "code" THEN {s} ELSE ApplyRetro(s, i, List[i])
-----------------------------------------------------------------------------
(* _CheatThread.                                                           *)

\* CleanMemory.
Warmed ==
    /\ cheat.at = "warm" /\ (cheat.warm \/ ~cheat.keep)
    /\ cheat' = [cheat EXCEPT !.at = "top", !.of = None]

\* Any other status ends the thread, that of a rewind too.
Top ==
    /\ cheat.at = "top"
    /\ cheat' = IF cheat.keep /\ cheat.status \in {"game", "menu"}
                THEN [cheat EXCEPT !.at = "apply", !.next = 1, !.run = TRUE, !.applied = FALSE]
                ELSE [cheat EXCEPT !.at = "off"]

ApplyNext ==
    /\ cheat.at = "apply" /\ cheat.next <= Len(List)
    /\ IF cheat.next \in cheat.on
       THEN cheat' \in Apply([cheat EXCEPT !.next = @ + 1, !.applied = TRUE], cheat.next)
       ELSE cheat' = [cheat EXCEPT !.next = @ + 1]

Rest ==
    /\ cheat.at = "apply" /\ cheat.next > Len(List)
    /\ cheat' = [cheat EXCEPT !.at = IF cheat.applied THEN "delay" ELSE "wait"]
DelayOver == cheat.at = "delay" /\ cheat' = [cheat EXCEPT !.at = "top"]
Wakes == cheat.at = "wait" /\ cheat.sema = 1 /\ cheat' = [cheat EXCEPT !.at = "top", !.sema = 0]
-----------------------------------------------------------------------------
(* The emulator and the menu.                                              *)

\* LoadRom: the list is loaded anew, some of it switched on in its file; the
\* thread only if there is one.
LoadRom(g, on) ==
    /\ cheat.game = None /\ cheat.at = "off"
    /\ cheat' = [cheat EXCEPT !.game = g, !.status = "game", !.list = g, !.on = on, !.warm = FALSE,
                   !.ram = [a \in DOMAIN @ |-> 0], !.out = {},
                   !.keep = Len(Table[g]) > 0, !.at = IF Len(Table[g]) > 0 THEN "warm" ELSE "off"]

\* UnloadGame: the status, later Stop(true), and 10 ms later the game goes.
LeaveGame == cheat.status \in {"game", "menu"} /\ ~cheat.due /\ cheat' = [cheat EXCEPT !.status = "browser"]
StopThread ==
    /\ cheat.status = "browser" /\ cheat.game # None /\ cheat.keep
    /\ cheat' = [cheat EXCEPT !.keep = FALSE, !.sema = 1]
UnloadGame ==
    /\ cheat.status = "browser" /\ cheat.game # None /\ ~cheat.keep
    /\ cheat.at \in {"off", "warm", "delay"}
    /\ cheat' = [cheat EXCEPT !.game = None]

Frame ==
    /\ cheat.status = "game"
    /\ \/ ~cheat.warm /\ cheat' = [cheat EXCEPT !.warm = TRUE]
       \/ \E v \in Byte : cheat' = [cheat EXCEPT !.ram[0] = v]
Toggle == \/ cheat.status = "game" /\ cheat' = [cheat EXCEPT !.status = "menu"]
          \/ cheat.status = "menu" /\ ~cheat.due /\ cheat' = [cheat EXCEPT !.status = "game"]
Rewind == \/ cheat.status = "game" /\ cheat' = [cheat EXCEPT !.status = "rewind"]
          \/ cheat.status = "rewind" /\ cheat' = [cheat EXCEPT !.status = "game"]

\* The menu's item, then ChangeCheatConfig.
Switch(i) ==
    /\ cheat.status = "menu" /\ ~cheat.due /\ i \in DOMAIN List
    /\ cheat' = [cheat EXCEPT !.on = IF i \in @ THEN @ \ {i} ELSE @ \cup {i}, !.due = TRUE]
ChangeCheatConfig == cheat.due /\ cheat' = [cheat EXCEPT !.sema = 1, !.due = FALSE]

Next ==
    \/ Warmed \/ Top \/ ApplyNext \/ Rest \/ DelayOver \/ Wakes
    \/ (\E g \in Games : \E on \in SUBSET DOMAIN Table[g] : LoadRom(g, on)) \/ LeaveGame \/ StopThread \/ UnloadGame
    \/ Frame \/ Toggle \/ Rewind \/ (\E i \in 1 .. 3 : Switch(i)) \/ ChangeCheatConfig

Spec == Init /\ [][Next]_cheat
-----------------------------------------------------------------------------
TypeOK ==
    /\ cheat.ram \in [0 .. Memory - 1 -> Byte] /\ cheat.on \subseteq DOMAIN List
    /\ cheat.at \in {"off", "warm", "top", "apply", "delay", "wait"}
    /\ {cheat.game, cheat.list, cheat.of} \subseteq Games \cup {None}

(* No cheat touches memory of a game that was unloaded, whose address the  *)
(* class keeps; nor what is past the memory, however often it repeats, if  *)
(* the place its file gives is in the memory and a multiple of its width,  *)
(* which the code does not look at (Cheat::CleanMemory, Load, _ApplyRetro).*)
Fits(c) == Inside(c.address, c.width) /\ c.address % c.width = 0 /\ Memory % c.width = 0
StaysInItsMemory == ~cheat.bad /\ \A i \in cheat.out : ~Fits(List[i])

(* A thread that waits has nothing to apply, but for what the menu is just *)
(* about to tell it: one switched on while it looked at the others is not  *)
(* forgotten (Cheats::_CheatThread, Emulator::ChangeCheatConfig).          *)
EnabledAreApplied == cheat.at = "wait" => cheat.sema = 1 \/ cheat.due \/ cheat.on = {}
=============================================================================
