------------------------------ MODULE Parts_proofs ------------------------------
(***************************************************************************)
(* What the parts of the program that share no variable promise, for every *)
(* value of the constants.  A behaviour of Parts is a behaviour of one     *)
(* part, the others keep their initial states (part, constant after Init): *)
(* so every part has an invariant of its own, implied by its initial       *)
(* states and kept by its own steps, and PartInv is the conjunction of     *)
(* these.  The parts, in this order: the browser's picture, the sound on   *)
(* its way from the core to the port, the achievements and their textures, *)
(* the settings of core and frontend, the favourites, the names of the roms*)
(* and the playlists, the menu, the cheats, the files games are read from, *)
(* and the launcher.  TypeInv adds what the types of the records need      *)
(* besides, and the keyboard.  The theorems at the end read each promise   *)
(* off these.                                                              *)
(***************************************************************************)
EXTENDS Parts, Sift, FiniteSetTheorems, SequenceTheorems, WellFoundedInduction, TLAPS
(* The picture of the browser.  What a thread has loaded is its own until  *)
(* it hands it over, in the step after.                                    *)
PicJob == [at : {"off", "names", "load", "set"}, entry : Entry \cup {None}, tex : Texture \cup {None}]
PicRec ==
    [index : Entry, main : {"idle", "free", "start"}, tex : Texture \cup {None},
     live : SUBSET Texture, gpu : Texture \cup {None}, job : [Thread -> PicJob]]
PicTypes == state \in PicRec
PicOwners == \A t \in Thread :
    /\ state.job[t].tex # None => state.job[t].at = "set" /\ state.job[t].tex # state.tex
    /\ \A u \in Thread : u # t /\ state.job[t].tex # None => state.job[t].tex # state.job[u].tex
PicLive == /\ P!Owned \ {None} = state.live
           /\ state.gpu \in state.live \cup {None}
PicInv == PicTypes /\ PicOwners /\ PicLive
(* The sound.                                                              *)
OutputAt == {"off", "top", "fill", "waitToFill", "read", "waitToRead", "play"}
ResamplerAt == {"off", "take", "wait", "convert", "signal"}
SetterAt == {"idle", "output", "resampler", "latency", "deleteResampler", "deleteOutput"}
AudioRec ==
    [rate : Rate \cup {0}, ms : {1, 2}, output : BOOLEAN, resampler : BOOLEAN, latency : Nat,
     updated : BOOLEAN, in : 0 .. InSize, out : 0 .. OutSize, oat : OutputAt, rat : ResamplerAt,
     orun : BOOLEAN, rrun : BOOLEAN, osem : {0, 1}, rsem : {0, 1},
     core : {"run", "output", "resampler"}, set : SetterAt, mute : BOOLEAN, seen : Nat]
AudioTypes == state \in AudioRec
AudioInv == AudioTypes /\ A!NobodyWaitsInVain
(* The achievements.                                                       *)
RaRec ==
    [game : Game \cup {None}, status : {"browser", "game", "menu"},
     looked : {"browser", "game", "menu"}, online : BOOLEAN, session : {0, 1},
     asked : Game \cup {None}, step : {"off", "fill", "tab"}, list : Game \cup {None},
     tab : Game \cup {None}, shown : BOOLEAN, note : [R!Note -> R!Kind],
     pic : SUBSET R!Note, cache : SUBSET R!Note, kept : BOOLEAN, torn : BOOLEAN]
RaTypes == state \in RaRec
\* Only who is logged in asks, and for the game that is loaded.
Asked(r) ==
    /\ r.asked # None => r.online /\ r.asked = r.game
    /\ r.session = 1 => ~r.online
    /\ r.status = "browser" <=> r.game = None
    /\ r.step # "off" => r.online
\* Whose achievements there are, and whose the tab points at.
Listed(r) ==
    /\ r.list # None /\ ~r.kept => r.list = r.game
    /\ r.tab = IF r.step = "tab" THEN None ELSE r.list
    /\ r.step = "fill" => r.list = None
    /\ r.step = "tab" => IF r.list = None THEN r.torn ELSE r.list = r.asked
    /\ r.step = "off" /\ r.asked # None /\ ~r.kept => r.list = None
\* A tab that is shown has some, unless it is being made.
Visible(r) ==
    r.shown /\ r.looked = "menu" /\ r.status # "browser" /\ ~r.kept /\ ~r.torn =>
        r.step = "off" /\ r.list # None
Notes(r) == /\ r.pic \subseteq r.cache
            /\ \A n \in r.pic : r.note[n] # "none"
RaAsked == Asked(state)
RaListed == Listed(state)
RaVisible == Visible(state)
RaNotes == Notes(state)
RaInv == RaTypes /\ RaAsked /\ RaListed /\ RaVisible /\ RaNotes
(* The settings.                                                           *)
CfgRec ==
    [vary : Vary, plain : Value \cup {0}, option : Words, device : Words, own : BOOLEAN,
     by : S!Version \cup {None}, game : S!Rom \cup {None}, version : S!Version, inited : BOOLEAN,
     flag : BOOLEAN, used : Words, step : {"ui", "start", "kept", "load", "save"},
     then : {"ui", "start", "kept", "load"}, path : S!Rom \cup {None}, keys : Value \cup {0},
     port : Words, behind : SUBSET S!Told, file : [S!Rom \cup {None} -> Files \cup {None}],
     set : [S!Rom -> Value \cup {0, None}]]
\* What the versions of the core offer, and what was checked against that.
Options(v) == { Offer[v][i] : i \in DOMAIN Offer[v] }
Checked(c) == c.by # None => c.option \in Options(c.by) /\ c.device \in Options(c.by) \cup {S!Unset}
Offered(c) == /\ Checked(c) /\ c.port \in Options(c.version) \cup {S!Unset}
              /\ \A p \in S!Rom \cup {None} : S!Whole(c.file[p]) => Checked(c.file[p])
\* How far a game's start is, also while a file is written; and where to.
Phase(c) == IF c.step = "save" THEN c.then ELSE c.step
Paths(c) ==
    /\ c.step = "save" => c.file[c.path] = None
    /\ c.step = "save" /\ c.path # None => c.own /\ c.path = c.game /\ c.then # "load"
    /\ c.step = "save" /\ c.then = "kept" => c.path # None
    /\ c.step = "load" /\ c.file[None] # None => c.file[None].own = c.own
    /\ Phase(c) \in {"start", "kept"} => c.game # None
\* What was last set in a game is in its file, and in force while it is loaded,
\* but for the moments in which the settings of the core are.
LastSet(c) ==
    /\ \A g \in Tuned : c.set[g] # None =>
          (c.step = "save" /\ c.path = g) \/ (S!Whole(c.file[g]) /\ c.file[g].plain = c.set[g])
    /\ c.game \in Tuned /\ Phase(c) # "load" /\ c.own /\ c.set[c.game] # None => c.plain = c.set[c.game]
\* What the core and the pad go by is in f, the memory or a file.
Uses(c, f) == ~c.flag /\ "options" \notin c.behind => c.used = f.option
Plugs(c, f) == /\ "controls" \notin c.behind => c.keys = f.plain
               /\ "device" \notin c.behind /\ f.device \in Options(c.version) => c.port = f.device
InUse(c) ==
    /\ c.option # None
    /\ \A p \in S!Rom : S!Whole(c.file[p]) => c.file[p].option # None
    /\ c.game # None =>
        /\ Phase(c) # "load" => Uses(c, c)
        /\ Phase(c) \in {"ui", "kept"} => Plugs(c, c)
        /\ (c.step = "kept" \/ Phase(c) = "load") /\ S!Whole(c.file[c.game]) =>
              Uses(c, c.file[c.game]) /\ Plugs(c, c.file[c.game])
CfgOk(c) == c \in CfgRec /\ Offered(c) /\ Paths(c) /\ LastSet(c) /\ InUse(c)
CfgInv == CfgOk(state)

(* The favourites.                                                         *)
FavRec ==
    [map : Maps, saved : Maps \cup {None}, there : SUBSET F!Card, tab : {"browser", "favorite"},
     index : Nat, busy : {"key", "draw", "remove", "write"}, dialog : BOOLEAN, bad : BOOLEAN,
     torn : BOOLEAN]
FavTypes == state \in FavRec
\* A key finds an entry at the index.
FavIndex == state.tab = "favorite" /\ (state.busy = "key" \/ state.dialog) => state.index < F!Size
FavDialog == state.dialog => state.tab = "favorite" /\ state.busy \in {"key", "draw"}
FavThere == \A n \in DOMAIN state.map : <<n, state.map[n]>> \in state.there
FavInv == FavTypes /\ FavIndex /\ FavDialog /\ FavThere /\ F!UsesEntry /\ F!ShownIsSaved

(* The names of the roms.                                                  *)
Sums == Path \X Nat
Sum == [key : Sums \cup {None}, crc : Sums \cup {None}]
NamesJob == [at : {"off", "sum", "name"}, path : Path \cup {None}, key : Sums \cup {None},
             crc : Sums \cup {None}]
NamesRec ==
    [rom : [Path -> 0 .. MaxVersion], saved : [N!Slots -> Sum], cache : [N!Slots -> Sum],
     misses : 0 .. SaveAfter, job : [Thread -> NamesJob], unread : SUBSET Sums]
NamesTypes == state \in NamesRec
\* A checksum may be of a later version than the key it is kept under, which
\* is then of a version that does not come again; or of a rom that was not read.
Fits(e, rom, unread) ==
    \/ e.key = None
    \/ e.key \in unread /\ e.crc = None
    \/ \E p \in Path : \E v \in 0 .. rom[p] : \E w \in v .. rom[p] : e.key = <<p, v>> /\ e.crc = <<p, w>>
Fit(entries, r) == \A s \in N!Slots : Fits(entries[s], r.rom, r.unread)
Looking(r) == \A t \in Thread : r.job[t].at # "off" =>
    /\ r.job[t].path \in Path
    /\ r.job[t].at = "sum" => \E v \in 0 .. r.rom[r.job[t].path] : r.job[t].key = <<r.job[t].path, v>>
NamesInv == NamesTypes /\ Fit(state.cache, state) /\ Fit(state.saved, state) /\ Looking(state)

(* The playlists.                                                          *)
Bin == [of : Y!Version, whole : BOOLEAN]
LabelOf(l) == {l} \X (Y!Version \cup {None})
PlayLabel == UNION { LabelOf(l) : l \in Y!List }
PlayRec ==
    [version : [Y!List -> Y!Version], bins : [Y!List -> [Y!Version -> Bin \cup {None}]],
     next : 1 .. Len(Lists) + 1, labels : [Path -> PlayLabel \cup {None}], missed : BOOLEAN]
\* A cache is found by the version it is of.
OfTheirKey == \A l \in Y!List : \A k \in Y!Version : state.bins[l][k] # None => state.bins[l][k].of = k
PlayInv == state \in PlayRec /\ OfTheirKey

(* The menu.  What is pushed over a tab has the table of keys to itself,   *)
(* so the bindings are those of a tab, below, or of what opened last.      *)
Owner == M!Tab \cup {"ui", "boot", "freed", None}
Bound == [M!Key -> Owner]
Level == [by : M!Widget, keys : [M!Key -> Owner \cup M!Widget]]
Disk == [marked : SUBSET Image, current : Image]
MenuStatus == {"boot", "ui", "run", "menu"}
MenuRec ==
    [status : MenuStatus, seen : MenuStatus, cur : M!Tab, shown : SUBSET M!Tab,
     keys : [M!Key -> Owner \cup M!Widget], levels : Seq(Level), open : SUBSET M!Widget,
     multi : BOOLEAN, image : Image, disk : Disk \cup {None}, amiss : BOOLEAN, favs : BOOLEAN,
     crash : BOOLEAN]
OwnKeys(w) == [k \in M!Key |-> IF k \in M!KeysOf(w) THEN w ELSE None]
\* Nothing is open, or one over the tab, or a question over a list; b: the keys of the tab.
Bare(m, b) == m.levels = <<>> /\ m.open = {} /\ m.keys = b
OneOver(m, w, b) ==
    /\ m.levels = << [by |-> w, keys |-> b] >> /\ m.open = {w} /\ m.keys = OwnKeys(w)
    /\ w = "confirm" => m.cur = "disk"
TwoOver(m, b) ==
    /\ m.levels = << [by |-> "combo", keys |-> b], [by |-> "confirm", keys |-> OwnKeys("combo")] >>
    /\ m.open = {"combo", "confirm"} /\ m.keys = OwnKeys("confirm") /\ m.cur = "state"
Shape(m, b) == Bare(m, b) \/ (\E w \in M!Widget : OneOver(m, w, b)) \/ TwoOver(m, b)
\* Something is open only while keys are looked at.
Looked(m) == /\ m.seen \in {"boot", "ui", "menu"} /\ m.status = m.seen
             /\ m.seen # "boot" => ("favorite" \in m.shown) = m.favs
\* There is always a tab to turn to, and the disk tab is shown while it is there.
Stays(m) == /\ {"system", "control", "core", "options"} \subseteq m.shown
            /\ m.disk # None <=> "disk" \in m.shown
            /\ ~m.crash
OnDisks(m) == m.cur = "disk" => m.disk # None /\ (m.multi \/ m.status = "ui")
OneIn(m) == m.disk # None /\ m.multi =>
    m.disk.marked = {m.disk.current} /\ (~m.amiss => m.disk.current = m.image)
\* In a menu the tab shown is the one the enter key is bound to; b: its keys.
Settled(m, b) ==
    /\ m.status = "boot" \/ (m.status = m.seen /\ m.seen # "run") => (m.multi <=> m.disk # None)
    /\ m.status = m.seen /\ m.seen \in {"ui", "menu"} => b["enter"] = m.cur /\ m.cur \in m.shown
    /\ m.status = "boot" => b["enter"] \in {"boot", m.cur}
\* The boot messages have three keys, and none of them in the browser.
BootKeys(m, b) == \A k \in M!Key : b[k] = "boot" =>
    k \in {"enter", "cancel", "square"} /\ (m.seen = "ui" => m.status = "boot")
MenuOk(m, b) ==
    /\ m \in MenuRec /\ Stays(m) /\ OnDisks(m) /\ OneIn(m)
    /\ m.levels # <<>> => Looked(m)
    /\ Shape(m, b) /\ Settled(m, b) /\ BootKeys(m, b)
MenuInv == \E b \in Bound : MenuOk(state, b)

(* or has been told to end; what it has seen off and not applied is off,   *)
(* or the menu is about to wake it.  Memory and values are of any kind.    *)
(* What a cheat reached past the memory from does not fit it.              *)
CheatRec(ram, run) ==
    [game : H!Games \cup {None}, status : {"browser", "game", "menu", "rewind"},
     list : H!Games \cup {None}, on : SUBSET Nat, ram : {ram}, of : H!Games \cup {None},
     at : {"off", "warm", "top", "apply", "delay", "wait"}, next : Nat, run : {run},
     applied : BOOLEAN, keep : BOOLEAN, sema : {0, 1}, due : BOOLEAN, warm : BOOLEAN, bad : BOOLEAN,
     out : SUBSET Nat]
ListOf(s) == IF s.list = None THEN <<>> ELSE Table[s.list]
Loaded(s) == s.game # None /\ s.of \in {None, s.game}
CheatTypes(s) == s \in CheatRec(s.ram, s.run) /\ s.on \subseteq DOMAIN ListOf(s)
OwnList(s) == s.game # None => s.list = s.game
Running(s) ==
    /\ s.at \in {"apply", "wait"} => Loaded(s)
    /\ s.at \in {"top", "delay"} /\ s.keep => Loaded(s)
    /\ s.at = "warm" /\ s.keep => s.game # None
Woken(s) ==
    /\ s.at = "apply" /\ ~s.applied => s.sema = 1 \/ s.due \/ \A i \in s.on : i >= s.next
    /\ s.at = "wait" => s.sema = 1 \/ s.due \/ s.on = {}
Outside(s) == \A i \in s.out : i \in DOMAIN ListOf(s) /\ ~H!Fits(ListOf(s)[i])
CheatOk(s) == CheatTypes(s) /\ OwnList(s) /\ Running(s) /\ Woken(s) /\ Outside(s) /\ ~s.bad
\* What the application of a cheat leaves alone.
Unmoved(r, s) ==
    /\ r.game = s.game /\ r.status = s.status /\ r.list = s.list /\ r.on = s.on
    /\ r.at = s.at /\ r.next = s.next /\ r.applied = s.applied /\ r.keep = s.keep
    /\ r.sema = s.sema /\ r.due = s.due /\ r.warm = s.warm
Applied(r, s) == r \in CheatRec(r.ram, r.run) /\ ~r.bad /\ Loaded(r) /\ Outside(r) /\ Unmoved(r, s)
CheatInv == CheatOk(state)

(* The files a game is read from.  A key the scan did not spoil stands for *)
(* a file that is there, and whole unless it was half written at the start;*)
(* what is being written is in no map.                                     *)
RomKey == [name : C!CacheName, space : BOOLEAN]
RomRec(written) ==
    [space : BOOLEAN, card : [C!CacheName -> {"none", "part", "whole", "block"}],
     files : Seq(C!CacheName), map : [C!Kind -> Seq(RomKey)], at : C!AnyGame \cup {None},
     asked : C!AnyGame \cup {None}, got : {"none", "part", "whole", "block"},
     cut : SUBSET C!CacheName, written : {written}]
OnCard(r) == r.files \in Seq({n \in C!CacheName : r.card[n] # "none"})
StoodFor(r, key) ==
    ~key.space => r.card[key.name] # "none" /\ (r.card[key.name] = "part" => key.name \in r.cut)
KeysFor(r, k) == {key \in RomKey : C!KindOf(key.name) = k /\ StoodFor(r, key)}
KeptWhole(r) == \A k \in C!Kind : r.map[k] \in Seq(KeysFor(r, k))
UnderWay(r) == r.at # None => C!NameOf(r.at) # None /\ ~C!IsInCache(r, C!NameOf(r.at))
InBlocks(r) == \A n \in C!CacheName : r.card[n] = "block" => n \in Solid
Answered(r) ==
    LET n == C!NameOf(r.asked)
    IN r.asked # None /\ r.got # "whole" =>
           \/ r.got = "none" /\ r.asked \in Archived /\ ~C!IsInCache(r, n)
           \/ r.got = "part" /\ n \in r.cut
           \/ r.got = "block" /\ r.asked \in Solid
RomOk(r) == r \in RomRec(r.written) /\ OnCard(r) /\ KeptWhole(r) /\ UnderWay(r) /\ InBlocks(r) /\ Answered(r)
RomInv == RomOk(state)

(* The launcher.  What is shown, or all while one chooses, is rows that    *)
(* are not empty; and until a key is pressed the console of the core that  *)
(* ran last is selected, if it is shown.                                   *)
Grid == Seq(Seq(L!Console) \ {<<>>}) \ {<<>>}
LaunchRec(last, saved, boot) ==
    [shown : (SUBSET L!Console) \ {{}}, last : {last}, saved : {saved}, choice : BOOLEAN, visible : Grid,
     x : Nat, y : Nat, core : [L!Console -> Nat], active : L!Console \cup {None},
     step : {"keys", "remove", "write", "off"}, boot : {boot}, fresh : BOOLEAN]
LaunchTypes(a) ==
    /\ a \in LaunchRec(a.last, a.saved, a.boot)
    /\ a.saved # None => a.saved.shown \in (SUBSET L!Console) \ {{}}
    /\ \A c \in L!Console : a.core[c] \in DOMAIN Cores(c)
Opens(a) == a.active # None => ~a.choice /\ a.active = L!Selected(a)
Served(a) ==
    LET c == L!Selected(a)
        chosen == {d \in a.shown : a.last \in L!ToSet(Cores(d))}
    IN  chosen # {} => c \in chosen /\ Cores(c)[a.core[c]] = a.last
Untouched(a) == a.fresh => a.step = "keys" /\ a.active = None /\ ~a.choice /\ Served(a)
LaunchOk(a) == LaunchTypes(a) /\ L!InRange(a) /\ Opens(a) /\ Untouched(a)
LaunchInv == LaunchOk(state)

-----------------------------------------------------------------------------
\* A thread that holds no texture may begin, end or take one that was free.
LEMMA JobSet ==
    ASSUME PicInv, NEW t \in Thread, NEW j \in PicJob, state.job[t].tex = None,
           state'.tex = state.tex, state'.gpu = state.gpu, state'.job = [state.job EXCEPT ![t] = j],
           \/ j.tex = None /\ state'.live = state.live
           \/ /\ j.at = "set" /\ j.tex \in Texture \ state.live
              /\ state'.live = state.live \cup {j.tex}
    PROVE  PicOwners' /\ PicLive'
<1>1. \A u \in Thread : state'.job[u] = IF u = t THEN j ELSE state.job[u]
  BY DEF PicInv, PicTypes, PicRec
<1>2. \A u \in Thread : state.job[u].tex # None => state.job[u].tex \in state.live
  BY DEF PicInv, PicLive, P!Owned
<1>3. state.tex # None => state.tex \in state.live
  BY DEF PicInv, PicLive, P!Owned
<1>4. PicOwners'
  BY <1>1, <1>2, <1>3 DEF PicInv, PicOwners
<1>5. PicLive'
  BY <1>1, PicAssumption DEF PicInv, PicLive, P!Owned
<1> QED
  BY <1>4, <1>5

LEMMA PicStep == ASSUME PicInv, P!Next PROVE PicInv'
<1>1. ASSUME NEW e \in Entry, P!Move(e)
      PROVE  PicInv'
  <2>1. PicTypes'
    BY <1>1, PicAssumption DEF P!Move, PicInv, PicTypes, PicRec, P!Owned, PicJob
  <2>2. PicOwners'
    BY <1>1, PicAssumption DEF P!Move, PicInv, PicOwners, PicRec, P!Owned, PicJob
  <2>3. PicLive'
    BY <1>1, PicAssumption DEF P!Move, PicInv, PicLive, PicRec, P!Owned, PicJob
  <2> QED
    BY <2>1, <2>2, <2>3 DEF PicInv
<1>2. ASSUME NEW e \in Entry, P!Square(e)
      PROVE  PicInv'
  <2>1. PicTypes'
    BY <1>2, PicAssumption DEF P!Square, PicInv, PicTypes, PicRec, P!Owned, PicJob
  <2>2. PicOwners'
    BY <1>2, PicAssumption DEF P!Square, PicInv, PicOwners, PicRec, P!Owned, PicJob
  <2>3. PicLive'
    BY <1>2, PicAssumption DEF P!Square, PicInv, PicLive, PicRec, P!Owned, PicJob
  <2> QED
    BY <2>1, <2>2, <2>3 DEF PicInv
<1>3. CASE P!UpdateFrees
  <2>1. PicTypes'
    BY <1>3, PicAssumption DEF P!UpdateFrees, PicInv, PicTypes, PicRec, P!Owned, PicJob
  <2>2. PicOwners'
    BY <1>3, PicAssumption DEF P!UpdateFrees, PicInv, PicOwners, PicRec, P!Owned, PicJob
  <2>3. PicLive'
    BY <1>3, PicAssumption DEF P!UpdateFrees, PicInv, PicTypes, PicOwners, PicLive, PicRec,
       P!Owned, PicJob
  <2> QED
    BY <2>1, <2>2, <2>3 DEF PicInv
<1>4. CASE P!UpdateStarts
  <2>1. ASSUME NEW t \in Thread, state.job[t] = P!Idle,
               state' = [state EXCEPT !.main = "idle",
                           !.job[t] = [at |-> "names", entry |-> state.index, tex |-> None]]
        PROVE  PicInv'
    <3> DEFINE j == [at |-> "names", entry |-> state.index, tex |-> None]
    <3>1. j \in PicJob /\ j.tex = None /\ state.job[t].tex = None
      BY <2>1 DEF PicInv, PicTypes, PicRec, PicJob, P!Idle
    <3>2. state' = [state EXCEPT !.main = "idle", !.job = [state.job EXCEPT ![t] = j]]
      BY <2>1
    <3> HIDE DEF j
    <3>3. PicTypes'
      BY <3>1, <3>2 DEF PicInv, PicTypes, PicRec
    <3>4. PicOwners' /\ PicLive'
      BY <3>1, <3>2, JobSet DEF PicInv, PicTypes, PicRec
    <3> QED
      BY <3>3, <3>4 DEF PicInv
  <2>2. CASE state' = [state EXCEPT !.main = "idle"]
    BY <2>2 DEF PicInv, PicTypes, PicRec, PicOwners, PicLive, P!Owned
  <2> QED
    BY <1>4, <2>1, <2>2, Zenon DEF P!UpdateStarts
<1>5. CASE P!Draw
  <2>1. PicTypes'
    BY <1>5, PicAssumption DEF P!Draw, PicInv, PicTypes, PicRec, P!Owned, PicJob
  <2>2. PicOwners'
    BY <1>5, PicAssumption DEF P!Draw, PicInv, PicOwners, PicRec, P!Owned, PicJob
  <2>3. PicLive'
    BY <1>5, PicAssumption DEF P!Draw, PicInv, PicLive, PicRec, P!Owned, PicJob
  <2> QED
    BY <2>1, <2>2, <2>3 DEF PicInv
<1>6. ASSUME NEW t \in Thread, P!Named(t)
      PROVE  PicInv'
  <2>1. PICK j \in PicJob :
          j.tex = None /\ state' = [state EXCEPT !.job = [state.job EXCEPT ![t] = j]]
    <3>1. state.job[t] \in PicJob
      BY DEF PicInv, PicTypes, PicRec
    <3>2. state.job[t].tex = None
      BY <1>6 DEF PicInv, PicOwners, P!Named
    <3> DEFINE j == IF state.index = state.job[t].entry THEN [state.job[t] EXCEPT !.at = "load"] ELSE P!Idle
    <3>3. j \in PicJob /\ j.tex = None
      BY <3>1, <3>2 DEF PicJob, P!Idle
    <3>4. state' = [state EXCEPT !.job = [state.job EXCEPT ![t] = j]]
      BY <1>6 DEF P!Named
    <3> QED
      BY <3>3, <3>4
  <2>2. PicTypes'
    BY <2>1 DEF PicInv, PicTypes, PicRec
  <2>3. state.job[t].tex = None
    BY <1>6 DEF PicInv, PicOwners, P!Named
  <2>4. PicOwners' /\ PicLive'
    BY <2>1, <2>3, JobSet DEF PicInv, PicTypes, PicRec
  <2> QED
    BY <2>2, <2>4 DEF PicInv
<1>7. ASSUME NEW t \in Thread, P!Loads(t)
      PROVE  PicInv'
  <2>1. state.job[t] \in PicJob /\ state.job[t].tex = None
    BY <1>7, Zenon DEF PicInv, PicTypes, PicRec, PicOwners, P!Loads
  <2>2. CASE state' = [state EXCEPT !.job[t].at = "set"]
    <3> DEFINE j == [state.job[t] EXCEPT !.at = "set"]
    <3>1. j \in PicJob /\ j.tex = None
      BY <2>1 DEF PicJob
    <3>2. state' = [state EXCEPT !.job = [state.job EXCEPT ![t] = j]]
      BY <2>2
    <3> HIDE DEF j
    <3>3. PicTypes'
      BY <3>1, <3>2 DEF PicInv, PicTypes, PicRec
    <3>4. PicOwners' /\ PicLive'
      BY <2>1, <3>1, <3>2, JobSet DEF PicInv, PicTypes, PicRec
    <3> QED
      BY <3>3, <3>4 DEF PicInv
  <2>3. ASSUME NEW x \in Texture \ state.live,
               state' = [state EXCEPT !.live = @ \cup {x}, !.job[t].at = "set", !.job[t].tex = x]
        PROVE  PicInv'
    <3> DEFINE j == [state.job[t] EXCEPT !.at = "set", !.tex = x]
    <3>1. j \in PicJob /\ j.at = "set" /\ j.tex = x
      BY <2>1 DEF PicJob
    <3>2. state' = [state EXCEPT !.live = state.live \cup {x}, !.job = [state.job EXCEPT ![t] = j]]
      BY <2>1, <2>3 DEF PicInv, PicTypes, PicRec, PicJob
    <3> HIDE DEF j
    <3>3. PicTypes'
      BY <3>1, <3>2 DEF PicInv, PicTypes, PicRec
    <3>4. PicOwners' /\ PicLive'
      BY <2>1, <3>1, <3>2, JobSet DEF PicInv, PicTypes, PicRec
    <3> QED
      BY <3>3, <3>4 DEF PicInv
  <2> QED
    BY <1>7, <2>2, <2>3, Zenon DEF P!Loads
<1>8. ASSUME NEW t \in Thread, P!Sets(t)
      PROVE  PicInv'
  <2>1. PicTypes'
    BY <1>8, PicAssumption DEF P!Sets, P!Idle, PicInv, PicTypes, PicRec, P!Owned, PicJob
  <2>2. PicOwners'
    BY <1>8, PicAssumption DEF P!Sets, P!Idle, PicInv, PicTypes, PicOwners, PicRec,
       P!Owned, PicJob
  <2>3. PicLive'
    BY <1>8, PicAssumption DEF P!Sets, P!Idle, PicInv, PicTypes, PicOwners, PicLive,
       PicRec, P!Owned, PicJob
  <2> QED
    BY <2>1, <2>2, <2>3 DEF PicInv
<1> QED
  BY <1>1, <1>2, <1>3, <1>4, <1>5, <1>6, <1>7, <1>8 DEF P!Next

\* What the fields are.
LEMMA AudioRanges ==
    ASSUME AudioTypes
    PROVE  /\ state.in \in 0 .. InSize /\ state.out \in 0 .. OutSize /\ {state.latency, state.seen} \subseteq Nat
           /\ {state.osem, state.rsem} \subseteq {0, 1} /\ state.rate \in Rate \cup {0} /\ state.ms \in {1, 2}
  BY AudioAssumption DEF AudioTypes, AudioRec

LEMMA AudioStep == ASSUME AudioInv, A!Next PROVE AudioInv'
<1>1. CASE A!SendAudioSample
  <2>1. AudioTypes'
    <3>1. (IF state.out < OutSize THEN state.out + 1 ELSE state.out) \in 0 .. OutSize
      BY AudioRanges, AudioAssumption DEF AudioInv, AudioTypes
    <3> QED
      BY <3>1, <1>1 DEF A!SendAudioSample, AudioTypes, AudioRec, AudioInv, OutputAt,
         ResamplerAt, SetterAt, A!Quiet
  <2>2. A!NobodyWaitsInVain'
    BY <1>1, AudioAssumption DEF A!SendAudioSample, A!Quiet, AudioInv, A!NobodyWaitsInVain,
       AudioRec, OutputAt, ResamplerAt, SetterAt
  <2> QED
    BY <2>1, <2>2 DEF AudioInv
<1>2. CASE A!Process
  <2>1. AudioTypes'
    <3>1. state.in + 1 \in 0 .. InSize
      BY AudioRanges, AudioAssumption, <1>2 DEF AudioInv, AudioTypes, A!Process
    <3> QED
      BY <3>1, <1>2 DEF A!Process, AudioTypes, AudioRec, AudioInv, OutputAt, ResamplerAt,
         SetterAt, A!Quiet
  <2>2. A!NobodyWaitsInVain'
    BY <1>2, AudioAssumption DEF A!Process, A!Quiet, AudioInv, A!NobodyWaitsInVain,
       AudioRec, OutputAt, ResamplerAt, SetterAt
  <2> QED
    BY <2>1, <2>2 DEF AudioInv
<1>3. CASE A!CoreSignals
  <2>1. AudioTypes'
    <3>1. CASE state' = [state EXCEPT !.osem = 1, !.core = "run"]
      BY <3>1 DEF AudioInv, AudioTypes, AudioRec, OutputAt, ResamplerAt, SetterAt
    <3>2. CASE state' = [state EXCEPT !.rsem = 1, !.core = "run"]
      BY <3>2 DEF AudioInv, AudioTypes, AudioRec, OutputAt, ResamplerAt, SetterAt
    <3> QED
      BY <1>3, <3>1, <3>2 DEF A!CoreSignals
  <2>2. A!NobodyWaitsInVain'
    BY <1>3, AudioAssumption DEF A!CoreSignals, AudioInv, AudioTypes, A!NobodyWaitsInVain,
       AudioRec, OutputAt, ResamplerAt, SetterAt
  <2> QED
    BY <2>1, <2>2 DEF AudioInv
<1>4. CASE A!SetLatency(2)
  <2>1. AudioTypes'
    BY <1>4, AudioAssumption, ZenonT(40) DEF A!SetLatency, A!Quiet, A!Size, AudioInv, AudioTypes,
       AudioRec, OutputAt, ResamplerAt, SetterAt
  <2>2. A!NobodyWaitsInVain'
    BY <1>4, AudioAssumption DEF A!SetLatency, A!Quiet, A!Size, AudioInv,
       A!NobodyWaitsInVain, AudioRec, OutputAt, ResamplerAt, SetterAt
  <2> QED
    BY <2>1, <2>2 DEF AudioInv
<1>5. CASE A!OutputTop
  <2>1. AudioTypes'
    BY <1>5, AudioAssumption DEF A!OutputTop, AudioInv, AudioTypes, AudioRec, OutputAt,
       ResamplerAt, SetterAt
  <2>2. A!NobodyWaitsInVain'
    BY <1>5, AudioAssumption DEF A!OutputTop, AudioInv, A!NobodyWaitsInVain, AudioRec,
       OutputAt, ResamplerAt, SetterAt
  <2> QED
    BY <2>1, <2>2 DEF AudioInv
<1>6. CASE A!OutputFill
  <2>1. AudioTypes'
    <3>1. state.latency \in Nat
      BY AudioRanges DEF AudioInv, AudioTypes
    <3>2. CASE state' = [state EXCEPT !.oat = "waitToFill", !.seen = state.latency]
      BY <3>1, <3>2 DEF AudioInv, AudioTypes, AudioRec, OutputAt, ResamplerAt, SetterAt
    <3>3. CASE state' = [state EXCEPT !.oat = "read", !.updated = FALSE]
      BY <3>1, <3>3 DEF AudioInv, AudioTypes, AudioRec, OutputAt, ResamplerAt, SetterAt
    <3> QED
      BY <1>6, <3>2, <3>3 DEF A!OutputFill
  <2>2. A!NobodyWaitsInVain'
    BY <1>6, AudioAssumption, ZenonT(40) DEF A!OutputFill, AudioInv, AudioTypes, A!NobodyWaitsInVain,
       AudioRec, OutputAt, ResamplerAt, SetterAt
  <2> QED
    BY <2>1, <2>2 DEF AudioInv
<1>7. CASE A!OutputRead
  <2>1. AudioTypes'
    <3> DEFINE oat(p) == IF state.orun THEN p ELSE "off"
    <3>1. \A p \in {"play", "waitToRead"} : oat(p) \in OutputAt
      BY DEF OutputAt
    <3>2. state.out > 0 => state.out - 1 \in 0 .. OutSize
      BY AudioRanges, AudioAssumption DEF AudioInv, AudioTypes
    <3> HIDE DEF oat
    <3>3. CASE state.out > 0 /\ state' = [state EXCEPT !.out = state.out - 1, !.oat = oat("play")]
      BY <3>1, <3>2, <3>3 DEF AudioInv, AudioTypes, AudioRec, OutputAt, ResamplerAt,
         SetterAt
    <3>4. CASE state' = [state EXCEPT !.oat = oat("waitToRead")]
      BY <3>1, <3>4 DEF AudioInv, AudioTypes, AudioRec, OutputAt, ResamplerAt, SetterAt
    <3> QED
      BY <1>7, <3>3, <3>4 DEF A!OutputRead, oat
  <2>2. A!NobodyWaitsInVain'
    <3> DEFINE oat(p) == IF state.orun THEN p ELSE "off"
    <3>1. CASE state.out > 0 /\ state' = [state EXCEPT !.out = state.out - 1, !.oat = oat("play")]
      BY <3>1, AudioRanges, AudioAssumption DEF AudioInv, AudioTypes, A!NobodyWaitsInVain,
         AudioRec
    <3>2. CASE ~(state.out > 0) /\ state' = [state EXCEPT !.oat = oat("waitToRead")]
      BY <3>2, AudioRanges, AudioAssumption DEF AudioInv, AudioTypes, A!NobodyWaitsInVain,
         AudioRec
    <3> QED
      BY <1>7, <3>1, <3>2 DEF A!OutputRead
  <2> QED
    BY <2>1, <2>2 DEF AudioInv
<1>8. CASE A!OutputWakes
  <2>1. AudioTypes'
    <3>1. CASE state' = [state EXCEPT !.oat = "fill", !.osem = 0]
      BY <3>1 DEF AudioInv, AudioTypes, AudioRec, OutputAt, ResamplerAt, SetterAt
    <3>2. CASE state' = [state EXCEPT !.oat = "read", !.osem = 0]
      BY <3>2 DEF AudioInv, AudioTypes, AudioRec, OutputAt, ResamplerAt, SetterAt
    <3> QED
      BY <1>8, <3>1, <3>2 DEF A!OutputWakes
  <2>2. A!NobodyWaitsInVain'
    BY <1>8, AudioAssumption DEF A!OutputWakes, AudioInv, AudioTypes, A!NobodyWaitsInVain,
       AudioRec, OutputAt, ResamplerAt, SetterAt
  <2> QED
    BY <2>1, <2>2 DEF AudioInv
<1>9. CASE A!OutputPlays
  <2>1. AudioTypes'
    BY <1>9, AudioAssumption DEF A!OutputPlays, AudioInv, AudioTypes, AudioRec, OutputAt,
       ResamplerAt, SetterAt
  <2>2. A!NobodyWaitsInVain'
    BY <1>9, AudioAssumption DEF A!OutputPlays, AudioInv, A!NobodyWaitsInVain, AudioRec,
       OutputAt, ResamplerAt, SetterAt
  <2> QED
    BY <2>1, <2>2 DEF AudioInv
<1>10. CASE A!ResamplerTake
  <2>1. AudioTypes'
    BY <1>10, AudioAssumption DEF A!ResamplerTake, AudioInv, AudioTypes, AudioRec,
       OutputAt, ResamplerAt, SetterAt
  <2>2. A!NobodyWaitsInVain'
    BY <1>10, AudioAssumption DEF A!ResamplerTake, AudioInv, A!NobodyWaitsInVain, AudioRec,
       OutputAt, ResamplerAt, SetterAt
  <2> QED
    BY <2>1, <2>2 DEF AudioInv
<1>11. CASE A!ResamplerWakes
  <2>1. AudioTypes'
    BY <1>11, AudioAssumption DEF A!ResamplerWakes, AudioInv, AudioTypes, AudioRec,
       OutputAt, ResamplerAt, SetterAt
  <2>2. A!NobodyWaitsInVain'
    BY <1>11, AudioAssumption DEF A!ResamplerWakes, AudioInv, A!NobodyWaitsInVain,
       AudioRec, OutputAt, ResamplerAt, SetterAt
  <2> QED
    BY <2>1, <2>2 DEF AudioInv
<1>12. CASE A!ResamplerConvert
  <2>1. AudioTypes'
    <3>1. PICK n \in 1 .. state.in : state' = IF state.out + n > OutSize THEN [state EXCEPT !.rat = "take"]
                      ELSE [state EXCEPT !.in = state.in - n, !.out = state.out + n, !.rat = "signal"]
      BY <1>12, Zenon DEF A!ResamplerConvert
    <3>2. state.in - n \in 0 .. InSize /\ (state.out + n > OutSize \/ state.out + n \in 0 .. OutSize)
      BY AudioRanges, AudioAssumption DEF AudioInv, AudioTypes
    <3>3. CASE state' = [state EXCEPT !.rat = "take"]
      BY <3>3 DEF AudioInv, AudioTypes, AudioRec, ResamplerAt
    <3>4. CASE /\ state' = [state EXCEPT !.in = state.in - n, !.out = state.out + n, !.rat = "signal"]
                /\ state.out + n \in 0 .. OutSize
      BY <3>2, <3>4 DEF AudioInv, AudioTypes, AudioRec, ResamplerAt
    <3> QED
      BY <3>1, <3>2, <3>3, <3>4
  <2>2. A!NobodyWaitsInVain'
    BY <1>12, AudioAssumption DEF A!ResamplerConvert, AudioInv, A!NobodyWaitsInVain,
       AudioRec, OutputAt, ResamplerAt, SetterAt
  <2> QED
    BY <2>1, <2>2 DEF AudioInv
<1>13. CASE A!ResamplerSignals
  <2>1. AudioTypes'
    BY <1>13, AudioAssumption DEF A!ResamplerSignals, AudioInv, AudioTypes, AudioRec,
       OutputAt, ResamplerAt, SetterAt
  <2>2. A!NobodyWaitsInVain'
    BY <1>13, AudioAssumption DEF A!ResamplerSignals, AudioInv, A!NobodyWaitsInVain,
       AudioRec, OutputAt, ResamplerAt, SetterAt
  <2> QED
    BY <2>1, <2>2 DEF AudioInv
<1>14. ASSUME NEW r \in Rate, A!Begin(r)
      PROVE  AudioInv'
  <2>1. AudioTypes'
    BY <1>14, AudioAssumption, ZenonT(40) DEF A!Begin, A!Quiet, AudioInv, AudioTypes, AudioRec,
       OutputAt, ResamplerAt, SetterAt
  <2>2. A!NobodyWaitsInVain'
    BY <1>14, AudioAssumption DEF A!Begin, A!Quiet, AudioInv, A!NobodyWaitsInVain,
       AudioRec, OutputAt, ResamplerAt, SetterAt
  <2> QED
    BY <2>1, <2>2 DEF AudioInv
<1>15. CASE A!StartOutput
  <2>1. AudioTypes'
    <3> DEFINE updated == state.output \/ state.updated
               rsem == IF state.resampler THEN 1 ELSE state.rsem
    <3>1. updated \in BOOLEAN
      OBVIOUS
    <3>2. rsem \in {0, 1}
      BY AudioRanges DEF AudioInv, AudioTypes
    <3>3. state' = [state EXCEPT !.output = TRUE, !.orun = TRUE, !.oat = "top", !.updated = updated,
                          !.set = "resampler", !.rrun = FALSE, !.rsem = rsem]
      BY <1>15 DEF A!StartOutput
    <3> HIDE DEF updated, rsem
    <3> QED
      BY <3>1, <3>2, <3>3, ZenonT(40) DEF AudioInv, AudioTypes, AudioRec, OutputAt, SetterAt
  <2>2. A!NobodyWaitsInVain'
    BY <1>15, AudioAssumption DEF A!StartOutput, AudioInv, A!NobodyWaitsInVain, AudioRec,
       OutputAt, ResamplerAt, SetterAt
  <2> QED
    BY <2>1, <2>2 DEF AudioInv
<1>16. CASE A!StartResampler
  <2>1. AudioTypes'
    <3>1. 0 \in 0 .. InSize
      BY AudioAssumption
    <3>2. CASE state' = [state EXCEPT !.set = "latency", !.resampler = FALSE, !.in = 0, !.rsem = 0]
      BY <3>1, <3>2, ZenonT(40) DEF AudioInv, AudioTypes, AudioRec, OutputAt, ResamplerAt, SetterAt
    <3>3. CASE state' = [state EXCEPT !.set = "latency", !.resampler = TRUE, !.rrun = TRUE, !.rat = "take"]
      BY <3>1, <3>3 DEF AudioInv, AudioTypes, AudioRec, OutputAt, ResamplerAt, SetterAt
    <3> QED
      BY <1>16, <3>2, <3>3 DEF A!StartResampler
  <2>2. A!NobodyWaitsInVain'
    BY <1>16, AudioAssumption DEF A!StartResampler, AudioInv, A!NobodyWaitsInVain,
       AudioRec, OutputAt, ResamplerAt, SetterAt
  <2> QED
    BY <2>1, <2>2 DEF AudioInv
<1>17. CASE A!LatencyAgain
  <2>1. AudioTypes'
    <3>1. A!Size(state.rate, state.ms) \in Nat
      BY AudioRanges DEF AudioInv, AudioTypes, A!Size
    <3> QED
      BY <3>1, <1>17 DEF A!LatencyAgain, AudioTypes, AudioRec, AudioInv, OutputAt,
         ResamplerAt, SetterAt, A!Quiet
  <2>2. A!NobodyWaitsInVain'
    BY <1>17, AudioAssumption DEF A!LatencyAgain, A!Size, AudioInv, A!NobodyWaitsInVain,
       AudioRec, OutputAt, ResamplerAt, SetterAt
  <2> QED
    BY <2>1, <2>2 DEF AudioInv
<1>18. CASE A!Mute
  <2>1. AudioTypes'
    BY <1>18, AudioAssumption, ZenonT(40) DEF A!Mute, A!Quiet, AudioInv, AudioTypes, AudioRec,
       OutputAt, ResamplerAt, SetterAt
  <2>2. A!NobodyWaitsInVain'
    BY <1>18, AudioAssumption DEF A!Mute, A!Quiet, AudioInv, A!NobodyWaitsInVain, AudioRec,
       OutputAt, ResamplerAt, SetterAt
  <2> QED
    BY <2>1, <2>2 DEF AudioInv
<1>19. CASE A!DeleteResampler
  <2>1. AudioTypes'
    <3>1. 0 \in 0 .. InSize
      BY AudioAssumption
    <3>2. (IF state.output THEN 1 ELSE state.osem) \in {0, 1}
      BY AudioRanges DEF AudioInv, AudioTypes
    <3> QED
      BY <3>1, <3>2, <1>19, ZenonT(40) DEF A!DeleteResampler, AudioTypes, AudioRec, AudioInv, OutputAt,
         ResamplerAt, SetterAt, A!Quiet
  <2>2. A!NobodyWaitsInVain'
    BY <1>19, AudioAssumption DEF A!DeleteResampler, AudioInv, A!NobodyWaitsInVain,
       AudioRec, OutputAt, ResamplerAt, SetterAt
  <2> QED
    BY <2>1, <2>2 DEF AudioInv
<1>20. CASE A!DeleteOutput
  <2>1. AudioTypes'
    BY <1>20, AudioAssumption DEF A!DeleteOutput, AudioInv, AudioTypes, AudioRec, OutputAt,
       ResamplerAt, SetterAt
  <2>2. A!NobodyWaitsInVain'
    BY <1>20, AudioAssumption DEF A!DeleteOutput, AudioInv, A!NobodyWaitsInVain, AudioRec,
       OutputAt, ResamplerAt, SetterAt
  <2> QED
    BY <2>1, <2>2 DEF AudioInv
<1>21. CASE A!Unmute
  <2>1. AudioTypes'
    BY <1>21, AudioAssumption DEF A!Unmute, A!Quiet, AudioInv, AudioTypes, AudioRec,
       OutputAt, ResamplerAt, SetterAt
  <2>2. A!NobodyWaitsInVain'
    BY <1>21, AudioAssumption DEF A!Unmute, A!Quiet, AudioInv, A!NobodyWaitsInVain,
       AudioRec, OutputAt, ResamplerAt, SetterAt
  <2> QED
    BY <2>1, <2>2 DEF AudioInv
<1> QED
  BY <1>1, <1>2, <1>3, <1>4, <1>5, <1>6, <1>7, <1>8, <1>9, <1>10, <1>11, <1>12, <1>13,
     <1>14, <1>15, <1>16, <1>17, <1>18, <1>19, <1>20, <1>21 DEF A!Next

\* The two differ in the notes and their pictures only.
Same(s, r) ==
    /\ s.game = r.game /\ s.status = r.status /\ s.looked = r.looked /\ s.online = r.online
    /\ s.session = r.session /\ s.asked = r.asked /\ s.step = r.step /\ s.list = r.list
    /\ s.tab = r.tab /\ s.shown = r.shown /\ s.kept = r.kept /\ s.torn = r.torn

\* A note comes with a picture of the cache's, or without one.
LEMMA AddIs ==
    ASSUME NEW r \in RaRec, Notes(r), NEW n \in R!Note, NEW kind \in R!Kind \ {"none"},
           NEW s \in R!Add(r, n, kind) \cup R!AddOwn(r, n, kind)
    PROVE  s \in RaRec /\ Same(s, r) /\ Notes(s)
<1> DEFINE with == [r EXCEPT !.note[n] = kind, !.pic = @ \cup {n}, !.cache = @ \cup {n}]
           bare == [r EXCEPT !.note[n] = kind, !.pic = @ \ {n}]
<1>1. with \in RaRec /\ Same(with, r) /\ Notes(with)
  <2>1. /\ with.note = [r.note EXCEPT ![n] = kind] /\ with.pic = r.pic \cup {n}
        /\ with.cache = r.cache \cup {n} /\ Same(with, r)
    BY DEF RaRec, Same
  <2>2. with.note \in [R!Note -> R!Kind] /\ r.note \in [R!Note -> R!Kind]
    BY DEF RaRec
  <2>3. with \in RaRec
    BY <2>2 DEF RaRec
  <2> HIDE DEF with
  <2>4. Notes(with)
    BY <2>1, <2>2 DEF Notes, RaRec
  <2> QED
    BY <2>1, <2>3, <2>4
<1>2. bare \in RaRec /\ Same(bare, r) /\ Notes(bare)
  <2>1. /\ bare.note = [r.note EXCEPT ![n] = kind] /\ bare.pic = r.pic \ {n}
        /\ bare.cache = r.cache /\ Same(bare, r)
    BY DEF RaRec, Same
  <2>2. bare.note \in [R!Note -> R!Kind] /\ r.note \in [R!Note -> R!Kind]
    BY DEF RaRec
  <2>3. bare \in RaRec
    BY <2>2 DEF RaRec
  <2> HIDE DEF bare
  <2>4. Notes(bare)
    BY <2>1, <2>2 DEF Notes, RaRec
  <2> QED
    BY <2>1, <2>3, <2>4
<1>3. s = with \/ s = bare
  BY DEF R!Add, R!AddOwn
<1> HIDE DEF with, bare
<1> QED
  BY <1>1, <1>2, <1>3

LEMMA ClearIs ==
    ASSUME NEW r \in RaRec
    PROVE  LET s == R!ClearAchievements(r) IN
           /\ s \in RaRec /\ Notes(s)
           /\ Same(s, [r EXCEPT !.list = None, !.tab = None])
<1> DEFINE c == R!Clear(r)
           s == R!ClearAchievements(r)
<1>1. c \in RaRec /\ c.pic = {} /\ Same(c, r)
  <2>1. R!NoNotes \in [R!Note -> R!Kind]
    BY DEF R!NoNotes, R!Kind
  <2> QED
    BY <2>1 DEF R!Clear, RaRec, Same
<1>2. s = [c EXCEPT !.list = None, !.tab = None]
  BY DEF R!ClearAchievements
<1> HIDE DEF c, s
<1>3. s \in RaRec /\ s.pic = {} /\ Same(s, [c EXCEPT !.list = None, !.tab = None])
  BY <1>1, <1>2 DEF RaRec, Same
<1>4. Same([c EXCEPT !.list = None, !.tab = None], [r EXCEPT !.list = None, !.tab = None])
  BY <1>1 DEF RaRec, Same
<1> QED
  BY <1>3, <1>4 DEF Notes, Same, s

\* What is asked, listed and shown does not depend on the notes.
LEMMA SameKeeps ==
    ASSUME NEW s, NEW r, Same(s, r), Asked(r), Listed(r), Visible(r)
    PROVE  Asked(s) /\ Listed(s) /\ Visible(s)
  BY DEF Same, Asked, Listed, Visible

LEMMA RaStep == ASSUME RaInv, R!Next PROVE RaInv'
<1>1. ASSUME NEW g \in Game, R!LoadGame(g)
      PROVE  RaInv'
  <2>1. RaTypes'
    BY <1>1, RaAssumption DEF R!LoadGame, R!Add, R!AddOwn, R!Remove, R!Clear,
       R!ClearAchievements, R!ClearTextureCache, R!Frame, R!NeedShow, R!NoNotes, R!Note,
       R!Kind, RaInv, RaTypes, RaRec, Notes, Asked, Listed, Visible
  <2>2. RaAsked'
    BY <1>1, RaAssumption DEF R!LoadGame, R!Add, R!AddOwn, R!Remove, R!Clear,
       R!ClearAchievements, R!ClearTextureCache, R!Frame, R!NeedShow, R!NoNotes, R!Note,
       R!Kind, RaInv, RaAsked, RaRec, Notes, Asked, Listed, Visible
  <2>3. RaListed'
    BY <1>1, RaAssumption DEF R!LoadGame, R!Add, R!AddOwn, R!Remove, R!Clear,
       R!ClearAchievements, R!ClearTextureCache, R!Frame, R!NeedShow, R!NoNotes, R!Note,
       R!Kind, RaInv, RaTypes, RaAsked, RaListed, RaVisible, RaNotes, RaRec, Notes, Asked,
       Listed, Visible
  <2>4. RaVisible'
    BY <1>1, RaAssumption DEF R!LoadGame, R!Add, R!AddOwn, R!Remove, R!Clear,
       R!ClearAchievements, R!ClearTextureCache, R!Frame, R!NeedShow, R!NoNotes, R!Note,
       R!Kind, RaInv, RaVisible, RaRec, Notes, Asked, Listed, Visible
  <2>5. RaNotes'
    BY <1>1, RaAssumption DEF R!LoadGame, R!Add, R!AddOwn, R!Remove, R!Clear,
       R!ClearAchievements, R!ClearTextureCache, R!Frame, R!NeedShow, R!NoNotes, R!Note,
       R!Kind, RaInv, RaNotes, RaRec, Notes, Asked, Listed, Visible
  <2> QED
    BY <2>1, <2>2, <2>3, <2>4, <2>5 DEF RaInv
<1>2. CASE R!TimePasses
  <2>1. RaTypes'
    BY <1>2, RaAssumption DEF R!TimePasses, R!Add, R!AddOwn, R!Remove, R!Clear,
       R!ClearAchievements, R!ClearTextureCache, R!Frame, R!NeedShow, R!NoNotes, R!Note,
       R!Kind, RaInv, RaTypes, RaRec, Notes, Asked, Listed, Visible
  <2>2. RaAsked'
    BY <1>2, RaAssumption DEF R!TimePasses, R!Add, R!AddOwn, R!Remove, R!Clear,
       R!ClearAchievements, R!ClearTextureCache, R!Frame, R!NeedShow, R!NoNotes, R!Note,
       R!Kind, RaInv, RaAsked, RaRec, Notes, Asked, Listed, Visible
  <2>3. RaListed'
    BY <1>2, RaAssumption DEF R!TimePasses, R!Add, R!AddOwn, R!Remove, R!Clear,
       R!ClearAchievements, R!ClearTextureCache, R!Frame, R!NeedShow, R!NoNotes, R!Note,
       R!Kind, RaInv, RaListed, RaRec, Notes, Asked, Listed, Visible
  <2>4. RaVisible'
    BY <1>2, RaAssumption DEF R!TimePasses, R!Add, R!AddOwn, R!Remove, R!Clear,
       R!ClearAchievements, R!ClearTextureCache, R!Frame, R!NeedShow, R!NoNotes, R!Note,
       R!Kind, RaInv, RaVisible, RaRec, Notes, Asked, Listed, Visible
  <2>5. RaNotes'
    BY <1>2, RaAssumption DEF R!TimePasses, R!Add, R!AddOwn, R!Remove, R!Clear,
       R!ClearAchievements, R!ClearTextureCache, R!Frame, R!NeedShow, R!NoNotes, R!Note,
       R!Kind, RaInv, RaNotes, RaRec, Notes, Asked, Listed, Visible
  <2> QED
    BY <2>1, <2>2, <2>3, <2>4, <2>5 DEF RaInv
<1>3. CASE R!Run
  <2>1. RaTypes'
    BY <1>3, RaAssumption DEF R!Run, R!Add, R!AddOwn, R!Remove, R!Clear,
       R!ClearAchievements, R!ClearTextureCache, R!Frame, R!NeedShow, R!NoNotes, R!Note,
       R!Kind, RaInv, RaTypes, RaRec, Notes, Asked, Listed, Visible
  <2>2. RaAsked'
    BY <1>3, RaAssumption DEF R!Run, R!Add, R!AddOwn, R!Remove, R!Clear,
       R!ClearAchievements, R!ClearTextureCache, R!Frame, R!NeedShow, R!NoNotes, R!Note,
       R!Kind, RaInv, RaAsked, RaRec, Notes, Asked, Listed, Visible
  <2>3. RaListed'
    BY <1>3, RaAssumption DEF R!Run, R!Add, R!AddOwn, R!Remove, R!Clear,
       R!ClearAchievements, R!ClearTextureCache, R!Frame, R!NeedShow, R!NoNotes, R!Note,
       R!Kind, RaInv, RaListed, RaRec, Notes, Asked, Listed, Visible
  <2>4. RaVisible'
    BY <1>3, RaAssumption DEF R!Run, R!Add, R!AddOwn, R!Remove, R!Clear,
       R!ClearAchievements, R!ClearTextureCache, R!Frame, R!NeedShow, R!NoNotes, R!Note,
       R!Kind, RaInv, RaVisible, RaRec, Notes, Asked, Listed, Visible
  <2>5. RaNotes'
    BY <1>3, RaAssumption DEF R!Run, R!Add, R!AddOwn, R!Remove, R!Clear,
       R!ClearAchievements, R!ClearTextureCache, R!Frame, R!NeedShow, R!NoNotes, R!Note,
       R!Kind, RaInv, RaNotes, RaRec, Notes, Asked, Listed, Visible
  <2> QED
    BY <2>1, <2>2, <2>3, <2>4, <2>5 DEF RaInv
<1>4. CASE R!Login
  <2>1. RaTypes'
    BY <1>4, RaAssumption DEF R!Login, R!Add, R!AddOwn, R!Remove, R!Clear,
       R!ClearAchievements, R!ClearTextureCache, R!Frame, R!NeedShow, R!NoNotes, R!Note,
       R!Kind, RaInv, RaTypes, RaRec, Notes, Asked, Listed, Visible
  <2>2. RaAsked'
    BY <1>4, RaAssumption DEF R!Login, R!Add, R!AddOwn, R!Remove, R!Clear,
       R!ClearAchievements, R!ClearTextureCache, R!Frame, R!NeedShow, R!NoNotes, R!Note,
       R!Kind, RaInv, RaAsked, RaRec, Notes, Asked, Listed, Visible
  <2>3. RaListed'
    BY <1>4, RaAssumption DEF R!Login, R!Add, R!AddOwn, R!Remove, R!Clear,
       R!ClearAchievements, R!ClearTextureCache, R!Frame, R!NeedShow, R!NoNotes, R!Note,
       R!Kind, RaInv, RaListed, RaRec, Notes, Asked, Listed, Visible
  <2>4. RaVisible'
    BY <1>4, RaAssumption DEF R!Login, R!Add, R!AddOwn, R!Remove, R!Clear,
       R!ClearAchievements, R!ClearTextureCache, R!Frame, R!NeedShow, R!NoNotes, R!Note,
       R!Kind, RaInv, RaVisible, RaRec, Notes, Asked, Listed, Visible
  <2>5. RaNotes'
    BY <1>4, RaAssumption DEF R!Login, R!Add, R!AddOwn, R!Remove, R!Clear,
       R!ClearAchievements, R!ClearTextureCache, R!Frame, R!NeedShow, R!NoNotes, R!Note,
       R!Kind, RaInv, RaNotes, RaRec, Notes, Asked, Listed, Visible
  <2> QED
    BY <2>1, <2>2, <2>3, <2>4, <2>5 DEF RaInv
<1>5. CASE R!LoginCallback
  <2>1. CASE state' = [state EXCEPT !.session = 0, !.online = FALSE]
    <3>1. RaTypes'
      BY <2>1 DEF RaInv, RaTypes, RaRec
    <3>2. RaAsked' /\ RaListed' /\ RaVisible' /\ RaNotes'
      BY <1>5, <2>1 DEF RaInv, RaTypes, RaAsked, RaListed, RaVisible, RaNotes, RaRec,
         Notes, R!LoginCallback, Asked, Listed, Visible
    <3> QED
      BY <3>1, <3>2 DEF RaInv
  <2>2. CASE state' \in R!Add([state EXCEPT !.session = 0, !.online = TRUE], "login", "timed")
    <3> DEFINE r == [state EXCEPT !.session = 0, !.online = TRUE]
    <3>1. r \in RaRec /\ Notes(r)
      BY DEF RaInv, RaTypes, RaNotes, RaRec, Notes
    <3>2. Asked(r) /\ Listed(r) /\ Visible(r)
      BY DEF RaInv, RaTypes, RaAsked, RaListed, RaVisible, RaNotes, RaRec, R!LoginCallback,
         Asked, Listed, Visible
    <3> HIDE DEF r
    <3>3. state' \in RaRec /\ Same(state', r) /\ Notes(state')
      BY <2>2, <3>1, AddIs DEF r, R!Note, R!Kind
    <3> QED
      BY <3>2, <3>3, SameKeeps DEF RaInv, RaTypes, RaAsked, RaListed, RaVisible, RaNotes
  <2> QED
    BY <1>5, <2>1, <2>2 DEF R!LoginCallback
<1>6. CASE R!Logout
  <2>1. RaTypes'
    BY <1>6, RaAssumption DEF R!Logout, R!Add, R!AddOwn, R!Remove, R!Clear,
       R!ClearAchievements, R!ClearTextureCache, R!Frame, R!NeedShow, R!NoNotes, R!Note,
       R!Kind, RaInv, RaTypes, RaRec, Notes, Asked, Listed, Visible
  <2>2. RaAsked'
    BY <1>6, RaAssumption DEF R!Logout, R!Add, R!AddOwn, R!Remove, R!Clear,
       R!ClearAchievements, R!ClearTextureCache, R!Frame, R!NeedShow, R!NoNotes, R!Note,
       R!Kind, RaInv, RaAsked, RaRec, Notes, Asked, Listed, Visible
  <2>3. RaListed'
    BY <1>6, RaAssumption DEF R!Logout, R!Add, R!AddOwn, R!Remove, R!Clear,
       R!ClearAchievements, R!ClearTextureCache, R!Frame, R!NeedShow, R!NoNotes, R!Note,
       R!Kind, RaInv, RaListed, RaRec, Notes, Asked, Listed, Visible
  <2>4. RaVisible'
    BY <1>6, RaAssumption DEF R!Logout, R!Add, R!AddOwn, R!Remove, R!Clear,
       R!ClearAchievements, R!ClearTextureCache, R!Frame, R!NeedShow, R!NoNotes, R!Note,
       R!Kind, RaInv, RaVisible, RaRec, Notes, Asked, Listed, Visible
  <2>5. RaNotes'
    BY <1>6, RaAssumption DEF R!Logout, R!Add, R!AddOwn, R!Remove, R!Clear,
       R!ClearAchievements, R!ClearTextureCache, R!Frame, R!NeedShow, R!NoNotes, R!Note,
       R!Kind, RaInv, RaNotes, RaRec, Notes, Asked, Listed, Visible
  <2> QED
    BY <2>1, <2>2, <2>3, <2>4, <2>5 DEF RaInv
<1>7. CASE R!UnloadGame
  <2> DEFINE left == [state EXCEPT !.game = None, !.status = "browser", !.torn = @ \/ state.step # "off"]
             c == R!ClearAchievements(left)
             torn == state.torn \/ state.step # "off"
  <2>1. left \in RaRec
    <3>1. torn \in BOOLEAN
      OBVIOUS
    <3> HIDE DEF torn
    <3>2. [state EXCEPT !.game = None, !.status = "browser", !.torn = torn] \in RaRec
      BY <3>1 DEF RaInv, RaTypes, RaRec
    <3> QED
      BY <3>2 DEF torn
  <2>2. CASE state.online
    <3>1. c \in RaRec /\ Notes(c) /\ Same(c, [left EXCEPT !.list = None, !.tab = None])
      BY <2>1, ClearIs, Zenon
    <3>2. state' = [c EXCEPT !.asked = None]
      BY <1>7, <2>2 DEF R!UnloadGame
    <3> HIDE DEF c
    <3>3. state' \in RaRec /\ Notes(state')
      BY <3>1, <3>2 DEF RaRec, Notes
    <3>4. Asked(state') /\ Listed(state') /\ Visible(state')
      BY <3>1, <3>2 DEF RaInv, RaTypes, RaAsked, RaListed, RaVisible, RaNotes, RaRec, Same,
         Asked, Listed, Visible
    <3> QED
      BY <3>3, <3>4 DEF RaInv, RaTypes, RaAsked, RaListed, RaVisible, RaNotes
  <2>3. CASE ~state.online
    <3> DEFINE kept == state.kept \/ state.list # None
    <3>1. kept \in BOOLEAN
      OBVIOUS
    <3>2. state' = [left EXCEPT !.kept = kept]
      BY <1>7, <2>1, <2>3 DEF R!UnloadGame, RaInv, RaTypes, RaRec
    <3>3. /\ state'.game = None /\ state'.status = "browser" /\ state'.kept = kept
             /\ \A f \in {"looked", "online", "session", "asked", "step", "list", "tab", "note", "pic", "cache"} :
                   state'[f] = state[f]
      BY <3>2 DEF RaInv, RaTypes, RaRec
    <3>4. (state.step # "off" => state'.torn) /\ (state.torn => state'.torn)
      BY <2>1, <3>2 DEF RaInv, RaTypes, RaRec
    <3>5. state' \in RaRec
      <4> HIDE DEF left, kept
      <4> QED
        BY <2>1, <3>1, <3>2 DEF RaRec
    <3>6. Asked(state') /\ Visible(state') /\ Notes(state')
      BY <2>3, <3>3 DEF RaInv, RaTypes, RaAsked, RaListed, RaVisible, RaNotes, RaRec,
         Notes, R!UnloadGame, Asked, Listed, Visible
    <3>7. Listed(state')
      BY <1>7, <2>3, <3>3, <3>4 DEF RaInv, RaTypes, RaAsked, RaListed, RaVisible, RaNotes,
         RaRec, Notes, R!UnloadGame, Asked, Listed, Visible
    <3> QED
      BY <3>5, <3>6, <3>7 DEF RaInv, RaTypes, RaAsked, RaListed, RaVisible, RaNotes
  <2> QED
    BY <2>2, <2>3
<1>8. CASE R!Toggle
  <2>1. RaTypes'
    BY <1>8, RaAssumption DEF R!Toggle, R!Add, R!AddOwn, R!Remove, R!Clear,
       R!ClearAchievements, R!ClearTextureCache, R!Frame, R!NeedShow, R!NoNotes, R!Note,
       R!Kind, RaInv, RaTypes, RaRec, Notes, Asked, Listed, Visible
  <2>2. RaAsked'
    BY <1>8, RaAssumption DEF R!Toggle, R!Add, R!AddOwn, R!Remove, R!Clear,
       R!ClearAchievements, R!ClearTextureCache, R!Frame, R!NeedShow, R!NoNotes, R!Note,
       R!Kind, RaInv, RaTypes, RaAsked, RaRec, Notes, Asked, Listed, Visible
  <2>3. RaListed'
    BY <1>8, RaAssumption DEF R!Toggle, R!Add, R!AddOwn, R!Remove, R!Clear,
       R!ClearAchievements, R!ClearTextureCache, R!Frame, R!NeedShow, R!NoNotes, R!Note,
       R!Kind, RaInv, RaTypes, RaListed, RaRec, Notes, Asked, Listed, Visible
  <2>4. RaVisible'
    BY <1>8, RaAssumption DEF R!Toggle, R!Add, R!AddOwn, R!Remove, R!Clear,
       R!ClearAchievements, R!ClearTextureCache, R!Frame, R!NeedShow, R!NoNotes, R!Note,
       R!Kind, RaInv, RaTypes, RaVisible, RaRec, Notes, Asked, Listed, Visible
  <2>5. RaNotes'
    BY <1>8, RaAssumption DEF R!Toggle, R!Add, R!AddOwn, R!Remove, R!Clear,
       R!ClearAchievements, R!ClearTextureCache, R!Frame, R!NeedShow, R!NoNotes, R!Note,
       R!Kind, RaInv, RaTypes, RaNotes, RaRec, Notes, Asked, Listed, Visible
  <2> QED
    BY <2>1, <2>2, <2>3, <2>4, <2>5 DEF RaInv
<1>9. CASE R!Look
  <2>1. RaTypes'
    <3> DEFINE shown == state.status = "menu" /\ state.list # None
               torn == state.torn \/ (state.status = "menu" /\ state.step # "off")
               r == [state EXCEPT !.looked = state.status, !.shown = shown, !.torn = torn]
    <3>1. shown \in BOOLEAN /\ torn \in BOOLEAN
      OBVIOUS
    <3>2. state' = r \/ state' = [r EXCEPT !.cache = {}]
      BY <1>9 DEF R!Look, R!ClearTextureCache
    <3> HIDE DEF shown, torn
    <3>3. r \in RaRec
      BY <3>1 DEF RaInv, RaTypes, RaRec
    <3> HIDE DEF r
    <3> QED
      BY <3>2, <3>3 DEF RaTypes, RaRec
  <2>2. RaAsked'
    BY <1>9, RaAssumption DEF R!Look, R!Add, R!AddOwn, R!Remove, R!Clear,
       R!ClearAchievements, R!ClearTextureCache, R!Frame, R!NeedShow, R!NoNotes, R!Note,
       R!Kind, RaInv, RaAsked, RaRec, Notes, Asked, Listed, Visible
  <2>3. RaListed'
    BY <1>9, RaAssumption DEF R!Look, R!Add, R!AddOwn, R!Remove, R!Clear,
       R!ClearAchievements, R!ClearTextureCache, R!Frame, R!NeedShow, R!NoNotes, R!Note,
       R!Kind, RaInv, RaTypes, RaListed, RaRec, Notes, Asked, Listed, Visible
  <2>4. RaVisible'
    BY <1>9, RaAssumption DEF R!Look, R!Add, R!AddOwn, R!Remove, R!Clear,
       R!ClearAchievements, R!ClearTextureCache, R!Frame, R!NeedShow, R!NoNotes, R!Note,
       R!Kind, RaInv, RaTypes, RaVisible, RaRec, Notes, Asked, Listed, Visible
  <2>5. RaNotes'
    BY <1>9, RaAssumption DEF R!Look, R!Add, R!AddOwn, R!Remove, R!Clear,
       R!ClearAchievements, R!ClearTextureCache, R!Frame, R!NeedShow, R!NoNotes, R!Note,
       R!Kind, RaInv, RaTypes, RaNotes, RaRec, Notes, Asked, Listed, Visible
  <2> QED
    BY <2>1, <2>2, <2>3, <2>4, <2>5 DEF RaInv
<1>10. CASE R!CallbackClears
  <2> DEFINE c == R!ClearAchievements(state)
             r == [c EXCEPT !.step = "fill"]
  <2>1. c \in RaRec /\ Notes(c) /\ Same(c, [state EXCEPT !.list = None, !.tab = None])
    BY ClearIs, Zenon DEF RaInv, RaTypes
  <2>2. state' \in R!Add(r, "game", "timed")
    BY <1>10 DEF R!CallbackClears
  <2> HIDE DEF c
  <2>3. r \in RaRec /\ Notes(r)
    BY <2>1 DEF RaRec, Notes
  <2>4. Asked(r) /\ Listed(r) /\ Visible(r)
    BY <1>10, <2>1 DEF RaInv, RaTypes, RaAsked, RaListed, RaVisible, RaNotes, RaRec, Same,
       R!CallbackClears, Asked, Listed, Visible
  <2> HIDE DEF r
  <2>5. state' \in RaRec /\ Same(state', r) /\ Notes(state')
    BY <2>2, <2>3, AddIs DEF R!Note, R!Kind
  <2> QED
    BY <2>4, <2>5, SameKeeps DEF RaInv, RaTypes, RaAsked, RaListed, RaVisible, RaNotes
<1>11. CASE R!CallbackFills
  <2>1. CASE state' = [state EXCEPT !.step = "off", !.asked = None]
    <3>1. RaTypes'
      BY <2>1 DEF RaInv, RaTypes, RaRec
    <3>2. RaAsked' /\ RaListed' /\ RaVisible' /\ RaNotes'
      BY <1>11, <2>1 DEF RaInv, RaTypes, RaAsked, RaListed, RaVisible, RaNotes, RaRec,
         Notes, R!CallbackFills, Asked, Listed, Visible
    <3> QED
      BY <3>1, <3>2 DEF RaInv
  <2>2. CASE state.asked # None /\ state' = [state EXCEPT !.step = "tab", !.list = state.asked]
    <3>1. RaTypes'
      BY <2>2, RaAssumption DEF RaInv, RaTypes, RaRec
    <3>2. RaAsked' /\ RaListed' /\ RaVisible' /\ RaNotes'
      BY <1>11, <2>2, RaAssumption DEF RaInv, RaTypes, RaAsked, RaListed, RaVisible,
         RaNotes, RaRec, Notes, R!CallbackFills, Asked, Listed, Visible
    <3> QED
      BY <3>1, <3>2 DEF RaInv
  <2> QED
    BY <1>11, <2>1, <2>2 DEF R!CallbackFills
<1>12. CASE R!CallbackMakesTab
  <2>1. RaTypes'
    <3> DEFINE kept == state.kept /\ state.list # state.game
               torn == state.torn /\ state.list # state.game
    <3>1. kept \in BOOLEAN /\ torn \in BOOLEAN
      OBVIOUS
    <3>2. state' = [state EXCEPT !.step = "off", !.tab = state.list, !.shown = TRUE, !.asked = None,
                          !.kept = kept, !.torn = torn]
      BY <1>12 DEF R!CallbackMakesTab
    <3> HIDE DEF kept, torn
    <3> QED
      BY <3>1, <3>2 DEF RaInv, RaTypes, RaRec
  <2>2. RaAsked'
    BY <1>12, RaAssumption DEF R!CallbackMakesTab, R!Add, R!AddOwn, R!Remove, R!Clear,
       R!ClearAchievements, R!ClearTextureCache, R!Frame, R!NeedShow, R!NoNotes, R!Note,
       R!Kind, RaInv, RaAsked, RaRec, Notes, Asked, Listed, Visible
  <2>3. RaListed'
    BY <1>12, RaAssumption DEF R!CallbackMakesTab, R!Add, R!AddOwn, R!Remove, R!Clear,
       R!ClearAchievements, R!ClearTextureCache, R!Frame, R!NeedShow, R!NoNotes, R!Note,
       R!Kind, RaInv, RaTypes, RaListed, RaRec, Notes, Asked, Listed, Visible
  <2>4. RaVisible'
    BY <1>12, RaAssumption DEF R!CallbackMakesTab, R!Add, R!AddOwn, R!Remove, R!Clear,
       R!ClearAchievements, R!ClearTextureCache, R!Frame, R!NeedShow, R!NoNotes, R!Note,
       R!Kind, RaInv, RaTypes, RaAsked, RaListed, RaVisible, RaNotes, RaRec, Notes, Asked,
       Listed, Visible
  <2>5. RaNotes'
    BY <1>12, RaAssumption DEF R!CallbackMakesTab, R!Add, R!AddOwn, R!Remove, R!Clear,
       R!ClearAchievements, R!ClearTextureCache, R!Frame, R!NeedShow, R!NoNotes, R!Note,
       R!Kind, RaInv, RaNotes, RaRec, Notes, Asked, Listed, Visible
  <2> QED
    BY <2>1, <2>2, <2>3, <2>4, <2>5 DEF RaInv
<1>13. CASE R!OnAchievementTriggered
  <2>1. state' \in RaRec /\ Same(state', state) /\ Notes(state')
    BY <1>13, AddIs DEF R!OnAchievementTriggered, RaInv, RaTypes, RaNotes, R!Note, R!Kind
  <2> QED
    BY <2>1, SameKeeps DEF RaInv, RaTypes, RaAsked, RaListed, RaVisible, RaNotes
<1>14. CASE R!OnProgressIndicatorShow
  <2>1. state' \in RaRec /\ Same(state', state) /\ Notes(state')
    BY <1>14, AddIs DEF R!OnProgressIndicatorShow, RaInv, RaTypes, RaNotes, R!Note, R!Kind
  <2> QED
    BY <2>1, SameKeeps DEF RaInv, RaTypes, RaAsked, RaListed, RaVisible, RaNotes
<1>15. CASE R!OnProgressIndicatorHide
  <2>1. RaTypes'
    BY <1>15, RaAssumption DEF R!OnProgressIndicatorHide, R!Add, R!AddOwn, R!Remove,
       R!Clear, R!ClearAchievements, R!ClearTextureCache, R!Frame, R!NeedShow, R!NoNotes,
       R!Note, R!Kind, RaInv, RaTypes, RaRec, Notes, Asked, Listed, Visible
  <2>2. RaAsked'
    BY <1>15, RaAssumption DEF R!OnProgressIndicatorHide, R!Add, R!AddOwn, R!Remove,
       R!Clear, R!ClearAchievements, R!ClearTextureCache, R!Frame, R!NeedShow, R!NoNotes,
       R!Note, R!Kind, RaInv, RaAsked, RaRec, Notes, Asked, Listed, Visible
  <2>3. RaListed'
    BY <1>15, RaAssumption DEF R!OnProgressIndicatorHide, R!Add, R!AddOwn, R!Remove,
       R!Clear, R!ClearAchievements, R!ClearTextureCache, R!Frame, R!NeedShow, R!NoNotes,
       R!Note, R!Kind, RaInv, RaListed, RaRec, Notes, Asked, Listed, Visible
  <2>4. RaVisible'
    BY <1>15, RaAssumption DEF R!OnProgressIndicatorHide, R!Add, R!AddOwn, R!Remove,
       R!Clear, R!ClearAchievements, R!ClearTextureCache, R!Frame, R!NeedShow, R!NoNotes,
       R!Note, R!Kind, RaInv, RaVisible, RaRec, Notes, Asked, Listed, Visible
  <2>5. RaNotes'
    BY <1>15, RaAssumption DEF R!OnProgressIndicatorHide, R!Add, R!AddOwn, R!Remove,
       R!Clear, R!ClearAchievements, R!ClearTextureCache, R!Frame, R!NeedShow, R!NoNotes,
       R!Note, R!Kind, RaInv, RaNotes, RaRec, Notes, Asked, Listed, Visible
  <2> QED
    BY <2>1, <2>2, <2>3, <2>4, <2>5 DEF RaInv
<1>16. CASE R!OnGameCompleted
  <2>1. state' \in RaRec /\ Same(state', state) /\ Notes(state')
    BY <1>16, AddIs DEF R!OnGameCompleted, RaInv, RaTypes, RaNotes, R!Note, R!Kind
  <2> QED
    BY <2>1, SameKeeps DEF RaInv, RaTypes, RaAsked, RaListed, RaVisible, RaNotes
<1>17. CASE R!OnDisconnected
  <2>1. RaTypes'
    BY <1>17, RaAssumption, ZenonT(40) DEF R!OnDisconnected, R!Add, R!AddOwn, R!Remove, R!Clear,
       R!ClearAchievements, R!ClearTextureCache, R!Frame, R!NeedShow, R!NoNotes, R!Note,
       R!Kind, RaInv, RaTypes, RaRec, Notes, Asked, Listed, Visible
  <2>2. RaAsked'
    BY <1>17, RaAssumption DEF R!OnDisconnected, R!Add, R!AddOwn, R!Remove, R!Clear,
       R!ClearAchievements, R!ClearTextureCache, R!Frame, R!NeedShow, R!NoNotes, R!Note,
       R!Kind, RaInv, RaTypes, RaAsked, RaListed, RaVisible, RaNotes, RaRec, Notes, Asked,
       Listed, Visible
  <2>3. RaListed'
    BY <1>17, RaAssumption DEF R!OnDisconnected, R!Add, R!AddOwn, R!Remove, R!Clear,
       R!ClearAchievements, R!ClearTextureCache, R!Frame, R!NeedShow, R!NoNotes, R!Note,
       R!Kind, RaInv, RaListed, RaRec, Notes, Asked, Listed, Visible
  <2>4. RaVisible'
    BY <1>17, RaAssumption DEF R!OnDisconnected, R!Add, R!AddOwn, R!Remove, R!Clear,
       R!ClearAchievements, R!ClearTextureCache, R!Frame, R!NeedShow, R!NoNotes, R!Note,
       R!Kind, RaInv, RaVisible, RaRec, Notes, Asked, Listed, Visible
  <2>5. RaNotes'
    BY <1>17, RaAssumption DEF R!OnDisconnected, R!Add, R!AddOwn, R!Remove, R!Clear,
       R!ClearAchievements, R!ClearTextureCache, R!Frame, R!NeedShow, R!NoNotes, R!Note,
       R!Kind, RaInv, RaNotes, RaRec, Notes, Asked, Listed, Visible
  <2> QED
    BY <2>1, <2>2, <2>3, <2>4, <2>5 DEF RaInv
<1> QED
  BY <1>1, <1>2, <1>3, <1>4, <1>5, <1>6, <1>7, <1>8, <1>9, <1>10, <1>11, <1>12, <1>13,
     <1>14, <1>15, <1>16, <1>17 DEF R!Next

\* How many favourites there are.

(* The favourites.                                                         *)
\* How many favourites there are.
LEMMA SizeIs ==
    ASSUME NEW m \in Maps
    PROVE  F!Cardinality(DOMAIN m) \in Nat
<1>1. DOMAIN m \in SUBSET Name
  BY DEF Maps
<1>2. Cardinality(DOMAIN m) \in Nat
  BY <1>1, FavAssumption, FS_Subset, FS_CardinalityType
<1>3. F!Cardinality(DOMAIN m) = Cardinality(DOMAIN m)
  BY DEF F!Cardinality, Cardinality
<1> QED
  BY <1>2, <1>3

\* A map without some of its names is one.
LEMMA MapIs ==
    ASSUME NEW m \in Maps, NEW names \in SUBSET (DOMAIN m)
    PROVE  [n \in names |-> m[n]] \in Maps
<1>1. PICK all \in SUBSET Name : m \in [all -> Dir]
  BY DEF Maps
<1>2. names \in SUBSET Name /\ [n \in names |-> m[n]] \in [names -> Dir]
  BY <1>1
<1> QED
  BY <1>2 DEF Maps

LEMMA MapAdds ==
    ASSUME NEW m \in Maps, NEW n \in Name, NEW d \in Dir
    PROVE  [k \in DOMAIN m \cup {n} |-> IF k = n THEN d ELSE m[k]] \in Maps
<1>1. PICK all \in SUBSET Name : m \in [all -> Dir]
  BY DEF Maps
<1>2. all \cup {n} \in SUBSET Name /\ DOMAIN m = all
  BY <1>1
<1>3. [k \in all \cup {n} |-> IF k = n THEN d ELSE m[k]] \in [all \cup {n} -> Dir]
  BY <1>1
<1> QED
  BY <1>2, <1>3 DEF Maps

LEMMA FavIs ==
    ASSUME FavTypes
    PROVE  state.map \in Maps /\ state.index \in Nat /\ F!Size \in Nat
<1>1. state.map \in Maps /\ state.index \in Nat
  BY DEF FavTypes, FavRec
<1> QED
  BY <1>1, SizeIs DEF F!Size

\* What a restart brings back.
LEMMA FavLoadIs ==
    ASSUME NEW saved \in Maps \cup {None}, NEW there
    PROVE  /\ F!Load(saved, there) \in Maps
           /\ saved = None => DOMAIN F!Load(saved, there) = {}
           /\ saved # None =>
                DOMAIN F!Load(saved, there) = { n \in DOMAIN saved : <<n, saved[n]>> \in there }
           /\ \A n \in DOMAIN F!Load(saved, there) : F!Load(saved, there)[n] = saved[n]
<1>1. CASE saved = None
  <2>1. F!Empty \in [{} -> Dir] /\ DOMAIN F!Empty = {}
    BY DEF F!Empty
  <2> QED
    BY <1>1, <2>1 DEF Maps, F!Load
<1>2. CASE saved # None
  <2>1. saved \in Maps
    BY <1>2
  <2>2. F!Load(saved, there) = [n \in { n \in DOMAIN saved : <<n, saved[n]>> \in there } |-> saved[n]]
    BY <1>2 DEF F!Load, F!Kept
  <2> QED
    BY <1>2, <2>1, <2>2, MapIs
<1> QED
  BY <1>1, <1>2

\* What is written is what is shown, and what is there.
LEMMA FavLoadsAll ==
    ASSUME FavTypes, FavThere
    PROVE  \A n \in Name :
              /\ n \in DOMAIN state.map <=> n \in DOMAIN F!Load(state.map, state.there)
              /\ n \in DOMAIN state.map => state.map[n] = F!Load(state.map, state.there)[n]
<1> DEFINE back == F!Load(state.map, state.there)
<1>1. state.map \in Maps \cup {None} /\ state.map # None
  BY FavAssumption DEF FavTypes, FavRec
<1>2. /\ state.map # None =>
            DOMAIN back = { n \in DOMAIN state.map : <<n, state.map[n]>> \in state.there }
      /\ \A n \in DOMAIN back : back[n] = state.map[n]
  <2>1. \A saved \in Maps \cup {None} : \A there :
           /\ saved # None =>
                DOMAIN F!Load(saved, there) = { n \in DOMAIN saved : <<n, saved[n]>> \in there }
           /\ \A n \in DOMAIN F!Load(saved, there) : F!Load(saved, there)[n] = saved[n]
    BY FavLoadIs
  <2> QED
    BY ONLY <1>1, <2>1, Zenon
<1> HIDE DEF back
<1>3. \A n \in DOMAIN back : back[n] = state.map[n]
  BY <1>2
<1>4. DOMAIN back = DOMAIN state.map
  BY <1>1, <1>2 DEF FavThere
<1> QED
  BY <1>3, <1>4 DEF back

\* Nothing of the favourites changes.
LEMMA FavKeeps ==
    ASSUME FavInv, state.busy \in {"key", "draw"}, state'.busy \in {"key", "draw"},
           UNCHANGED <<state.map, state.saved, state.there, state.torn>>
    PROVE  FavThere' /\ F!ShownIsSaved'
<1>1. F!Restored' = F!Restored
  BY DEF F!Restored
<1>2. \A n : F!Same(n)' <=> F!Same(n)
  BY <1>1 DEF F!Same
<1> QED
  BY <1>2 DEF FavInv, FavThere, F!ShownIsSaved

\* One favourite comes, goes or is another.
LEMMA FavChanges ==
    ASSUME FavInv, state.busy \in {"key", "draw"}, state'.busy = "remove",
           UNCHANGED <<state.saved, state.there, state.torn>>,
           NEW n \in Name, \A m \in Name \ {n} :
                               /\ m \in DOMAIN state.map <=> m \in DOMAIN state'.map
                               /\ m \in DOMAIN state.map => state'.map[m] = state.map[m]
    PROVE  F!ShownIsSaved'
<1>1. F!Restored' = F!Restored
  BY DEF F!Restored
<1>2. \A m \in Name \ {n} : F!Same(m) => F!Same(m)'
  BY <1>1 DEF F!Same
<1>3. ~state.torn => \A m \in Name : F!Same(m)
  BY DEF FavInv, F!ShownIsSaved
<1> QED
  BY <1>2, <1>3 DEF F!ShownIsSaved

LEMMA FavStep == ASSUME FavInv, F!Next PROVE FavInv'
<1> USE DEF FavInv
<1>1. ASSUME NEW n \in Name, NEW d \in Dir, F!OnKeyStart(n, d)
      PROVE  FavInv'
  <2> DEFINE without == [m \in DOMAIN state.map \ {n} |-> state.map[m]]
             with == [m \in DOMAIN state.map \cup {n} |-> IF m = n THEN d ELSE state.map[m]]
  <2>1. without \in Maps /\ with \in Maps
    BY FavIs, MapIs, MapAdds
  <2>2. PICK map \in {with, without} : state' = [state EXCEPT !.busy = "remove", !.map = map]
    BY <1>1 DEF F!OnKeyStart
  <2>3. map \in Maps
    BY <2>1
  <2>4. /\ \A m \in DOMAIN map : (m = n /\ map[m] = d) \/ (m \in DOMAIN state.map /\ map[m] = state.map[m])
        /\ \A m \in DOMAIN state.map \ {n} : m \in DOMAIN map /\ map[m] = state.map[m]
        /\ \A m \in DOMAIN map \ {n} : m \in DOMAIN state.map
    <3>1. CASE map = with
      <4>1. /\ DOMAIN map = DOMAIN state.map \cup {n} /\ map[n] = d
            /\ \A m \in DOMAIN state.map \ {n} : map[m] = state.map[m]
        BY <3>1
      <4> HIDE DEF with
      <4> QED
        BY <4>1
    <3>2. CASE map = without
      BY <3>2
    <3> QED
      BY <2>2, <3>1, <3>2
  <2>5. state.busy = "key" /\ state.tab = "browser" /\ <<n, d>> \in state.there
    BY <1>1, Zenon DEF F!OnKeyStart, F!Key
  <2> HIDE DEF with, without
  <2>6. FavTypes'
    BY <2>2, <2>3 DEF FavTypes, FavRec
  <2>7. /\ state'.map = map /\ state'.busy = "remove" /\ state'.tab = "browser"
        /\ UNCHANGED <<state.saved, state.there, state.torn, state.bad, state.dialog>>
    BY <2>2, <2>5 DEF FavTypes, FavRec
  <2>8. FavThere'
    BY <2>4, <2>5, <2>7 DEF FavThere
  <2>9. F!ShownIsSaved'
    BY <2>4, <2>5, <2>7, FavChanges
  <2> QED
    BY <2>5, <2>6, <2>7, <2>8, <2>9 DEF FavIndex, FavDialog, F!UsesEntry
<1>2. CASE F!SaveRemoves
  <2>1. state' = [state EXCEPT !.busy = "write", !.saved = None] /\ state.busy = "remove"
    BY <1>2 DEF F!SaveRemoves
  <2>2. FavTypes' /\ FavThere'
    BY <2>1 DEF FavTypes, FavRec, FavThere
  <2>3. FavIndex' /\ FavDialog' /\ F!UsesEntry' /\ F!ShownIsSaved'
    BY <2>1 DEF FavTypes, FavRec, FavIndex, FavDialog, F!UsesEntry, F!ShownIsSaved
  <2> QED
    BY <2>2, <2>3
<1>3. CASE F!SaveWrites
  <2>1. PICK saved, torn :
          /\ state' = [state EXCEPT !.busy = "draw", !.saved = saved, !.torn = torn]
          /\ \/ saved = state.map /\ torn = FALSE
             \/ /\ torn = TRUE
                /\ \/ saved = None
                   \/ \E k \in Name : saved = [n \in { n \in DOMAIN state.map : n < k } |-> state.map[n]]
    BY <1>3 DEF F!SaveWrites, F!First
  <2>2. saved \in Maps \cup {None}
    <3>1. ASSUME NEW k \in Name, saved = [n \in { n \in DOMAIN state.map : n < k } |-> state.map[n]]
          PROVE  saved \in Maps
      BY <3>1, FavIs, MapIs
    <3> QED
      BY <2>1, <3>1, FavIs
  <2>3. torn \in BOOLEAN /\ state.busy = "write"
    BY <1>3, <2>1 DEF F!SaveWrites
  <2>4. FavTypes'
    BY <2>1, <2>2, <2>3 DEF FavTypes, FavRec
  <2>5. /\ state'.saved = saved /\ state'.torn = torn /\ state'.busy = "draw"
        /\ UNCHANGED <<state.map, state.there, state.dialog, state.tab, state.index, state.bad>>
    BY <2>1 DEF FavTypes, FavRec
  <2>6. torn = FALSE => F!Restored' = F!Load(state.map, state.there)
    BY <2>1, <2>5 DEF F!Restored
  <2>7. F!ShownIsSaved'
    BY <2>3, <2>5, <2>6, FavLoadsAll DEF F!ShownIsSaved, F!Same
  <2> QED
    BY <2>3, <2>4, <2>5, <2>7 DEF FavThere, FavIndex, FavDialog, F!UsesEntry
<1>4. CASE F!Switch
  <2>1. PICK tab \in {"browser", "favorite"} : state' = [state EXCEPT !.tab = tab, !.busy = "draw"]
    BY <1>4 DEF F!Switch
  <2>2. state.busy = "key" /\ ~state.dialog
    BY <1>4 DEF F!Switch, F!Key
  <2>3. FavThere' /\ F!ShownIsSaved'
    BY <2>1, <2>2, FavKeeps DEF FavTypes, FavRec
  <2> QED
    BY <2>1, <2>2, <2>3 DEF FavTypes, FavRec, FavIndex, FavDialog, F!UsesEntry
<1>5. CASE F!Move
  <2>1. PICK i \in F!Moved(state.index) :
            state' = [state EXCEPT !.index = i, !.bad = state.bad \/ i >= F!Size, !.busy = "draw"]
    BY <1>5, Zenon DEF F!Move
  <2>2. i \in Nat /\ i < F!Size
    BY <1>5, FavIs DEF FavIndex, F!Move, F!Key, F!Moved
  <2>3. (state.bad \/ i >= F!Size) = FALSE
    BY <2>2, FavIs DEF F!UsesEntry
  <2>4. state' = [state EXCEPT !.index = i, !.bad = FALSE, !.busy = "draw"]
    BY <2>1, <2>3
  <2>5. FavThere' /\ F!ShownIsSaved'
    BY <1>5, <2>4, FavKeeps DEF FavTypes, FavRec, F!Move, F!Key
  <2> QED
    BY <1>5, <2>2, <2>4, <2>5 DEF FavTypes, FavRec, FavIndex, FavDialog, F!UsesEntry, F!Move, F!Key, F!Size
<1>6. CASE F!OnActive
  <2>1. (state.bad \/ state.index >= F!Size) = FALSE
    BY <1>6, FavIs DEF FavIndex, F!UsesEntry, F!OnActive, F!Key
  <2>2. state' = [state EXCEPT !.bad = FALSE, !.busy = "draw"]
    BY <1>6, <2>1 DEF F!OnActive
  <2>3. FavThere' /\ F!ShownIsSaved'
    BY <1>6, <2>2, FavKeeps DEF FavTypes, FavRec, F!OnActive, F!Key
  <2> QED
    BY <1>6, <2>2, <2>3 DEF FavTypes, FavRec, FavIndex, FavDialog, F!UsesEntry, F!OnActive, F!Key, F!Size
<1>7. CASE F!OnKeyCross
  <2>1. state' = [state EXCEPT !.dialog = TRUE, !.busy = "draw"]
    BY <1>7 DEF F!OnKeyCross
  <2>2. FavThere' /\ F!ShownIsSaved'
    BY <1>7, <2>1, FavKeeps DEF FavTypes, FavRec, F!OnKeyCross, F!Key
  <2> QED
    BY <1>7, <2>1, <2>2 DEF FavTypes, FavRec, FavIndex, FavDialog, F!UsesEntry, F!OnKeyCross, F!Key, F!Size
<1>8. CASE F!Draw
  <2>1. FavTypes' /\ FavDialog' /\ F!UsesEntry'
    <3>1. FavTypes'
      BY <1>8 DEF F!Draw, FavTypes, FavRec
    <3>2. F!UsesEntry'
      BY <1>8 DEF F!Draw, FavTypes, FavRec, F!UsesEntry
    <3>3. ~state.dialog => FavDialog'
      BY <1>8 DEF F!Draw, FavTypes, FavRec, FavDialog
    <3>4. state.dialog => FavDialog'
      <4>1. state.dialog => state.tab = "favorite"
        BY DEF FavDialog
      <4>2. state.dialog => F!Size # 0
        BY <4>1, FavIs DEF FavIndex
      <4> QED
        BY <1>8, <4>1, <4>2 DEF F!Draw, FavTypes, FavRec, FavDialog
    <3> QED
      BY <3>1, <3>2, <3>3, <3>4
  <2>2. FavIndex'
    <3>1. CASE F!Size = 0
      BY <1>8, <3>1 DEF FavTypes, FavRec, FavIndex, FavDialog, F!Draw, F!Size
    <3>2. CASE F!Size # 0
      BY <1>8, <3>2, FavIs DEF FavTypes, FavRec, FavIndex, FavDialog, F!Draw, F!Size
    <3> QED
      BY <3>1, <3>2
  <2>3. FavThere' /\ F!ShownIsSaved'
    BY <1>8, FavKeeps DEF FavTypes, FavRec, F!Draw
  <2> QED
    BY <2>1, <2>2, <2>3
<1>9. ASSUME NEW yes \in BOOLEAN, F!OnDialog(yes)
      PROVE  FavInv'
  <2>1. state.dialog /\ state.busy = "key"
    BY <1>9, Zenon DEF F!OnDialog, F!Key
  <2>2. CASE state' = [state EXCEPT !.dialog = FALSE, !.busy = "draw"]
    <3>1. FavThere' /\ F!ShownIsSaved'
      BY <2>1, <2>2, FavKeeps DEF FavTypes, FavRec
    <3> QED
      BY <2>1, <2>2, <3>1 DEF FavTypes, FavRec, FavIndex, FavDialog, F!UsesEntry, F!Size
  <2>3. ASSUME NEW n \in DOMAIN state.map,
               state' = [state EXCEPT !.dialog = FALSE, !.busy = "remove", !.bad = @ \/ state.index >= F!Size,
                           !.map = [m \in DOMAIN @ \ {n} |-> @[m]]]
        PROVE  FavInv'
    <3> DEFINE map == [m \in DOMAIN state.map \ {n} |-> state.map[m]]
    <3>1. map \in Maps
      BY FavIs, MapIs
    <3>2. (state.bad \/ state.index >= F!Size) = FALSE
      BY <2>1, FavIs DEF FavIndex, FavDialog, F!UsesEntry
    <3>3. state' = [state EXCEPT !.dialog = FALSE, !.busy = "remove", !.bad = FALSE, !.map = map]
      BY <2>3, <3>2
    <3>4. DOMAIN map = DOMAIN state.map \ {n} /\ \A m \in DOMAIN map : map[m] = state.map[m]
      OBVIOUS
    <3>5. n \in Name
      BY FavIs DEF Maps
    <3> HIDE DEF map
    <3>6. FavTypes'
      BY <3>1, <3>3 DEF FavTypes, FavRec
    <3>7. /\ state'.map = map /\ state'.busy = "remove" /\ state'.dialog = FALSE /\ state'.bad = FALSE
          /\ UNCHANGED <<state.saved, state.there, state.torn>>
      BY <3>3 DEF FavTypes, FavRec
    <3>8. FavThere'
      BY <3>4, <3>7 DEF FavThere
    <3>9. F!ShownIsSaved'
      BY <2>1, <3>4, <3>5, <3>7, FavChanges
    <3> QED
      BY <3>6, <3>7, <3>8, <3>9 DEF FavIndex, FavDialog, F!UsesEntry
  <2> QED
    BY <1>9, <2>2, <2>3, Zenon DEF F!OnDialog
<1>10. ASSUME NEW f \in F!Card, F!Restart({f})
      PROVE  FavInv'
  <2> DEFINE there == state.there \ {f}
             map == F!Load(state.saved, there)
  <2>1. /\ map \in Maps
        /\ \A n \in DOMAIN map : <<n, map[n]>> \in there
    <3>1. state.saved \in Maps \cup {None}
      BY DEF FavTypes, FavRec
    <3>2. /\ map \in Maps
          /\ state.saved = None => DOMAIN map = {}
          /\ state.saved # None =>
               DOMAIN map = { n \in DOMAIN state.saved : <<n, state.saved[n]>> \in there }
          /\ \A n \in DOMAIN map : map[n] = state.saved[n]
      BY ONLY <3>1, FavLoadIs
    <3> HIDE DEF there, map
    <3> QED
      BY <3>2
  <2>2. PICK i \in {0} \cup 0 .. F!Cardinality(DOMAIN map) - 1 :
            state' = [state EXCEPT !.there = there, !.map = map, !.index = i,
                        !.tab = "browser", !.dialog = FALSE, !.busy = "draw", !.torn = FALSE]
    BY <1>10, Zenon DEF F!Restart
  <2>3. i \in Nat
    OBVIOUS
  <2>4. there \in SUBSET F!Card
    BY DEF FavTypes, FavRec
  <2>5. map = F!Load(state.saved, there)
    OBVIOUS
  <2> HIDE DEF map, there
  <2>6. FavTypes'
    BY <2>1, <2>2, <2>3, <2>4 DEF FavTypes, FavRec
  <2>7. /\ state'.map = map /\ state'.there = there /\ state'.saved = state.saved /\ state'.bad = state.bad
        /\ state'.tab = "browser" /\ state'.dialog = FALSE /\ state'.busy = "draw"
    BY <2>2 DEF FavTypes, FavRec
  <2>8. F!Restored' = map
    BY <2>5, <2>7 DEF F!Restored
  <2> QED
    BY <2>1, <2>6, <2>7, <2>8 DEF FavThere, FavIndex, FavDialog, F!UsesEntry, F!ShownIsSaved, F!Same
<1> QED
  BY <1>1, <1>2, <1>3, <1>4, <1>5, <1>6, <1>7, <1>8, <1>9, <1>10 DEF F!Next

LEMMA FavInit == ASSUME F!Init PROVE FavInv
<1>1. F!Empty \in Maps
  <2>1. F!Empty \in [{} -> Dir] /\ {} \in SUBSET Name
    BY DEF F!Empty
  <2> QED
    BY <2>1 DEF Maps
<1>2. FavTypes
  BY <1>1 DEF F!Init, FavTypes, FavRec
<1>3. FavIndex /\ FavDialog /\ F!UsesEntry
  BY DEF F!Init, FavIndex, FavDialog, F!UsesEntry
<1>4. FavThere /\ F!ShownIsSaved
  <2>1. /\ state.map = F!Empty /\ state.saved = None
        /\ F!Load(None, state.there) = F!Empty /\ DOMAIN F!Empty = {}
    BY DEF F!Init, F!Load, F!Empty
  <2>2. F!Restored = F!Empty
    BY <2>1 DEF F!Restored
  <2>3. state.busy = "draw"
    BY DEF F!Init
  <2> QED
    BY <2>1, <2>2, <2>3 DEF FavThere, F!ShownIsSaved, F!Same
<1> QED
  BY <1>2, <1>3, <1>4 DEF FavInv

(* The names of the roms.                                                  *)
\* What a save leaves fits as what was in memory does.
LEMMA SaveFits ==
    ASSUME NEW r, NEW saved \in [N!Slots -> Sum], Fit(saved, r), NEW cache \in [N!Slots -> Sum], Fit(cache, r),
           NEW s \in N!Save(saved, cache)
    PROVE  s \in [N!Slots -> Sum] /\ Fit(s, r)
<1>1. CASE s = saved
  BY <1>1
<1>2. ASSUME NEW slots \in SUBSET N!Slots, s = N!Written(cache, slots)
      PROVE  s \in [N!Slots -> Sum] /\ Fit(s, r)
  <2>1. N!NoEntry \in Sum /\ N!NoEntry.key = None
    BY DEF N!NoEntry, Sum
  <2>2. Fits(N!NoEntry, r.rom, r.unread)
    BY <2>1 DEF Fits
  <2>3. s = [i \in N!Slots |-> IF i \in slots THEN cache[i] ELSE N!NoEntry]
    BY <1>2 DEF N!Written
  <2> QED
    BY <2>1, <2>2, <2>3 DEF Fit
<1> QED
  BY <1>1, <1>2 DEF N!Save

\* One thread goes on.
LEMMA JobGoesOn ==
    ASSUME NEW t \in Thread, NEW j \in NamesJob, NamesInv, state' \in NamesRec,
           state'.job = [state.job EXCEPT ![t] = j], state'.rom = state.rom,
           j.at # "off" => j.path \in Path,
           j.at = "sum" => \E v \in 0 .. state.rom[j.path] : j.key = <<j.path, v>>
    PROVE  Looking(state')
  BY DEF NamesInv, NamesTypes, NamesRec, Looking

LEMMA NamesStep == ASSUME NamesInv, N!Next PROVE NamesInv'
<1>1. CASE N!Restart
  <2>1. PICK saved \in N!Save(state.saved, state.cache) :
            state' = [state EXCEPT !.saved = saved, !.cache = saved, !.misses = 0,
                                   !.job = [t \in Thread |-> N!Idle]]
    BY <1>1 DEF N!Restart
  <2>2. saved \in [N!Slots -> Sum] /\ Fit(saved, state)
    BY SaveFits DEF NamesInv, NamesTypes, NamesRec
  <2>3. N!Idle \in NamesJob /\ N!Idle.at = "off"
    BY DEF N!Idle, NamesJob
  <2>4. 0 \in 0 .. SaveAfter /\ [t \in Thread |-> N!Idle] \in [Thread -> NamesJob]
    BY <2>3, NamesAssumption
  <2> DEFINE jobs == [t \in Thread |-> N!Idle]
  <2> HIDE DEF jobs
  <2>5. state' \in NamesRec
    BY <2>1, <2>2, <2>4 DEF NamesInv, NamesTypes, NamesRec, jobs
  <2>6. /\ state'.saved = saved /\ state'.cache = saved /\ state'.rom = state.rom /\ state'.unread = state.unread
        /\ state'.job = [t \in Thread |-> N!Idle]
    BY <2>1 DEF NamesInv, NamesTypes, NamesRec
  <2> QED
    BY <2>2, <2>3, <2>5, <2>6 DEF NamesInv, NamesTypes, Fit, Looking
<1>2. ASSUME NEW p \in Path, N!Replace(p)
      PROVE  NamesInv'
  <2> DEFINE rom == [state.rom EXCEPT ![p] = @ + 1]
  <2>0. state' = [state EXCEPT !.rom = rom] /\ state.rom[p] + 1 \in 0 .. MaxVersion
    BY <1>2, NamesAssumption DEF NamesInv, NamesTypes, NamesRec, N!Replace
  <2>1. state' \in NamesRec
    <3>1. rom \in [Path -> 0 .. MaxVersion]
      BY <2>0 DEF NamesInv, NamesTypes, NamesRec
    <3> HIDE DEF rom
    <3> QED
      BY <2>0, <3>1 DEF NamesInv, NamesTypes, NamesRec
  <2>2. /\ \A q \in Path : state'.rom[q] \in Nat /\ state.rom[q] \in Nat /\ state.rom[q] <= state'.rom[q]
        /\ state'.cache = state.cache /\ state'.saved = state.saved /\ state'.job = state.job
        /\ state'.unread = state.unread
    BY <1>2 DEF NamesInv, NamesTypes, NamesRec, N!Replace
  <2>3. \A e : Fits(e, state.rom, state.unread) => Fits(e, state'.rom, state.unread)
    BY <2>2 DEF Fits
  <2>4. Fit(state'.cache, state') /\ Fit(state'.saved, state')
    BY <2>2, <2>3 DEF NamesInv, Fit
  <2>5. Looking(state')
    BY <2>2 DEF NamesInv, Looking
  <2> QED
    BY <2>1, <2>2, <2>4, <2>5 DEF NamesInv, NamesTypes
<1>3. ASSUME NEW p \in Path, NEW t \in Thread, N!Lookup(t, p)
      PROVE  NamesInv'
  <2> DEFINE e == state.cache[Slot(p)]
             j == [at |-> IF e.key = N!Key(p) THEN "name" ELSE "sum", path |-> p, key |-> N!Key(p),
                   crc |-> IF e.key = N!Key(p) THEN e.crc ELSE None]
  <2>1. e \in Sum /\ N!Key(p) \in Sums /\ N!Key(p) = <<p, state.rom[p]>> /\ state.rom[p] \in Nat
    BY DEF NamesInv, NamesTypes, NamesRec, N!Slots, N!Key, Sums
  <2>2. j \in NamesJob
    BY <2>1 DEF NamesJob, Sum
  <2>3. state' = [state EXCEPT !.job = [state.job EXCEPT ![t] = j]]
    BY <1>3 DEF N!Lookup
  <2>4. j.path = p /\ j.at \in {"name", "sum"} /\ j.key = <<p, state.rom[p]>>
    BY <2>1
  <2> HIDE DEF j
  <2>5. state' \in NamesRec
    BY <2>2, <2>3 DEF NamesInv, NamesTypes, NamesRec
  <2>6. \E v \in 0 .. state.rom[j.path] : j.key = <<j.path, v>>
    BY <2>1, <2>4
  <2>7. j.path \in Path
    BY <2>4
  <2>8. state'.job = [state.job EXCEPT ![t] = j] /\ state'.rom = state.rom
    BY <2>3
  <2>9. Looking(state')
    BY <2>2, <2>5, <2>6, <2>7, <2>8, JobGoesOn
  <2> QED
    BY <2>3, <2>5, <2>9 DEF NamesInv, NamesTypes, NamesRec, Fit
<1>4. ASSUME NEW t \in Thread, N!Sum(t)
      PROVE  NamesInv'
  <2> DEFINE p == state.job[t].path
             Line(crc) == [key |-> state.job[t].key, crc |-> crc]
             Cache(crc) == [state.cache EXCEPT ![Slot(p)] = Line(crc)]
             full == state.misses + 1 > SaveAfter
             misses == IF full THEN 0 ELSE state.misses + 1
             J(crc) == [state.job[t] EXCEPT !.at = "name", !.crc = crc]
             U(read) == IF read THEN state.unread ELSE state.unread \cup {state.job[t].key}
             Crc(read) == IF read THEN <<p, state.rom[p]>> ELSE None
  <2>1. PICK read \in BOOLEAN :
         \E saved \in (IF full THEN N!Save(state.saved, Cache(Crc(read))) ELSE {state.saved}) :
            state' = [state EXCEPT !.job[t].at = "name", !.job[t].crc = Crc(read), !.cache = Cache(Crc(read)),
                          !.misses = IF full THEN 0 ELSE @ + 1, !.saved = saved, !.unread = U(read)]
    BY <1>4, ZenonT(40) DEF N!Sum
  <2> DEFINE crc == Crc(read)
             cache == Cache(crc)
             unread == U(read)
             j == J(crc)
  <2>2. PICK saved \in (IF full THEN N!Save(state.saved, cache) ELSE {state.saved}) :
            state' = [state EXCEPT !.job[t].at = "name", !.job[t].crc = crc, !.cache = cache,
                          !.misses = misses, !.saved = saved, !.unread = unread]
    BY <2>1, Zenon
  <2>3. state.job[t] \in NamesJob /\ p \in Path
    BY <1>4 DEF NamesInv, NamesTypes, NamesRec, Looking, N!Sum
  <2>4. PICK v \in 0 .. state.rom[p] : state.job[t].key = <<p, v>>
    BY <1>4 DEF NamesInv, Looking, N!Sum
  <2>5. state.rom[p] \in Nat /\ state.job[t].key \in Sums
    BY <2>3, <2>4 DEF NamesInv, NamesTypes, NamesRec, Sums
  <2>6. crc \in Sums \cup {None} /\ (read => crc = <<p, state.rom[p]>>) /\ (~read => crc = None)
    BY <2>3, <2>5 DEF Sums
  <2>7. /\ unread \in SUBSET Sums /\ state.unread \subseteq unread
        /\ ~read => state.job[t].key \in unread
    BY <2>5 DEF NamesInv, NamesTypes, NamesRec
  <2>8. j \in NamesJob /\ j.at = "name" /\ j.path = p
    BY <2>3, <2>6 DEF NamesJob
  <2>9. state' = [state EXCEPT !.job = [state.job EXCEPT ![t] = j], !.cache = cache, !.misses = misses,
                        !.saved = saved, !.unread = unread]
    <3>1. [[state.job EXCEPT ![t].at = "name"] EXCEPT ![t].crc = crc] = [state.job EXCEPT ![t] = j]
      BY <2>3 DEF NamesInv, NamesTypes, NamesRec, NamesJob
    <3> HIDE DEF j, cache, misses, unread, crc
    <3> QED
      BY <2>2, <3>1 DEF NamesInv, NamesTypes, NamesRec
  <2>10. misses \in 0 .. SaveAfter
    BY NamesAssumption DEF NamesInv, NamesTypes, NamesRec
  <2> DEFINE r == [rom |-> state.rom, unread |-> unread]
  <2>11. cache \in [N!Slots -> Sum] /\ Fit(cache, r) /\ Fit(state.saved, r)
    <3>1. Line(crc) \in Sum
      BY <2>3, <2>6 DEF NamesJob, Sum
    <3>2. Fits(Line(crc), state.rom, unread)
      <4>1. CASE read
        BY <4>1, <2>3, <2>4, <2>5, <2>6 DEF Fits
      <4>2. CASE ~read
        BY <4>2, <2>6, <2>7 DEF Fits
      <4> QED
        BY <4>1, <4>2
    <3> HIDE DEF unread
    <3>3. \A s \in N!Slots : /\ Fits(state.cache[s], state.rom, unread)
                             /\ Fits(state.saved[s], state.rom, unread)
      BY <2>7 DEF NamesInv, Fit, Fits
    <3> HIDE DEF Line, crc
    <3> QED
      BY <3>1, <3>2, <3>3 DEF NamesInv, NamesTypes, NamesRec, Fit
  <2> HIDE DEF j, cache, misses, unread, crc
  <2>12. saved \in [N!Slots -> Sum] /\ Fit(saved, r)
    <3>1. CASE full
      BY <3>1, <2>11, SaveFits DEF NamesInv, NamesTypes, NamesRec
    <3>2. CASE ~full
      BY <3>2, <2>11 DEF NamesInv, NamesTypes, NamesRec
    <3> QED
      BY <3>1, <3>2
  <2>13. state' \in NamesRec
    BY <2>7, <2>8, <2>9, <2>10, <2>11, <2>12 DEF NamesInv, NamesTypes, NamesRec
  <2>14. /\ state'.rom = state.rom /\ state'.cache = cache /\ state'.saved = saved /\ state'.unread = unread
         /\ state'.job = [state.job EXCEPT ![t] = j]
    BY <2>9 DEF NamesInv, NamesTypes, NamesRec
  <2>15. Looking(state')
    BY <2>3, <2>8, <2>13, <2>14, JobGoesOn
  <2> QED
    BY <2>11, <2>12, <2>13, <2>14, <2>15 DEF NamesInv, NamesTypes, Fit
<1>5. ASSUME NEW t \in Thread, N!FindName(t)
      PROVE  NamesInv'
  <2>1. N!Idle \in NamesJob /\ N!Idle.at = "off"
    BY DEF N!Idle, NamesJob
  <2>2. state' = [state EXCEPT !.job = [state.job EXCEPT ![t] = N!Idle]]
    BY <1>5 DEF N!FindName
  <2>3. state' \in NamesRec
    BY <2>1, <2>2 DEF NamesInv, NamesTypes, NamesRec
  <2>4. Looking(state')
    BY <2>1, <2>2, <2>3, JobGoesOn DEF NamesInv, NamesTypes, NamesRec
  <2> QED
    BY <2>2, <2>3, <2>4 DEF NamesInv, NamesTypes, NamesRec, Fit
<1> QED
  BY <1>1, <1>2, <1>3, <1>4, <1>5 DEF N!Next

LEMMA NamesInit == ASSUME N!Init PROVE NamesInv
<1>1. N!NoEntry \in Sum /\ N!NoEntry.key = None /\ N!Idle \in NamesJob /\ N!Idle.at = "off"
  BY DEF N!NoEntry, Sum, N!Idle, NamesJob
<1>2. state \in NamesRec
  BY <1>1, NamesAssumption DEF N!Init, NamesRec
<1>3. Fit(state.cache, state) /\ Fit(state.saved, state) /\ Looking(state)
  BY <1>1 DEF N!Init, Fit, Fits, Looking
<1> QED
  BY <1>2, <1>3 DEF NamesInv, NamesTypes

LEMMA NamesTyped == ASSUME NamesInv PROVE N!TypeOK
BY DEF NamesInv, NamesTypes, NamesRec, NamesJob, N!TypeOK

\* A hit is of the rom as it is, or of one that could not be read.
LEMMA HitsStep == ASSUME NamesInv, N!Next PROVE N!HitsAreCurrent
<1> SUFFICES ASSUME NEW u \in Thread, state.job[u].at = "off", state'.job[u].at = "name"
             PROVE  LET j == state'.job[u]
                    IN  \/ j.crc = <<j.path, state.rom[j.path]>>
                        \/ j.crc = None /\ <<j.path, state.rom[j.path]>> \in state.unread
  BY DEF N!HitsAreCurrent
<1>1. state \in NamesRec
  BY DEF NamesInv, NamesTypes
<1>2. ASSUME NEW p \in Path, NEW t \in Thread, N!Lookup(t, p)
      PROVE  LET j == state'.job[u]
             IN  \/ j.crc = <<j.path, state.rom[j.path]>>
                 \/ j.crc = None /\ <<j.path, state.rom[j.path]>> \in state.unread
  <2> DEFINE e == state.cache[Slot(p)]
             j == [at |-> IF e.key = N!Key(p) THEN "name" ELSE "sum", path |-> p, key |-> N!Key(p),
                   crc |-> IF e.key = N!Key(p) THEN e.crc ELSE None]
  <2>1. state' = [state EXCEPT !.job = [state.job EXCEPT ![t] = j]]
    BY <1>2 DEF N!Lookup
  <2>2. state'.job = [state.job EXCEPT ![t] = j]
    BY <1>1, <2>1 DEF NamesRec
  <2>3. u = t /\ state'.job[u] = j
    BY <1>1, <2>2 DEF NamesRec
  <2>4. j.path = p /\ (j.at = "name" => e.key = N!Key(p) /\ j.crc = e.crc)
    OBVIOUS
  <2> HIDE DEF j
  <2>5. e.key = <<p, state.rom[p]>> /\ j.crc = e.crc /\ state.rom[p] \in Nat
    BY <1>1, <2>3, <2>4 DEF N!Key, NamesRec
  <2>6. Fits(e, state.rom, state.unread)
    BY DEF NamesInv, Fit, N!Slots
  <2>7. e.key # None
    BY <2>5, NamesAssumption
  <2>8. \/ e.crc = <<p, state.rom[p]>>
        \/ e.crc = None /\ <<p, state.rom[p]>> \in state.unread
    BY <2>5, <2>6, <2>7 DEF Fits
  <2> QED
    BY <2>3, <2>4, <2>5, <2>8
<1>3. CASE N!Restart
  BY <1>1, <1>3 DEF N!Restart, NamesRec, N!Idle
<1>4. ASSUME NEW p \in Path, N!Replace(p) PROVE FALSE
  BY <1>1, <1>4 DEF N!Replace, NamesRec
<1>5. ASSUME NEW t \in Thread, N!Sum(t) PROVE FALSE
  <2>1. t # u /\ state'.job[u] = state.job[u]
    BY <1>1, <1>5 DEF N!Sum, NamesRec
  <2> QED
    BY <2>1
<1>6. ASSUME NEW t \in Thread, N!FindName(t) PROVE FALSE
  BY <1>1, <1>6 DEF N!FindName, N!Idle, NamesRec
<1> QED
  BY <1>2, <1>3, <1>4, <1>5, <1>6 DEF N!Next

(* The playlists.                                                          *)
\* What is inserted are labels of the list.
LEMMA InsertIs ==
    ASSUME NEW labels \in [Path -> PlayLabel \cup {None}], NEW l \in Y!List, NEW found,
           NEW items \in [found -> LabelOf(l)]
    PROVE  Y!Insert(labels, items) \in [Path -> PlayLabel \cup {None}]
BY DEF Y!Insert, PlayLabel

LEMMA ItemsAre ==
    ASSUME NEW l \in Y!List, NEW v \in Y!Version
    PROVE  Y!Items(l, v) \in [Lists[l] -> LabelOf(l)]
BY DEF Y!Items, LabelOf

LEMMA NextIs == ASSUME NEW l \in Y!List PROVE l + 1 \in 1 .. Len(Lists) + 1
BY NamesAssumption DEF Y!List

LEMMA PlayStep == ASSUME PlayInv, Y!Next PROVE PlayInv'
<1>1. state \in PlayRec
  BY DEF PlayInv
<1>2. CASE Y!Restart
  <2>1. Y!Labelled \in [Path -> PlayLabel \cup {None}] /\ 1 \in 1 .. Len(Lists) + 1
    BY NamesAssumption DEF Y!Labelled
  <2>2. state' = [state EXCEPT !.next = 1, !.labels = Y!Labelled, !.missed = FALSE]
    BY <1>2 DEF Y!Restart
  <2>3. state' \in PlayRec /\ state'.bins = state.bins
    BY <1>1, <2>1, <2>2 DEF PlayRec
  <2> QED
    BY <2>3 DEF PlayInv, OfTheirKey
<1>3. ASSUME NEW l \in Y!List, Y!EditList(l)
      PROVE  PlayInv'
  <2>1. state' = [state EXCEPT !.version[l] = @ + 1] /\ state.version[l] < MaxVersion
    BY <1>3 DEF Y!EditList
  <2>2. state.version[l] + 1 \in Y!Version
    BY <1>1, <2>1, NamesAssumption DEF PlayRec, Y!Version
  <2>3. state' \in PlayRec /\ state'.bins = state.bins
    BY <1>1, <2>1, <2>2 DEF PlayRec
  <2> QED
    BY <2>3 DEF PlayInv, OfTheirKey
<1>4. ASSUME NEW l \in Y!List, Y!LoadCache(l)
      PROVE  PlayInv'
  <2> DEFINE bin == state.bins[l][Y!LplCrc32(state.version[l])]
  <2>1. bin \in Bin \cup {None}
    BY <1>1 DEF PlayRec, Y!LplCrc32
  <2>2. PICK items \in Y!CacheItems(l, bin) :
            state' = [state EXCEPT !.next = l + 1, !.labels = Y!Insert(@, items), !.missed = FALSE]
    BY <1>4 DEF Y!LoadCache
  <2>3. \E found : items \in [found -> LabelOf(l)]
    <3>1. bin # None /\ bin.of \in Y!Version
      BY <2>1, <2>2 DEF Y!CacheItems, Bin
    <3>2. CASE items = Y!Items(l, bin.of)
      BY <3>1, <3>2, ItemsAre
    <3>3. ASSUME NEW found \in SUBSET Lists[l], items \in [found -> {<<l, bin.of>>, <<l, None>>}]
          PROVE  items \in [found -> LabelOf(l)]
      BY <3>1, <3>3 DEF LabelOf
    <3> QED
      BY <2>2, <3>1, <3>2, <3>3 DEF Y!CacheItems
  <2> HIDE DEF bin
  <2>4. Y!Insert(state.labels, items) \in [Path -> PlayLabel \cup {None}]
    BY <1>1, <2>3, InsertIs DEF PlayRec
  <2>5. state' \in PlayRec /\ state'.bins = state.bins
    BY <1>1, <2>2, <2>4, NextIs DEF PlayRec
  <2> QED
    BY <2>5 DEF PlayInv, OfTheirKey
<1>5. ASSUME NEW l \in Y!List, Y!LoadLpl(l)
      PROVE  PlayInv'
  <2> DEFINE v == state.version[l]
             labels == Y!Insert(state.labels, Y!Items(l, v))
  <2>1. v \in Y!Version
    BY <1>1 DEF PlayRec
  <2>2. PICK b \in {state.bins[l][v]} \cup { [of |-> v, whole |-> w] : w \in BOOLEAN } :
            state' = [state EXCEPT !.next = l + 1, !.labels = labels, !.missed = FALSE, !.bins[l][v] = b]
    BY <1>5 DEF Y!LoadLpl, Y!LplCrc32
  <2>3. labels \in [Path -> PlayLabel \cup {None}]
    BY <1>1, <2>1, ItemsAre, InsertIs DEF PlayRec
  <2> HIDE DEF v, labels
  <2>4. b \in Bin \cup {None} /\ (b # None => b.of = v)
    BY <1>1, <2>1, <2>2 DEF PlayInv, OfTheirKey, PlayRec, Bin
  <2>5. state' = [state EXCEPT !.next = l + 1, !.labels = labels, !.missed = FALSE,
                               !.bins = [state.bins EXCEPT ![l] = [state.bins[l] EXCEPT ![v] = b]]]
    BY <2>2
  <2>6. [state.bins EXCEPT ![l] = [state.bins[l] EXCEPT ![v] = b]] \in [Y!List -> [Y!Version -> Bin \cup {None}]]
    BY <1>1, <2>1, <2>4 DEF PlayRec
  <2>7. state' \in PlayRec
    BY <1>1, <2>3, <2>5, <2>6, NextIs DEF PlayRec
  <2>8. \A m \in Y!List : \A k \in Y!Version :
            state'.bins[m][k] = IF m = l /\ k = v THEN b ELSE state.bins[m][k]
    BY <1>1, <2>1, <2>5 DEF PlayRec
  <2> QED
    BY <2>4, <2>7, <2>8 DEF PlayInv, OfTheirKey
<1>6. ASSUME NEW l \in Y!List, Y!Miss(l)
      PROVE  PlayInv'
  <2>1. state' \in PlayRec /\ state'.bins = state.bins
    BY <1>1, <1>6, NextIs DEF PlayRec, Y!Miss
  <2> QED
    BY <2>1 DEF PlayInv, OfTheirKey
<1>7. CASE Y!ClearCache
  <2>1. state' = [state EXCEPT !.bins = Y!NoBins]
    BY <1>7 DEF Y!ClearCache
  <2>2. Y!NoBins \in [Y!List -> [Y!Version -> Bin \cup {None}]]
    BY DEF Y!NoBins
  <2>3. state' \in PlayRec /\ state'.bins = Y!NoBins
    BY <1>1, <2>1, <2>2 DEF PlayRec
  <2> QED
    BY <2>3 DEF PlayInv, OfTheirKey, Y!NoBins
<1> QED
  BY <1>2, <1>3, <1>4, <1>5, <1>6, <1>7 DEF Y!Next, Y!Load

LEMMA PlayInit == ASSUME Y!Init PROVE PlayInv
<1>1. state \in PlayRec
  BY NamesAssumption DEF Y!Init, Y!NoBins, Y!Version, Y!Labelled, PlayRec
<1> QED
  BY <1>1 DEF Y!Init, Y!NoBins, PlayInv, OfTheirKey

LEMMA PlayTyped == ASSUME PlayInv PROVE Y!TypeOK
<1>1. \A p \in Path : state.labels[p] # None => state.labels[p] \in PlayLabel
  BY DEF PlayInv, PlayRec
<1>2. \A label \in PlayLabel : label[1] \in Y!List
  BY DEF PlayLabel, LabelOf
<1> QED
  BY <1>1, <1>2 DEF PlayInv, PlayRec, Y!TypeOK

\* A playlist that is read whole gives its labels as they are.
LEMMA LabelsStep == ASSUME PlayInv PROVE Y!LabelsAreCurrent
<1> SUFFICES ASSUME NEW l \in Y!List, Y!Load(l), ~state'.missed, ~Y!Cut(l), NEW p \in Path
             PROVE  state'.labels[p] = IF state.labels[p] = None /\ p \in Lists[l]
                                       THEN <<l, state.version[l]>> ELSE state.labels[p]
  BY DEF Y!LabelsAreCurrent
<1> DEFINE v == state.version[l]
           bin == state.bins[l][v]
<1>1. state \in PlayRec /\ v \in Y!Version /\ bin \in Bin \cup {None}
  BY DEF PlayInv, PlayRec
<1>2. CASE Y!LoadCache(l)
  <2>1. PICK items \in Y!CacheItems(l, bin) :
            state' = [state EXCEPT !.next = l + 1, !.labels = Y!Insert(@, items), !.missed = FALSE]
    BY <1>2 DEF Y!LoadCache, Y!LplCrc32
  <2>2. bin # None /\ bin.whole /\ bin.of = v
    BY <1>1, <2>1 DEF Y!CacheItems, Y!Cut, PlayInv, OfTheirKey
  <2>3. items = Y!Items(l, v)
    BY <2>1, <2>2 DEF Y!CacheItems
  <2>4. state'.labels = Y!Insert(state.labels, Y!Items(l, v))
    BY <1>1, <2>1, <2>3 DEF PlayRec
  <2> QED
    BY <2>4 DEF Y!Insert, Y!Items
<1>3. CASE Y!LoadLpl(l)
  <2>1. state'.labels = Y!Insert(state.labels, Y!Items(l, v))
    BY <1>1, <1>3 DEF Y!LoadLpl, PlayRec
  <2> QED
    BY <2>1 DEF Y!Insert, Y!Items
<1>4. CASE Y!Miss(l)
  BY <1>1, <1>4 DEF Y!Miss, PlayRec
<1> QED
  BY <1>2, <1>3, <1>4 DEF Y!Load

-----------------------------------------------------------------------------
(* The settings.                                                           *)
\* The records the operators of Settings return.
Kept(s, c) == s.plain = c.plain /\ s.option = c.option /\ s.device = c.device /\ s.own = c.own /\ s.by = c.by
Named(s, c) == s.game = c.game /\ s.version = c.version /\ s.vary = c.vary
Told(s, c) == s.flag = c.flag /\ s.used = c.used
Plugged(s, c) == s.keys = c.keys /\ s.port = c.port /\ s.behind = c.behind
Filed(s, c) == s.step = c.step /\ s.then = c.then /\ s.path = c.path /\ s.file = c.file

LEMMA ContentIs ==
    ASSUME NEW c \in CfgRec
    PROVE  /\ S!Content(c) \in Files /\ S!Content(c) # None
           /\ S!Whole(S!Content(c)) /\ Kept(S!Content(c), c)
<1>1. S!Content(c) \in Files
  BY DEF S!Content, CfgRec, Files
<1> QED
  BY <1>1, CfgAssumption DEF S!Content, S!Whole, Kept

LEMMA CutIs ==
    ASSUME NEW c \in CfgRec
    PROVE  /\ S!Cut(c) \in Files /\ S!Cut(c) # None /\ ~S!Whole(S!Cut(c)) /\ S!Cut(c).own = c.own
<1>1. S!Cut(c) \in Files
  BY DEF S!Cut, CfgRec, Files
<1> QED
  BY <1>1, CfgAssumption DEF S!Cut, S!Whole

LEMMA SavingIs ==
    ASSUME NEW c \in CfgRec, NEW p \in S!Rom \cup {None}, NEW then \in {"ui", "start", "kept", "load"},
           NEW s, s = S!Saving(c, p, then)
    PROVE  /\ s \in CfgRec /\ Kept(s, c) /\ Named(s, c) /\ Told(s, c) /\ Plugged(s, c) /\ s.set = c.set
           /\ s.step = "save" /\ s.then = then /\ s.path = p
           /\ s.file = [c.file EXCEPT ![p] = None]
<1> DEFINE f == [c.file EXCEPT ![p] = None]
<1>1. f \in [S!Rom \cup {None} -> Files \cup {None}]
  BY DEF CfgRec
<1>2. s = [c EXCEPT !.file = f, !.step = "save", !.path = p, !.then = then]
  BY DEF S!Saving, CfgRec
<1> HIDE DEF f
<1> DEFINE t == [c EXCEPT !.file = f, !.step = "save"]
<1>3. t \in CfgRec
  BY <1>1 DEF CfgRec
<1>4. s = [t EXCEPT !.path = p, !.then = then]
  BY <1>2 DEF CfgRec
<1> HIDE DEF t
<1> DEFINE u == [t EXCEPT !.path = p]
<1>8. u \in CfgRec
  BY <1>3 DEF CfgRec
<1>9. s = [u EXCEPT !.then = then]
  BY <1>3, <1>4 DEF CfgRec
<1> HIDE DEF u
<1>5. s \in CfgRec
  BY <1>8, <1>9 DEF CfgRec
<1>6. s.file = f /\ s.step = "save" /\ s.path = p /\ s.then = then /\ s.set = c.set
  BY <1>2 DEF CfgRec
<1>7. Kept(s, c) /\ Named(s, c) /\ Told(s, c) /\ Plugged(s, c)
  BY <1>2 DEF CfgRec, Kept, Named, Told, Plugged
<1> QED
  BY <1>5, <1>6, <1>7 DEF f

LEMMA TakenIs ==
    ASSUME NEW c \in CfgRec, NEW f,
           f.plain \in Value \cup {0}, f.option \in Words, f.device \in Words, f.own \in BOOLEAN,
           f.by \in S!Version \cup {None}, NEW s, s = S!Taken(c, f)
    PROVE  /\ s \in CfgRec /\ Named(s, c) /\ Told(s, c) /\ Plugged(s, c) /\ Filed(s, c) /\ s.set = c.set
           /\ s.plain = f.plain /\ s.device = f.device /\ s.own = f.own /\ s.by = f.by
           /\ s.option = IF f.option = None THEN c.option ELSE f.option
<1> DEFINE option == IF f.option = None THEN c.option ELSE f.option
<1>1. option \in Words
  BY DEF CfgRec
<1>2. s = [c EXCEPT !.plain = f.plain, !.option = option, !.device = f.device, !.own = f.own, !.by = f.by]
  BY DEF S!Taken
<1> HIDE DEF option
<1> DEFINE t == [c EXCEPT !.plain = f.plain, !.option = option]
<1>3. t \in CfgRec
  BY <1>1 DEF CfgRec
<1>4. s = [t EXCEPT !.device = f.device, !.own = f.own, !.by = f.by]
  BY <1>2 DEF CfgRec
<1> HIDE DEF t
<1>5. s \in CfgRec
  BY <1>3, <1>4 DEF CfgRec
<1>6. s.plain = f.plain /\ s.option = option /\ s.device = f.device /\ s.own = f.own /\ s.by = f.by
  BY <1>2 DEF CfgRec
<1>7. Named(s, c) /\ Told(s, c) /\ Plugged(s, c) /\ Filed(s, c) /\ s.set = c.set
  BY <1>2 DEF CfgRec, Named, Told, Plugged, Filed
<1> QED
  BY <1>5, <1>6, <1>7 DEF option

\* A file is read as it was written, or was cut.
LEMMA LoadsIs ==
    ASSUME NEW c \in CfgRec, NEW p \in S!Rom \cup {None}, NEW s \in S!Loads(c, p)
    PROVE  /\ s \in CfgRec /\ Named(s, c) /\ Told(s, c) /\ Plugged(s, c) /\ Filed(s, c) /\ s.set = c.set
           /\ c.file[p] # None
           /\ S!Whole(c.file[p]) =>
                 /\ s.plain = c.file[p].plain /\ s.device = c.file[p].device /\ s.own = c.file[p].own
                 /\ s.by = c.file[p].by
                 /\ s.option = IF c.file[p].option = None THEN c.option ELSE c.file[p].option
           /\ ~S!Whole(c.file[p]) =>
                 s.by = None /\ s.own \in {c.file[p].own, FALSE} /\ (c.option # None => s.option # None)
<1> DEFINE file == c.file[p]
<1>1. file # None /\ file \in Files
  BY DEF S!Loads, CfgRec
<1>2. PICK f \in (IF file.whole THEN {file} ELSE S!Anything(c, file.own)) : s = S!Taken(c, f)
  BY <1>1, Zenon DEF S!Loads
<1> HIDE DEF file
<1>3. CASE file.whole
  <2>1. /\ f = file /\ f.plain \in Value \cup {0} /\ f.option \in Words /\ f.device \in Words
        /\ f.own \in BOOLEAN /\ f.by \in S!Version \cup {None}
    BY <1>1, <1>2, <1>3 DEF Files
  <2>2. /\ s \in CfgRec /\ Named(s, c) /\ Told(s, c) /\ Plugged(s, c) /\ Filed(s, c) /\ s.set = c.set
        /\ s.plain = f.plain /\ s.device = f.device /\ s.own = f.own /\ s.by = f.by
        /\ s.option = IF f.option = None THEN c.option ELSE f.option
    BY ONLY c \in CfgRec, <1>2, <2>1, TakenIs
  <2> QED
    BY <1>1, <1>3, <2>1, <2>2 DEF S!Whole, file
<1>4. CASE ~file.whole
  <2>1. file.own \in BOOLEAN
    BY <1>1 DEF Files
  <2>2. f \in S!Anything(c, file.own)
    BY <1>2, <1>4
  <2>3. /\ f.plain \in Value \cup {0} /\ f.option \in {S!Garbled, c.option} /\ f.device \in {S!Garbled, c.device}
        /\ f.own \in {file.own, FALSE} /\ f.by = None
    BY <2>2 DEF S!Anything, CfgRec
  <2>4. /\ f.option \in Words /\ f.device \in Words /\ f.own \in BOOLEAN /\ f.by \in S!Version \cup {None}
    BY <2>1, <2>3 DEF CfgRec, Words
  <2>5. /\ s \in CfgRec /\ Named(s, c) /\ Told(s, c) /\ Plugged(s, c) /\ Filed(s, c) /\ s.set = c.set
        /\ s.own = f.own /\ s.by = f.by
        /\ s.option = IF f.option = None THEN c.option ELSE f.option
    BY ONLY c \in CfgRec, <1>2, <2>3, <2>4, TakenIs
  <2> QED
    BY <1>1, <1>4, <2>3, <2>5 DEF S!Whole, file
<1> QED
  BY <1>3, <1>4

\* What is written, or not, forgets what is lost.
LEMMA LostIs ==
    ASSUME NEW c \in CfgRec, NEW p \in S!Rom \cup {None}, NEW s, s = S!Lost(c, p)
    PROVE  /\ s \in CfgRec /\ Kept(s, c) /\ Named(s, c) /\ Told(s, c) /\ Plugged(s, c) /\ Filed(s, c)
           /\ s.set \in [S!Rom -> Value \cup {0, None}]
           /\ \A g \in S!Rom : s.set[g] = IF g = p THEN None ELSE c.set[g]
<1>1. CASE p = None
  BY <1>1, CfgAssumption DEF S!Lost, CfgRec, Kept, Named, Told, Plugged, Filed
<1>2. CASE p # None
  <2> DEFINE set == [c.set EXCEPT ![p] = None]
  <2>1. /\ set \in [S!Rom -> Value \cup {0, None}]
        /\ \A g \in S!Rom : set[g] = IF g = p THEN None ELSE c.set[g]
    BY <1>2 DEF CfgRec
  <2>2. s = [c EXCEPT !.set = set]
    BY <1>2 DEF S!Lost
  <2> HIDE DEF set
  <2>3. s \in CfgRec /\ s.set = set
    BY <2>1, <2>2 DEF CfgRec
  <2>4. Kept(s, c) /\ Named(s, c) /\ Told(s, c) /\ Plugged(s, c) /\ Filed(s, c)
    BY <2>2 DEF CfgRec, Kept, Named, Told, Plugged, Filed
  <2> QED
    BY <2>1, <2>3, <2>4
<1> QED
  BY <1>1, <1>2

Put(r, p, f) == [r EXCEPT !.file[p] = f]

LEMMA FileIs ==
    ASSUME NEW r \in CfgRec, NEW p \in S!Rom \cup {None}, NEW f \in Files \cup {None},
           NEW t, t = Put(r, p, f)
    PROVE  /\ t \in CfgRec /\ Kept(t, r) /\ Named(t, r) /\ Told(t, r) /\ Plugged(t, r)
           /\ t.step = r.step /\ t.then = r.then /\ t.path = r.path /\ t.set = r.set
           /\ t.file[p] = f /\ \A q \in S!Rom \cup {None} : q # p => t.file[q] = r.file[q]
<1> DEFINE file == [r.file EXCEPT ![p] = f]
<1>1. file \in [S!Rom \cup {None} -> Files \cup {None}]
        /\ file[p] = f /\ \A q \in S!Rom \cup {None} : q # p => file[q] = r.file[q]
  BY DEF CfgRec
<1>2. t = [r EXCEPT !.file = file]
  BY DEF Put
<1> HIDE DEF file
<1>3. t \in CfgRec /\ t.file = file
  BY <1>1, <1>2 DEF CfgRec
<1>4. /\ Kept(t, r) /\ Named(t, r) /\ Told(t, r) /\ Plugged(t, r)
        /\ t.step = r.step /\ t.then = r.then /\ t.path = r.path /\ t.set = r.set
  BY <1>2 DEF CfgRec, Kept, Named, Told, Plugged
<1> QED
  BY <1>1, <1>3, <1>4

LEMMA WrittenIs ==
    ASSUME NEW c \in CfgRec, NEW p \in S!Rom \cup {None}, NEW s \in S!Written(c, p)
    PROVE  /\ s \in CfgRec /\ Kept(s, c) /\ Named(s, c) /\ Told(s, c) /\ Plugged(s, c)
           /\ s.step = c.step /\ s.then = c.then /\ s.path = c.path
           /\ \A q \in S!Rom \cup {None} : q # p => s.file[q] = c.file[q]
           /\ \A g \in S!Rom : g # p => s.set[g] = c.set[g]
           /\ \/ s.file[p] = S!Content(c) /\ s.set = c.set
              \/ s.file[p] = None /\ (p # None => s.set[p] = None)
              \/ s.file[p] = S!Cut(c) /\ (p # None => s.set[p] = None)
<1>2. CASE s = [c EXCEPT !.file[p] = S!Content(c)]
  <2>1. S!Content(c) \in Files \cup {None} /\ s = Put(c, p, S!Content(c))
    BY <1>2, ContentIs DEF Put
  <2>2. /\ s \in CfgRec /\ Kept(s, c) /\ Named(s, c) /\ Told(s, c) /\ Plugged(s, c)
        /\ s.step = c.step /\ s.then = c.then /\ s.path = c.path /\ s.set = c.set
        /\ s.file[p] = S!Content(c) /\ \A q \in S!Rom \cup {None} : q # p => s.file[q] = c.file[q]
    BY <2>1, FileIs
  <2> QED
    BY <2>2
<1>3. ASSUME NEW f \in {None, S!Cut(c)}, s = [S!Lost(c, p) EXCEPT !.file[p] = f]
      PROVE  /\ s \in CfgRec /\ Kept(s, c) /\ Named(s, c) /\ Told(s, c) /\ Plugged(s, c)
             /\ s.step = c.step /\ s.then = c.then /\ s.path = c.path
             /\ \A q \in S!Rom \cup {None} : q # p => s.file[q] = c.file[q]
             /\ \A g \in S!Rom : g # p => s.set[g] = c.set[g]
             /\ s.file[p] = f /\ (p # None => s.set[p] = None)
  <2> DEFINE r == S!Lost(c, p)
  <2>1. /\ r \in CfgRec /\ Kept(r, c) /\ Named(r, c) /\ Told(r, c) /\ Plugged(r, c) /\ Filed(r, c)
        /\ \A g \in S!Rom : r.set[g] = IF g = p THEN None ELSE c.set[g]
    BY LostIs
  <2>4. s = Put(r, p, f)
    BY <1>3 DEF Put
  <2> HIDE DEF r
  <2>2. f \in Files \cup {None}
    BY CutIs
  <2>3. /\ s \in CfgRec /\ Kept(s, r) /\ Named(s, r) /\ Told(s, r) /\ Plugged(s, r)
        /\ s.step = r.step /\ s.then = r.then /\ s.path = r.path /\ s.set = r.set
        /\ s.file[p] = f /\ \A q \in S!Rom \cup {None} : q # p => s.file[q] = r.file[q]
    BY <2>1, <2>2, <2>4, FileIs
  <2> QED
    BY <2>1, <2>3 DEF Kept, Named, Told, Plugged, Filed
<1> QED
  BY <1>2, <1>3 DEF S!Written

LEMMA OptionsAre ==
    ASSUME NEW c \in CfgRec
    PROVE  /\ S!Offered(c) = Options(c.version) /\ S!Default(c) \in Options(c.version)
           /\ Options(c.version) \subseteq Offers /\ Offers \subseteq Words /\ None \notin Options(c.version)
           /\ S!Unset \in Words
<1>1. c.version \in S!Version
  BY DEF CfgRec
<1> QED
  BY <1>1, CfgAssumption DEF S!Offered, S!Default, Offers, Options, S!Version, Words

\* The pad takes over what is set, once a game is loaded.
LEMMA SetupKeysIs ==
    ASSUME NEW c \in CfgRec, NEW s, s = S!SetupKeys(c)
    PROVE  /\ s \in CfgRec /\ Kept(s, c) /\ Named(s, c) /\ Told(s, c) /\ Filed(s, c) /\ s.set = c.set
           /\ c.port \in Options(c.version) \cup {S!Unset} => s.port \in Options(c.version) \cup {S!Unset}
           /\ "options" \in s.behind <=> "options" \in c.behind
           /\ c.game # None => Plugs(s, s)
<1>1. CASE c.game = None
  BY <1>1 DEF S!SetupKeys, Kept, Named, Told, Filed
<1>2. CASE c.game # None
  <2> DEFINE port == IF c.device \in S!Offered(c) THEN c.device ELSE c.port
             behind == c.behind \ {"controls", "device"}
  <2>1. /\ port \in Words
        /\ c.device \in Options(c.version) => port = c.device
        /\ c.port \in Options(c.version) \cup {S!Unset} => port \in Options(c.version) \cup {S!Unset}
    BY OptionsAre DEF CfgRec
  <2>2. s = [c EXCEPT !.keys = c.plain, !.behind = behind, !.port = port]
    BY <1>2 DEF S!SetupKeys, CfgRec
  <2>3. behind \in SUBSET S!Told /\ ("options" \in behind <=> "options" \in c.behind)
    BY DEF CfgRec
  <2> HIDE DEF port, behind
  <2> DEFINE t == [c EXCEPT !.keys = c.plain, !.port = port]
  <2>4. s = [t EXCEPT !.behind = behind]
    BY ONLY <2>2 DEF CfgRec
  <2>5. t \in CfgRec
    BY <2>1 DEF CfgRec
  <2> HIDE DEF t
  <2>6. s \in CfgRec
    BY <2>3, <2>4, <2>5 DEF CfgRec
  <2>7. s.keys = c.plain /\ s.port = port /\ s.behind = behind
    BY ONLY <2>2 DEF CfgRec
  <2>8. Kept(s, c) /\ Named(s, c) /\ Told(s, c) /\ Filed(s, c) /\ s.set = c.set
    BY <2>2 DEF CfgRec, Kept, Named, Told, Filed
  <2>9. Plugs(s, s)
    BY <2>1, <2>7, <2>8 DEF Plugs, Kept, Named
  <2> QED
    BY <2>1, <2>3, <2>6, <2>7, <2>8, <2>9
<1> QED
  BY <1>1, <1>2

LEMMA NoteIs ==
    ASSUME NEW c \in CfgRec, NEW s, s = S!Note(c)
    PROVE  /\ s \in CfgRec /\ Kept(s, c) /\ Named(s, c) /\ Told(s, c) /\ Plugged(s, c) /\ Filed(s, c)
           /\ \A g \in Tuned : s.set[g] = c.set[g] \/ (s.own /\ s.game = g)
           /\ s.own /\ s.game \in Tuned => s.set[s.game] = s.plain
<1>1. CASE c.own /\ c.game \in Tuned
  <2> DEFINE set == [c.set EXCEPT ![c.game] = c.plain]
  <2>1. set \in [S!Rom -> Value \cup {0, None}] /\ set[c.game] = c.plain
        /\ \A g \in Tuned : set[g] = c.set[g] \/ c.game = g
    BY <1>1 DEF CfgRec, S!Rom
  <2>2. s = [c EXCEPT !.set = set]
    BY <1>1 DEF S!Note
  <2> HIDE DEF set
  <2>3. s \in CfgRec /\ s.set = set
    BY <2>1, <2>2 DEF CfgRec
  <2>4. Kept(s, c) /\ Named(s, c) /\ Told(s, c) /\ Plugged(s, c) /\ Filed(s, c)
    BY <2>2 DEF CfgRec, Kept, Named, Told, Plugged, Filed
  <2> QED
    BY <1>1, <2>1, <2>3, <2>4 DEF Kept, Named
<1>2. CASE ~(c.own /\ c.game \in Tuned)
  BY <1>2 DEF S!Note, Kept, Named, Told, Plugged, Filed
<1> QED
  BY <1>1, <1>2

LEMMA ChosenIs ==
    ASSUME NEW c \in CfgRec, NEW s, s = S!Chosen(c)
    PROVE  /\ s \in CfgRec /\ Named(s, c) /\ Told(s, c) /\ Plugged(s, c) /\ Filed(s, c) /\ s.set = c.set
           /\ s.plain = c.plain /\ s.option = c.option /\ s.device = c.device /\ s.own = c.own
           /\ s.by = IF c.by = c.version THEN c.by ELSE None
<1> DEFINE by == IF c.by = c.version THEN c.by ELSE None
<1>1. by \in S!Version \cup {None} /\ s = [c EXCEPT !.by = by]
  BY DEF S!Chosen, CfgRec
<1> HIDE DEF by
<1>2. s \in CfgRec /\ s.by = by
  BY <1>1 DEF CfgRec
<1>3. /\ Named(s, c) /\ Told(s, c) /\ Plugged(s, c) /\ Filed(s, c) /\ s.set = c.set
      /\ s.plain = c.plain /\ s.option = c.option /\ s.device = c.device /\ s.own = c.own
  BY <1>1 DEF CfgRec, Named, Told, Plugged, Filed
<1> QED
  BY <1>2, <1>3 DEF by

LEMMA BehindIs ==
    ASSUME NEW c \in CfgRec, NEW what \in SUBSET S!Told, NEW s, s = S!Behind(c, what)
    PROVE  /\ s \in CfgRec /\ Kept(s, c) /\ Named(s, c) /\ Told(s, c) /\ Filed(s, c) /\ s.set = c.set
           /\ s.keys = c.keys /\ s.port = c.port
           /\ c.game # None => s.behind = c.behind \cup what
<1>1. CASE c.game = None
  BY <1>1 DEF S!Behind, Kept, Named, Told, Filed
<1>2. CASE c.game # None
  <2> DEFINE behind == c.behind \cup what
  <2>1. behind \in SUBSET S!Told /\ s = [c EXCEPT !.behind = behind]
    BY <1>2 DEF S!Behind, CfgRec
  <2> HIDE DEF behind
  <2>2. s \in CfgRec /\ s.behind = behind
    BY <2>1 DEF CfgRec
  <2>3. /\ Kept(s, c) /\ Named(s, c) /\ Told(s, c) /\ Filed(s, c) /\ s.set = c.set
        /\ s.keys = c.keys /\ s.port = c.port
    BY <2>1 DEF CfgRec, Kept, Named, Told, Filed
  <2> QED
    BY <2>2, <2>3 DEF behind
<1> QED
  BY <1>1, <1>2

LEMMA RegisteredIs ==
    ASSUME NEW c \in CfgRec, NEW s, s = S!Registered(c)
    PROVE  /\ s \in CfgRec /\ Named(s, c) /\ Told(s, c) /\ Plugged(s, c) /\ Filed(s, c) /\ s.set = c.set
           /\ s.plain = c.plain /\ s.own = c.own /\ s.by = s.version
           /\ Checked(s) /\ s.option # None
<1> DEFINE option == IF c.option \in S!Offered(c) THEN c.option ELSE S!Default(c)
           device == IF c.device \in S!Offered(c) THEN c.device ELSE S!Unset
<1>1. /\ option \in Options(c.version) /\ device \in Options(c.version) \cup {S!Unset}
      /\ option \in Words /\ device \in Words /\ option # None
  BY OptionsAre DEF CfgRec
<1>2. s = [c EXCEPT !.option = option, !.device = device, !.by = c.version]
  BY DEF S!Registered
<1>3. c.version \in S!Version \cup {None}
  BY DEF CfgRec
<1> HIDE DEF option, device
<1> DEFINE t == [c EXCEPT !.option = option, !.device = device]
<1>4. t \in CfgRec
  BY <1>1 DEF CfgRec
<1>5. s = [t EXCEPT !.by = c.version]
  BY <1>2 DEF CfgRec
<1> HIDE DEF t
<1>6. s \in CfgRec
  BY <1>3, <1>4, <1>5 DEF CfgRec
<1>7. s.option = option /\ s.device = device /\ s.by = c.version
  BY <1>2 DEF CfgRec
<1>8. /\ Named(s, c) /\ Told(s, c) /\ Plugged(s, c) /\ Filed(s, c) /\ s.set = c.set
      /\ s.plain = c.plain /\ s.own = c.own
  BY <1>2 DEF CfgRec, Named, Told, Plugged, Filed
<1> QED
  BY <1>1, <1>6, <1>7, <1>8 DEF Checked, Named

LEMMA UnloadedIs ==
    ASSUME NEW c \in CfgRec, NEW s, s = S!Unloaded(c)
    PROVE  /\ s \in CfgRec /\ Kept(s, c) /\ s.version = c.version /\ s.set = c.set
           /\ s.game = None /\ s.step = "ui" /\ s.port = S!Unset
           /\ \A p \in S!Rom \cup {None} : s.file[p] = IF p = S!EmptyRom THEN None ELSE c.file[p]
<1> DEFINE file == [p \in S!Rom \cup {None} |-> IF p = S!EmptyRom THEN None ELSE c.file[p]]
<1>1. file \in [S!Rom \cup {None} -> Files \cup {None}] /\ DOMAIN c.file = S!Rom \cup {None}
  BY DEF CfgRec
<1>2. s = [c EXCEPT !.game = None, !.step = "ui", !.used = None, !.keys = 0, !.port = S!Unset,
                    !.behind = {}, !.file = file]
  BY <1>1 DEF S!Unloaded, CfgRec
<1>3. None \in Words /\ S!Unset \in Words
  BY DEF Words
<1> HIDE DEF file
<1> DEFINE t == [c EXCEPT !.game = None, !.step = "ui"]
           u == [t EXCEPT !.used = None, !.keys = 0]
           v == [u EXCEPT !.port = S!Unset, !.behind = {}]
<1>4. t \in CfgRec
  BY DEF CfgRec
<1>5. s = [v EXCEPT !.file = file]
  BY <1>2 DEF CfgRec
<1> HIDE DEF t
<1>6. u \in CfgRec
  BY <1>3, <1>4 DEF CfgRec
<1> HIDE DEF u
<1>7. v \in CfgRec
  BY <1>3, <1>6 DEF CfgRec
<1> HIDE DEF v
<1>8. s \in CfgRec
  BY <1>1, <1>5, <1>7 DEF CfgRec
<1>9. /\ Kept(s, c) /\ s.version = c.version /\ s.set = c.set
      /\ s.game = None /\ s.step = "ui" /\ s.port = S!Unset /\ s.file = file
  BY <1>2 DEF CfgRec, Kept
<1> QED
  BY <1>8, <1>9 DEF file

\* What the files hold, as far as a start relies on it.
Held(c) ==
    /\ \A p \in S!Rom \cup {None} : S!Whole(c.file[p]) => Checked(c.file[p])
    /\ \A p \in S!Rom : S!Whole(c.file[p]) => c.file[p].option # None
    /\ \A g \in Tuned : c.set[g] # None /\ c.file[g] # None =>
          S!Whole(c.file[g]) /\ c.file[g].plain = c.set[g]

LEMMA BootsIs ==
    ASSUME NEW c \in CfgRec, Held(c), NEW s \in S!Boots(c)
    PROVE  CfgOk(s)
<1> DEFINE u == S!Unloaded(c)
           set == [g \in S!Rom |-> IF c.file[g] = None THEN None ELSE u.set[g]]
           fresh == [u EXCEPT !.plain = 0, !.option = None, !.device = S!Unset, !.own = FALSE, !.by = None,
                        !.inited = TRUE, !.flag = FALSE, !.path = None, !.then = "ui", !.set = set]
           cold == { [fresh EXCEPT !.file[None] = f] : f \in {S!Content(fresh), None, S!Cut(fresh)} }
<1>1. /\ u \in CfgRec /\ u.version = c.version /\ u.game = None /\ u.step = "ui" /\ u.port = S!Unset
      /\ u.set = c.set
      /\ \A p \in S!Rom \cup {None} : u.file[p] = IF p = S!EmptyRom THEN None ELSE c.file[p]
  BY UnloadedIs
<1>2. PICK read \in S!Loads(fresh, None) \cup cold : s = S!Registered(read)
  BY <1>1, Zenon DEF S!Boots
<1>3. /\ set \in [S!Rom -> Value \cup {0, None}]
      /\ \A g \in S!Rom : set[g] = IF c.file[g] = None THEN None ELSE c.set[g]
  BY <1>1 DEF CfgRec
<1>4. /\ fresh \in CfgRec
      /\ fresh.version = c.version /\ fresh.game = None /\ fresh.step = "ui" /\ fresh.port = S!Unset
      /\ fresh.set = set /\ fresh.file = u.file /\ fresh.by = None
  <2> HIDE DEF u, set
  <2> DEFINE q == [u EXCEPT !.plain = 0]
             t == [q EXCEPT !.option = None]
             v == [t EXCEPT !.device = S!Unset]
             w == [v EXCEPT !.own = FALSE, !.by = None]
             r == [w EXCEPT !.inited = TRUE]
             z == [r EXCEPT !.flag = FALSE]
             x == [z EXCEPT !.path = None]
             y == [x EXCEPT !.then = "ui"]
  <2>1. None \in Words /\ S!Unset \in Words
    BY DEF Words
  <2>3. fresh = [y EXCEPT !.set = set]
    OBVIOUS
  <2>10. q \in CfgRec
    BY ONLY <1>1 DEF CfgRec
  <2> HIDE DEF q
  <2>9. t \in CfgRec
    BY ONLY <2>1, <2>10, ZenonT(20) DEF CfgRec
  <2> HIDE DEF t
  <2>2. v \in CfgRec
    BY ONLY <2>1, <2>9, ZenonT(20) DEF CfgRec
  <2> HIDE DEF v, fresh
  <2>4. w \in CfgRec
    BY ONLY <2>2, ZenonT(20) DEF CfgRec
  <2> HIDE DEF w
  <2>11. r \in CfgRec
    BY ONLY <2>4, ZenonT(20) DEF CfgRec
  <2> HIDE DEF r
  <2>12. z \in CfgRec
    BY ONLY <2>11, ZenonT(20) DEF CfgRec
  <2> HIDE DEF z
  <2>5. x \in CfgRec
    BY ONLY <2>12, ZenonT(20) DEF CfgRec
  <2> HIDE DEF x
  <2>8. y \in CfgRec
    BY ONLY <2>5, ZenonT(20) DEF CfgRec
  <2> HIDE DEF y
  <2>6. fresh \in CfgRec
    BY ONLY <1>3, <2>3, <2>8, ZenonT(20) DEF CfgRec
  <2>7. /\ fresh.version = c.version /\ fresh.game = None /\ fresh.step = "ui" /\ fresh.port = S!Unset
        /\ fresh.set = set /\ fresh.file = u.file /\ fresh.by = None
    BY <1>1 DEF fresh, CfgRec
  <2> QED
    BY <2>6, <2>7
<1> HIDE DEF u, fresh
<1> DEFINE Fresh(r) == /\ r \in CfgRec /\ r.version = c.version /\ r.game = None /\ r.step = "ui"
                       /\ r.port = S!Unset /\ r.set = set
                       /\ \A p \in S!Rom : r.file[p] = IF p = S!EmptyRom THEN None ELSE c.file[p]
                       /\ S!Whole(r.file[None]) => Checked(r.file[None])
<1>5. Fresh(read)
  <2>1. CASE read \in S!Loads(fresh, None)
    <3>1. /\ read \in CfgRec /\ Named(read, fresh) /\ Plugged(read, fresh) /\ Filed(read, fresh)
          /\ read.set = fresh.set
      BY <1>4, <2>1, LoadsIs
    <3>2. None # S!EmptyRom
      BY CfgAssumption DEF S!Rom
    <3> QED
      BY <1>1, <1>4, <3>1, <3>2 DEF Named, Plugged, Filed, Held
  <2>2. ASSUME NEW f \in {S!Content(fresh), None, S!Cut(fresh)}, read = [fresh EXCEPT !.file[None] = f]
        PROVE  Fresh(read)
    <3>1. f \in Files \cup {None} /\ (S!Whole(f) => f = S!Content(fresh) /\ Checked(f))
      BY <1>4, ContentIs, CutIs DEF Kept, Checked, S!Whole
    <3>2. read = Put(fresh, None, f)
      BY <2>2 DEF Put
    <3>3. /\ read \in CfgRec /\ Named(read, fresh) /\ Plugged(read, fresh) /\ read.step = fresh.step
          /\ read.set = fresh.set /\ read.file[None] = f
          /\ \A q \in S!Rom \cup {None} : q # None => read.file[q] = fresh.file[q]
      BY <1>4, <3>1, <3>2, FileIs
    <3>4. None \notin S!Rom
      BY CfgAssumption
    <3> QED
      BY <1>1, <1>4, <3>1, <3>3, <3>4 DEF Named, Plugged
  <2> HIDE DEF Fresh
  <2> QED
    BY <1>2, <2>1, <2>2, Zenon
<1>6. /\ s \in CfgRec /\ Named(s, read) /\ Plugged(s, read) /\ Filed(s, read) /\ s.set = set
      /\ Checked(s) /\ s.option # None
  BY <1>2, <1>5, RegisteredIs
<1>7. \A p \in S!Rom : s.file[p] # None => s.file[p] = c.file[p] /\ p # S!EmptyRom
  BY <1>5, <1>6 DEF Filed
<1>8. Offered(s)
  BY <1>5, <1>6, <1>7 DEF Offered, Held, Named, Plugged, Filed, S!Whole
<1>9. Paths(s) /\ s.step = "ui" /\ s.game = None
  BY <1>5, <1>6 DEF Paths, Phase, Named, Filed
<1>10. LastSet(s)
  <2>1. None \notin Tuned /\ \A g \in Tuned : g \in S!Rom /\ g # S!EmptyRom
    BY CfgAssumption DEF S!Rom
  <2>2. \A g \in Tuned : s.set[g] # None => c.file[g] # None /\ s.set[g] = c.set[g] /\ s.file[g] = c.file[g]
    BY <1>3, <1>5, <1>6, <2>1 DEF Filed
  <2> QED
    BY <1>9, <2>1, <2>2 DEF LastSet, Held
<1>11. InUse(s)
  BY <1>6, <1>7, <1>9 DEF InUse, Held, S!Whole
<1> QED
  BY <1>6, <1>8, <1>9, <1>10, <1>11 DEF CfgOk

\* What holds in a state is what a start relies on.
LEMMA HeldIs ==
    ASSUME NEW c, CfgOk(c)
    PROVE  Held(c)
BY DEF CfgOk, Held, Offered, InUse, LastSet, Paths, S!Rom

\* What is changed is saved where it belongs.
LEMMA Changed ==
    ASSUME NEW b, CfgOk(b), b.step \in {"ui", "start"}, NEW c \in CfgRec,
           NEW then \in {"ui", "start", "kept"},
           c.game = b.game, c.version = b.version, c.file = b.file, c.own = b.own,
           \A g \in Tuned : c.set[g] = b.set[g] \/ (c.own /\ c.game = g),
           c.game \in Tuned /\ c.own /\ c.set[c.game] # None => c.plain = c.set[c.game],
           Checked(c), c.port \in Options(c.version) \cup {S!Unset}, c.option # None,
           then # "ui" => c.game # None, then = "kept" => c.own,
           c.game # None => Uses(c, c) /\ (then # "start" => Plugs(c, c))
    PROVE  CfgOk(S!Saving(c, S!PathToSave(c), then))
<1> DEFINE p == S!PathToSave(c)
           s == S!Saving(c, p, then)
<1>1. p \in S!Rom \cup {None} /\ p = IF c.own THEN c.game ELSE None
  BY DEF S!PathToSave, CfgRec
<1> HIDE DEF p
<1>2. /\ s \in CfgRec /\ Kept(s, c) /\ Named(s, c) /\ Told(s, c) /\ Plugged(s, c) /\ s.set = c.set
      /\ s.step = "save" /\ s.then = then /\ s.path = p
      /\ s.file = [c.file EXCEPT ![p] = None]
  <2>1. then \in {"ui", "start", "kept", "load"} /\ c \in CfgRec /\ p \in S!Rom \cup {None}
    BY <1>1
  <2> QED
    BY ONLY <2>1, SavingIs
<1> HIDE DEF s
<1>3. /\ s.file[p] = None
      /\ \A q \in S!Rom \cup {None} : q # p => s.file[q] = b.file[q]
  BY <1>1, <1>2 DEF CfgRec
<1>4. \A q \in S!Rom \cup {None} : S!Whole(s.file[q]) => s.file[q] = b.file[q]
  BY <1>3 DEF S!Whole
<1>5. Offered(s)
  BY <1>2, <1>4 DEF Offered, CfgOk, Checked, Kept, Named, Plugged
<1>6. Paths(s)
  BY <1>1, <1>2, <1>3 DEF Paths, Phase, Kept, Named
<1>7. LastSet(s)
  <2>1. ASSUME NEW g \in Tuned, s.set[g] # None
        PROVE  (s.step = "save" /\ s.path = g) \/ (S!Whole(s.file[g]) /\ s.file[g].plain = s.set[g])
    <3>1. CASE p = g
      BY <1>2, <3>1
    <3>2. CASE p # g
      <4>1. g \in S!Rom /\ g # None
        BY CfgAssumption DEF S!Rom
      <4>2. c.set[g] = b.set[g] /\ s.file[g] = b.file[g] /\ s.set[g] = b.set[g]
        BY <1>1, <1>2, <1>3, <3>2, <4>1
      <4> QED
        BY <2>1, <4>2 DEF CfgOk, LastSet
    <3> QED
      BY <3>1, <3>2
  <2> QED
    BY <1>2, <2>1 DEF LastSet, Kept, Named
<1>8. InUse(s)
  <2>1. Uses(c, c) <=> Uses(s, s)
    BY <1>2 DEF Uses, Kept, Told, Plugged
  <2>2. Plugs(c, c) <=> Plugs(s, s)
    BY <1>2 DEF Plugs, Kept, Named, Plugged
  <2> QED
    BY <1>2, <1>4, <2>1, <2>2 DEF InUse, CfgOk, Phase, Kept, Named
<1> QED
  BY <1>2, <1>5, <1>6, <1>7, <1>8 DEF CfgOk, s, p

\* A file that is read, or not, leaves what the invariant asks for.
LEMMA LoadIs ==
    ASSUME NEW c \in CfgRec, NEW p \in S!Rom \cup {None}, NEW s \in S!Load(c, p), c.option # None,
           Checked(c), S!Whole(c.file[p]) => Checked(c.file[p])
    PROVE  /\ s \in CfgRec /\ Named(s, c) /\ Told(s, c) /\ Plugged(s, c) /\ Filed(s, c)
           /\ Checked(s) /\ s.option # None
           /\ \A g \in S!Rom : s.set[g] \in {c.set[g], None}
           /\ p = None => \A g \in S!Rom : s.set[g] = c.set[g]
           /\ p # None => s.set[p] = None \/ ~S!Whole(c.file[p]) \/ s.plain = c.file[p].plain
           /\ s.own = c.own \/ (c.file[p] # None /\ s.own \in {c.file[p].own, FALSE})
<1>1. CASE s \in S!Loads(c, p)
  <2>1. /\ s \in CfgRec /\ Named(s, c) /\ Told(s, c) /\ Plugged(s, c) /\ Filed(s, c) /\ s.set = c.set
        /\ c.file[p] # None
        /\ S!Whole(c.file[p]) =>
              /\ s.plain = c.file[p].plain /\ s.device = c.file[p].device /\ s.own = c.file[p].own
              /\ s.by = c.file[p].by
              /\ s.option = IF c.file[p].option = None THEN c.option ELSE c.file[p].option
        /\ ~S!Whole(c.file[p]) =>
              s.by = None /\ s.own \in {c.file[p].own, FALSE} /\ (c.option # None => s.option # None)
    BY <1>1, LoadsIs
  <2>2. Checked(s)
    <3>1. CASE S!Whole(c.file[p])
      <4>1. c.file[p].by # None => c.file[p].option # None
        <5>1. c.file[p].by # None => c.file[p].by \in S!Version
          BY <2>1, <3>1 DEF CfgRec
        <5>2. \A v \in S!Version : None \notin Options(v)
          BY CfgAssumption DEF S!Version, Options, Offers
        <5> QED
          BY <3>1, <5>1, <5>2 DEF Checked
      <4> QED
        BY <2>1, <3>1, <4>1 DEF Checked
    <3>2. CASE ~S!Whole(c.file[p])
      BY <2>1, <3>2 DEF Checked
    <3> QED
      BY <3>1, <3>2
  <2>3. s.option # None
    BY <2>1
  <2> QED
    BY <2>1, <2>2, <2>3
<1>2. CASE s = S!Lost(c, p)
  <2>1. /\ s \in CfgRec /\ Kept(s, c) /\ Named(s, c) /\ Told(s, c) /\ Plugged(s, c) /\ Filed(s, c)
        /\ \A g \in S!Rom : s.set[g] = IF g = p THEN None ELSE c.set[g]
    BY <1>2, LostIs
  <2> QED
    BY <2>1, CfgAssumption DEF Kept, Checked
<1> QED
  BY <1>1, <1>2 DEF S!Load

\* Nothing is loaded, or no longer.
LEMMA AtRest ==
    ASSUME NEW b, CfgOk(b), b.step # "save", NEW s \in CfgRec, Checked(s), s.option # None,
           s.version = b.version, s.port = S!Unset, s.set = b.set, s.game = None, s.step = "ui",
           \A p \in S!Rom \cup {None} : s.file[p] = IF p = S!EmptyRom THEN None ELSE b.file[p]
    PROVE  CfgOk(s)
<1>1. \A p \in S!Rom \cup {None} : S!Whole(s.file[p]) => s.file[p] = b.file[p]
  BY DEF S!Whole
<1>2. Offered(s) /\ Paths(s) /\ InUse(s)
  BY <1>1 DEF CfgOk, Offered, Paths, Phase, InUse
<1>3. \A g \in Tuned : g \in S!Rom /\ s.file[g] = b.file[g] /\ g # None
  BY CfgAssumption DEF S!Rom
<1>4. LastSet(s)
  BY <1>3 DEF CfgOk, LastSet
<1> QED
  BY <1>2, <1>4 DEF CfgOk

LEMMA SaveWritesKeeps == ASSUME CfgInv, S!SaveWrites PROVE CfgInv'
<1> DEFINE p == state.path
<1>1. PICK c \in S!Written(state, p) : state' = [c EXCEPT !.step = state.then, !.path = None, !.then = "ui"]
  BY DEF S!SaveWrites
<1>2. /\ CfgOk(state) /\ state \in CfgRec /\ state.step = "save" /\ p \in S!Rom \cup {None}
      /\ state.then \in {"ui", "start", "kept", "load"}
  BY DEF CfgInv, CfgOk, CfgRec, S!SaveWrites
<1>3. /\ c \in CfgRec /\ Kept(c, state) /\ Named(c, state) /\ Told(c, state) /\ Plugged(c, state)
      /\ \A q \in S!Rom \cup {None} : q # p => c.file[q] = state.file[q]
      /\ \A g \in S!Rom : g # p => c.set[g] = state.set[g]
      /\ \/ c.file[p] = S!Content(state) /\ c.set = state.set
         \/ c.file[p] = None /\ (p # None => c.set[p] = None)
         \/ c.file[p] = S!Cut(state) /\ (p # None => c.set[p] = None)
  BY <1>2, WrittenIs
<1> DEFINE s == state'
<1>4. s \in CfgRec
  <2> DEFINE t == [c EXCEPT !.step = state.then]
             u == [t EXCEPT !.path = None]
  <2>1. s = [u EXCEPT !.then = "ui"]
    BY <1>1
  <2>2. t \in CfgRec
    BY <1>2, <1>3 DEF CfgRec
  <2> HIDE DEF t
  <2>3. u \in CfgRec
    BY <2>2 DEF CfgRec
  <2> HIDE DEF u
  <2> QED
    BY <2>1, <2>3 DEF CfgRec
<1>5. /\ Kept(s, state) /\ Named(s, state) /\ Told(s, state) /\ Plugged(s, state)
      /\ s.step = state.then /\ s.file = c.file /\ s.set = c.set
  BY <1>1, <1>2, <1>3 DEF CfgRec, Kept, Named, Told, Plugged
<1> HIDE DEF p
<1>6. /\ S!Whole(S!Content(state)) /\ Kept(S!Content(state), state)
      /\ ~S!Whole(S!Cut(state)) /\ S!Cut(state).own = state.own
  BY <1>2, ContentIs, CutIs
<1>7. \A q \in S!Rom \cup {None} : S!Whole(s.file[q]) =>
         \/ s.file[q] = state.file[q]
         \/ q = p /\ s.file[q] = S!Content(state)
  BY <1>3, <1>5, <1>6 DEF S!Whole
<1>8. /\ p # None => state.own /\ p = state.game /\ state.then # "load"
      /\ state.then = "kept" => p # None
      /\ state.then \in {"start", "kept"} => state.game # None
      /\ Phase(state) = state.then /\ Phase(s) = state.then
  BY <1>2, <1>5 DEF CfgOk, Paths, Phase, p
<1>9. Offered(s)
  BY <1>2, <1>5, <1>6, <1>7 DEF CfgOk, Offered, Checked, Kept, Named, Plugged
<1>10. Paths(s)
  <2>1. s.step = "load" /\ s.file[None] # None => s.file[None].own = s.own
    BY <1>3, <1>5, <1>6, <1>8 DEF Kept
  <2> QED
    BY <1>2, <1>5, <1>8, <2>1 DEF Paths, Named
<1>11. LastSet(s)
  <2>1. ASSUME NEW g \in Tuned, s.set[g] # None
        PROVE  S!Whole(s.file[g]) /\ s.file[g].plain = s.set[g]
    <3>1. g \in S!Rom /\ g # None
      BY CfgAssumption DEF S!Rom
    <3>2. CASE g = p
      BY <1>2, <1>3, <1>5, <1>6, <1>8, <2>1, <3>1, <3>2 DEF CfgOk, LastSet, Kept
    <3>3. CASE g # p
      BY <1>2, <1>3, <1>5, <2>1, <3>1, <3>3 DEF CfgOk, LastSet, p
    <3> QED
      BY <3>2, <3>3
  <2>2. \A g \in Tuned : s.set[g] # None => s.set[g] = state.set[g]
    BY <1>3, <1>5, CfgAssumption DEF S!Rom
  <2> QED
    BY <1>2, <1>5, <1>8, <2>1, <2>2 DEF CfgOk, LastSet, Kept, Named
<1>12. InUse(s)
  <2>1. s.option # None /\ \A q \in S!Rom : S!Whole(s.file[q]) => s.file[q].option # None
    BY <1>2, <1>5, <1>6, <1>7 DEF CfgOk, InUse, Kept
  <2>2. \A f : (Uses(s, f) <=> Uses(state, f)) /\ (Plugs(s, f) <=> Plugs(state, f))
    BY <1>5 DEF Uses, Plugs, Named, Told, Plugged
  <2>3. Uses(state, s) <=> Uses(state, state)
    BY <1>5 DEF Uses, Kept
  <2>4. Plugs(state, s) <=> Plugs(state, state)
    BY <1>5 DEF Plugs, Kept
  <2>5. ASSUME s.game # None, s.step = "kept" \/ Phase(s) = "load", S!Whole(s.file[s.game])
        PROVE  Uses(s, s.file[s.game]) /\ Plugs(s, s.file[s.game])
    <3>1. s.game = state.game /\ state.game \in S!Rom
      BY <1>2, <1>5, <2>5 DEF Named, CfgRec
    <3>2. CASE state.then = "kept"
      <4>1. s.file[state.game] = S!Content(state)
        <5>1. p = state.game /\ S!Whole(c.file[p])
          BY <1>5, <1>8, <2>5, <3>1, <3>2
        <5> QED
          BY <1>3, <1>5, <1>6, <5>1 DEF S!Whole
      <4>2. Uses(state, state) /\ Plugs(state, state)
        BY <1>2, <1>8, <2>5, <3>1, <3>2 DEF CfgOk, InUse
      <4>3. Uses(state, S!Content(state)) /\ Plugs(state, S!Content(state))
        BY <1>6, <4>2 DEF Uses, Plugs, Kept
      <4> QED
        BY <2>2, <3>1, <4>1, <4>3
    <3>3. CASE state.then = "load"
      <4>1. s.file[state.game] = state.file[state.game]
        BY <1>3, <1>5, <1>8, <2>5, <3>1, <3>3
      <4> QED
        BY <1>2, <1>8, <2>2, <2>5, <3>1, <3>3, <4>1 DEF CfgOk, InUse
    <3> QED
      BY <1>5, <1>8, <2>5, <3>2, <3>3
  <2> QED
    BY <1>2, <1>5, <1>8, <2>1, <2>2, <2>3, <2>4, <2>5 DEF CfgOk, InUse, Named
<1> QED
  BY <1>4, <1>9, <1>10, <1>11, <1>12 DEF CfgInv, CfgOk

\* A game starts, or does not.
LEMMA LoadRomKeeps == ASSUME CfgInv, NEW g \in S!Rom, S!LoadRom(g) PROVE CfgInv'
<1> DEFINE inited == IF state.inited THEN state ELSE [S!Registered(state) EXCEPT !.inited = TRUE]
           flag == IF g = S!EmptyRom THEN inited.flag ELSE FALSE
           named == [inited EXCEPT !.game = g, !.flag = flag]
           reads == IF named.own /\ g # S!EmptyRom THEN S!Load(named, S!PathToLoad(named)) ELSE {named}
<1>1. CfgOk(state) /\ state \in CfgRec /\ state.step = "ui" /\ g # None
  BY CfgAssumption DEF CfgInv, CfgOk, S!LoadRom, S!Menu
<1>2. /\ inited \in CfgRec /\ Checked(inited) /\ inited.option # None /\ inited.set = state.set
      /\ Named(inited, state) /\ Plugged(inited, state) /\ Filed(inited, state)
  <2>1. CASE state.inited
    BY <1>1, <2>1 DEF CfgOk, Offered, InUse, Named, Plugged, Filed
  <2>2. CASE ~state.inited
    <3> DEFINE r == S!Registered(state)
    <3>1. /\ r \in CfgRec /\ Named(r, state) /\ Plugged(r, state) /\ Filed(r, state) /\ r.set = state.set
          /\ Checked(r) /\ r.option # None
      BY <1>1, RegisteredIs
    <3>2. inited = [r EXCEPT !.inited = TRUE]
      BY <2>2
    <3> HIDE DEF r, inited
    <3>3. inited \in CfgRec
      BY ONLY <3>1, <3>2 DEF CfgRec
    <3>4. /\ Kept(inited, r) /\ Named(inited, r) /\ Plugged(inited, r) /\ Filed(inited, r)
          /\ inited.set = r.set
      BY <3>1, <3>2 DEF CfgRec, Kept, Named, Plugged, Filed
    <3> QED
      BY <3>1, <3>3, <3>4 DEF Checked, Kept, Named, Plugged, Filed
  <2> QED
    BY <2>1, <2>2
<1>3. \/ state' \in {S!Unloaded(state), S!Unloaded(named)}
      \/ \E read \in reads : state' = [read EXCEPT !.step = "start", !.used = read.option, !.behind = {}]
  BY DEF S!LoadRom
<1> HIDE DEF inited
<1>4. /\ named \in CfgRec /\ Checked(named) /\ named.option # None /\ named.set = state.set
      /\ named.game = g /\ named.version = state.version /\ named.port = state.port
      /\ Filed(named, state)
  <2>1. flag \in BOOLEAN
    BY <1>2 DEF CfgRec
  <2> HIDE DEF flag
  <2>2. named \in CfgRec
    BY ONLY g \in S!Rom, <1>2, <2>1 DEF CfgRec
  <2>3. /\ Kept(named, inited) /\ named.set = inited.set
        /\ named.game = g /\ named.version = inited.version /\ named.port = inited.port
        /\ Filed(named, inited)
    BY <1>2 DEF CfgRec, Kept, Filed
  <2> QED
    BY <1>2, <2>2, <2>3 DEF Checked, Kept, Named, Plugged, Filed
<1> HIDE DEF named
<1>5. ASSUME NEW c \in {state, named}, state' = S!Unloaded(c)
      PROVE  CfgInv'
  <2>1. /\ c \in CfgRec /\ Checked(c) /\ c.option # None /\ c.version = state.version
        /\ c.set = state.set /\ c.file = state.file
    BY <1>1, <1>4 DEF CfgOk, Offered, InUse, Filed
  <2>2. /\ state' \in CfgRec /\ Kept(state', c) /\ state'.version = c.version /\ state'.set = c.set
        /\ state'.game = None /\ state'.step = "ui" /\ state'.port = S!Unset
        /\ \A p \in S!Rom \cup {None} : state'.file[p] = IF p = S!EmptyRom THEN None ELSE c.file[p]
    BY <1>5, <2>1, UnloadedIs
  <2>3. Checked(state') /\ state'.option # None
    BY <2>1, <2>2 DEF Checked, Kept
  <2>4. state.step # "save"
    BY <1>1
  <2> QED
    BY <1>1, <2>1, <2>2, <2>3, <2>4, AtRest DEF CfgInv
<1>6. ASSUME NEW read \in reads, state' = [read EXCEPT !.step = "start", !.used = read.option, !.behind = {}]
      PROVE  CfgInv'
  <2> DEFINE p == S!PathToLoad(named)
             s == state'
  <2>1. /\ p \in S!Rom \cup {None}
        /\ p = IF named.own /\ state.file[g] # None THEN g ELSE None
    BY <1>4 DEF S!PathToLoad, Filed
  <2> HIDE DEF p
  <2>2. S!Whole(named.file[p]) => Checked(named.file[p])
    BY <1>1, <1>4, <2>1 DEF CfgOk, Offered, Filed
  <2>3. /\ read \in CfgRec /\ Named(read, named) /\ Plugged(read, named) /\ Filed(read, named)
        /\ Checked(read) /\ read.option # None
        /\ \A h \in S!Rom : read.set[h] \in {state.set[h], None}
        /\ g # S!EmptyRom /\ read.own =>
              /\ named.own
              /\ p # None => \/ read.set[p] = None \/ ~S!Whole(state.file[p])
                            \/ read.plain = state.file[p].plain
    <3>1. CASE named.own /\ g # S!EmptyRom
      <4>1. read \in S!Load(named, p)
        BY <3>1 DEF p
      <4>2. /\ read \in CfgRec /\ Named(read, named) /\ Plugged(read, named) /\ Filed(read, named)
            /\ Checked(read) /\ read.option # None
            /\ \A h \in S!Rom : read.set[h] \in {named.set[h], None}
            /\ p # None => \/ read.set[p] = None \/ ~S!Whole(named.file[p])
                          \/ read.plain = named.file[p].plain
        <5>1. /\ named \in CfgRec /\ p \in S!Rom \cup {None} /\ named.option # None /\ Checked(named)
              /\ S!Whole(named.file[p]) => Checked(named.file[p])
          BY <1>4, <2>1, <2>2
        <5> HIDE DEF reads
        <5> QED
          BY ONLY <4>1, <5>1, LoadIs
      <4> QED
        BY <1>4, <3>1, <4>2 DEF Filed
    <3>2. CASE ~(named.own /\ g # S!EmptyRom)
      BY <1>4, <3>2 DEF Named, Plugged, Filed
    <3> QED
      BY <3>1, <3>2
  <2> HIDE DEF reads
  <2>4. s \in CfgRec
    <3> DEFINE t == [read EXCEPT !.step = "start", !.used = read.option]
    <3>1. s = [t EXCEPT !.behind = {}]
      BY <1>6
    <3>2. t \in CfgRec
      BY ONLY <2>3 DEF CfgRec
    <3> HIDE DEF t
    <3> QED
      BY <3>1, <3>2 DEF CfgRec
  <2>5. /\ Kept(s, read) /\ Named(s, read) /\ s.port = read.port /\ s.file = read.file /\ s.set = read.set
        /\ s.step = "start" /\ s.used = s.option
    BY <1>6, <2>3 DEF CfgRec, Kept, Named
  <2>6. /\ s.file = state.file /\ s.game = g /\ s.version = state.version /\ s.port = state.port
        /\ Checked(s) /\ s.option # None
    BY <1>4, <2>3, <2>5 DEF Kept, Named, Plugged, Filed, Checked
  <2>7. Offered(s) /\ Paths(s)
    BY <1>1, <2>5, <2>6 DEF CfgOk, Offered, Paths, Phase
  <2>8. LastSet(s)
    <3>1. \A h \in Tuned : h \in S!Rom /\ h # S!EmptyRom /\ h # None
      BY CfgAssumption DEF S!Rom
    <3>2. ASSUME NEW h \in Tuned, s.set[h] # None
          PROVE  S!Whole(s.file[h]) /\ s.file[h].plain = s.set[h] /\ state.file[h] # None /\ s.set[h] = state.set[h]
      <4>1. s.set[h] = state.set[h] /\ s.file[h] = state.file[h]
        BY <2>3, <2>5, <2>6, <3>1, <3>2
      <4> QED
        BY <1>1, <3>2, <4>1 DEF CfgOk, LastSet, S!Whole
    <3>3. ASSUME g \in Tuned, s.own, s.set[g] # None
          PROVE  s.plain = s.set[g]
      <4>1. g # S!EmptyRom /\ read.own /\ named.own
        BY <2>3, <2>5, <3>1, <3>3 DEF Kept
      <4>2. p = g /\ g # None
        BY <2>1, <3>1, <3>2, <3>3, <4>1
      <4> QED
        BY <2>3, <2>5, <2>6, <3>2, <3>3, <4>1, <4>2 DEF Kept
    <3> QED
      BY <2>6, <3>2, <3>3 DEF LastSet
  <2>9. InUse(s)
    BY <1>1, <2>5, <2>6 DEF CfgOk, InUse, Phase, Uses
  <2> QED
    BY <2>4, <2>7, <2>8, <2>9 DEF CfgInv, CfgOk
<1> QED
  BY <1>3, <1>5, <1>6

\* What is kept of a game's start, and its own settings once more.
LEMMA KeepCoreKeeps == ASSUME CfgInv, S!KeepCore PROVE CfgInv'
<1>1. /\ CfgOk(state) /\ state \in CfgRec /\ state.step = "kept" /\ None \notin S!Rom /\ state.option # None
      /\ Checked(state) /\ (S!Whole(state.file[None]) => Checked(state.file[None]))
  BY CfgAssumption DEF CfgInv, CfgOk, S!KeepCore, InUse, Offered
<1> DEFINE p == None
           then == "load"
<1>2. PICK c \in S!Load(state, p) : state' = S!Saving(c, p, then)
  BY DEF S!KeepCore
<1>0. p \in S!Rom \cup {None} /\ p = None /\ then = "load" /\ then \in {"ui", "start", "kept", "load"}
  OBVIOUS
<1> HIDE DEF p, then
<1>3. /\ c \in CfgRec /\ Named(c, state) /\ Told(c, state) /\ Plugged(c, state) /\ Filed(c, state)
      /\ Checked(c) /\ c.option # None
      /\ \A g \in S!Rom : c.set[g] = state.set[g]
  <2>1. /\ p \in S!Rom \cup {None} /\ state \in CfgRec /\ state.option # None /\ Checked(state)
        /\ S!Whole(state.file[p]) => Checked(state.file[p])
    BY <1>0, <1>1
  <2>2. /\ c \in CfgRec /\ Named(c, state) /\ Told(c, state) /\ Plugged(c, state) /\ Filed(c, state)
        /\ Checked(c) /\ c.option # None
    BY ONLY c \in S!Load(state, p), <2>1, LoadIs
  <2>3. p = None => \A g \in S!Rom : c.set[g] = state.set[g]
    BY ONLY c \in S!Load(state, p), <1>0, <1>1, <2>1, LoadIs
  <2> QED
    BY <1>0, <2>2, <2>3
<1> DEFINE s == state'
<1>4. /\ s \in CfgRec /\ Kept(s, c) /\ Named(s, c) /\ Told(s, c) /\ Plugged(s, c) /\ s.set = c.set
      /\ s.step = "save" /\ s.then = "load" /\ s.path = None
      /\ s.file = [c.file EXCEPT ![None] = None]
  <2>1. /\ s \in CfgRec /\ Kept(s, c) /\ Named(s, c) /\ Told(s, c) /\ Plugged(s, c) /\ s.set = c.set
        /\ s.step = "save" /\ s.then = then /\ s.path = p
        /\ s.file = [c.file EXCEPT ![p] = None]
    BY ONLY <1>0, <1>2, <1>3, SavingIs
  <2> QED
    BY <1>0, <2>1
<1>5. s.file[None] = None /\ \A q \in S!Rom : s.file[q] = state.file[q]
  BY <1>1, <1>3, <1>4 DEF Filed, CfgRec
<1>6. Offered(s)
  BY <1>1, <1>3, <1>4, <1>5 DEF CfgOk, Offered, Checked, Kept, Named, Plugged, S!Whole
<1>7. Paths(s)
  BY <1>4, <1>5 DEF Paths, Phase
<1>8. LastSet(s)
  BY <1>1, <1>3, <1>4, <1>5 DEF CfgOk, LastSet, Phase, S!Rom
<1>9. InUse(s)
  <2>1. s.option # None /\ \A q \in S!Rom : S!Whole(s.file[q]) => s.file[q].option # None
    BY <1>1, <1>3, <1>4, <1>5 DEF CfgOk, InUse, Kept
  <2>2. \A f : (Uses(s, f) <=> Uses(state, f)) /\ (Plugs(s, f) <=> Plugs(state, f))
    BY <1>3, <1>4 DEF Uses, Plugs, Named, Told, Plugged
  <2>3. s.game = state.game /\ (s.game # None => s.game \in S!Rom)
    BY <1>3, <1>4 DEF Named, CfgRec
  <2> QED
    BY <1>1, <1>4, <1>5, <2>1, <2>2, <2>3 DEF CfgOk, InUse, Phase
<1> QED
  BY <1>4, <1>6, <1>7, <1>8, <1>9 DEF CfgInv, CfgOk

LEMMA LoadOwnKeeps == ASSUME CfgInv, S!LoadOwn PROVE CfgInv'
<1> DEFINE path == S!PathToLoad(state)
           same == path = state.game /\ S!Whole(state.file[path])
           s == state'
<1>1. /\ CfgOk(state) /\ state \in CfgRec /\ state.step = "load" /\ None \notin S!Rom /\ state.option # None
      /\ Checked(state) /\ \A q \in S!Rom \cup {None} : S!Whole(state.file[q]) => Checked(state.file[q])
  BY CfgAssumption DEF CfgInv, CfgOk, S!LoadOwn, InUse, Offered
<1>2. /\ path \in S!Rom \cup {None}
      /\ path = IF state.own /\ state.file[state.game] # None THEN state.game ELSE None
  BY <1>1 DEF S!PathToLoad, CfgRec
<1>3. \/ same /\ state' = [S!Taken(state, state.file[path]) EXCEPT !.step = "ui"]
      \/ \E c \in (IF same THEN {S!Lost(state, path)} ELSE S!Load(state, path)) :
            state' = [S!Behind(c, S!Told) EXCEPT !.step = "ui"]
  BY DEF S!LoadOwn
<1> HIDE DEF path
<1>4. ASSUME NEW c \in CfgRec, Named(c, state), Filed(c, state), Checked(c), c.option # None,
             c.port = state.port, state' = [c EXCEPT !.step = "ui"],
             \A g \in S!Rom : c.set[g] \in {state.set[g], None},
             c.game # None => Uses(c, c) /\ Plugs(c, c),
             c.game \in Tuned /\ c.own /\ c.set[c.game] # None => c.plain = c.set[c.game]
      PROVE  CfgInv'
  <2>1. s \in CfgRec
    BY <1>4 DEF CfgRec
  <2>2. /\ Kept(s, c) /\ Named(s, c) /\ Told(s, c) /\ Plugged(s, c)
        /\ s.step = "ui" /\ s.file = c.file /\ s.set = c.set
    BY <1>4 DEF CfgRec, Kept, Named, Told, Plugged
  <2>3. s.file = state.file /\ s.game = state.game /\ s.version = state.version /\ s.port = state.port
    BY <1>4, <2>2 DEF Named, Filed, Plugged
  <2>4. Checked(s) /\ s.option # None
    BY <1>4, <2>2 DEF Checked, Kept
  <2>5. Offered(s) /\ Paths(s)
    BY <1>1, <2>2, <2>3, <2>4 DEF CfgOk, Offered, Paths, Phase
  <2>6. LastSet(s)
    <3>1. \A g \in Tuned : s.set[g] # None => s.set[g] = state.set[g] /\ g # None
      BY <1>4, <2>2, CfgAssumption DEF S!Rom
    <3> QED
      BY <1>1, <1>4, <2>2, <2>3, <3>1 DEF CfgOk, LastSet, Kept, Named
  <2>7. InUse(s)
    <3>1. s.game # None => Uses(s, s) /\ Plugs(s, s)
      BY <1>4, <2>2 DEF Uses, Plugs, Kept, Named, Told, Plugged
    <3> QED
      BY <1>1, <2>2, <2>3, <2>4, <3>1 DEF CfgOk, InUse, Phase
  <2> QED
    BY <2>1, <2>5, <2>6, <2>7 DEF CfgInv, CfgOk
<1>5. CASE same /\ state' = [S!Taken(state, state.file[path]) EXCEPT !.step = "ui"]
  <2> DEFINE f == state.file[path]
             c == S!Taken(state, f)
  <2>1. f \in Files /\ f.whole /\ path = state.game
    BY <1>1, <1>2, <1>5 DEF S!Whole, CfgRec
  <2>2. /\ f.plain \in Value \cup {0} /\ f.option \in Words /\ f.device \in Words /\ f.own \in BOOLEAN
        /\ f.by \in S!Version \cup {None}
    BY <2>1 DEF Files
  <2> HIDE DEF f
  <2>3. /\ c \in CfgRec /\ Named(c, state) /\ Told(c, state) /\ Plugged(c, state) /\ Filed(c, state)
        /\ c.set = state.set
        /\ c.plain = f.plain /\ c.device = f.device /\ c.own = f.own /\ c.by = f.by
        /\ c.option = IF f.option = None THEN state.option ELSE f.option
    BY <1>1, <2>2, TakenIs
  <2>4. state' = [c EXCEPT !.step = "ui"]
    BY <1>5 DEF f
  <2> HIDE DEF c
  <2>5. S!Whole(f) /\ Checked(f)
    BY <1>1, <1>2, <1>5 DEF f
  <2>6. Checked(c) /\ c.option # None
    <3>1. f.by # None => f.option # None
      <4>1. \A v \in S!Version : None \notin Options(v)
        BY CfgAssumption DEF S!Version, Options, Offers
      <4> QED
        BY <2>2, <2>5, <4>1 DEF Checked
    <3> QED
      BY <1>1, <2>3, <2>5, <3>1 DEF Checked
  <2>7. c.game # None => Uses(c, c) /\ Plugs(c, c)
    <3>1. ASSUME state.game # None
          PROVE  f.option # None /\ Uses(state, f) /\ Plugs(state, f)
      <4>1. state.game \in S!Rom /\ f = state.file[state.game]
        BY <1>1, <2>1, <3>1 DEF CfgRec, f
      <4> QED
        BY <1>1, <2>5, <3>1, <4>1 DEF CfgOk, InUse, Phase
    <3> QED
      BY <2>3, <3>1 DEF Uses, Plugs, Named, Told, Plugged
  <2>8. c.game \in Tuned /\ c.own /\ c.set[c.game] # None => c.plain = c.set[c.game]
    BY <1>1, <2>1, <2>3 DEF CfgOk, LastSet, Named, f
  <2>9. c.port = state.port /\ \A g \in S!Rom : c.set[g] \in {state.set[g], None}
    BY <2>3 DEF Plugged
  <2> QED
    BY <1>4, <2>3, <2>4, <2>6, <2>7, <2>8, <2>9
<1>6. ASSUME NEW c \in (IF same THEN {S!Lost(state, path)} ELSE S!Load(state, path)),
             state' = [S!Behind(c, S!Told) EXCEPT !.step = "ui"]
      PROVE  CfgInv'
  <2>1. /\ c \in CfgRec /\ Named(c, state) /\ Plugged(c, state) /\ Filed(c, state)
        /\ Checked(c) /\ c.option # None
        /\ \A g \in S!Rom : c.set[g] \in {state.set[g], None}
        /\ path # None => c.set[path] = None \/ ~S!Whole(state.file[path])
        /\ c.own = state.own \/ (state.file[path] # None /\ c.own \in {state.file[path].own, FALSE})
    <3>1. CASE same
      <4>1. c = S!Lost(state, path)
        BY <1>6, <3>1
      <4>2. /\ c \in CfgRec /\ Kept(c, state) /\ Named(c, state) /\ Plugged(c, state) /\ Filed(c, state)
            /\ \A g \in S!Rom : c.set[g] = IF g = path THEN None ELSE state.set[g]
        <5>1. state \in CfgRec /\ path \in S!Rom \cup {None}
          BY <1>1, <1>2
        <5>2. /\ c \in CfgRec /\ Kept(c, state) /\ Named(c, state)
              /\ Plugged(c, state) /\ Filed(c, state)
          BY ONLY <4>1, <5>1, LostIs
        <5>3. \A g \in S!Rom : c.set[g] = IF g = path THEN None ELSE state.set[g]
          BY ONLY <4>1, <5>1, LostIs
        <5> QED
          BY <5>2, <5>3
      <4> QED
        BY <1>1, <1>2, <4>2 DEF Kept, Checked
    <3>2. CASE ~same
      <4>1. c \in S!Load(state, path)
        BY <1>6, <3>2
      <4>2. /\ c \in CfgRec /\ Named(c, state) /\ Plugged(c, state) /\ Filed(c, state)
            /\ Checked(c) /\ c.option # None
            /\ \A g \in S!Rom : c.set[g] \in {state.set[g], None}
            /\ c.own = state.own \/ (state.file[path] # None /\ c.own \in {state.file[path].own, FALSE})
        <5>1. path \in S!Rom \cup {None} /\ (S!Whole(state.file[path]) => Checked(state.file[path]))
          BY <1>1, <1>2
        <5> QED
          BY ONLY <1>1, <4>1, <5>1, LoadIs
      <4>3. path # None => ~S!Whole(state.file[path])
        BY <1>2, <3>2
      <4> QED
        BY <4>2, <4>3
    <3> QED
      BY <3>1, <3>2
  <2> DEFINE d == S!Behind(c, S!Told)
  <2>2. S!Told \in SUBSET S!Told
    OBVIOUS
  <2>3. /\ d \in CfgRec /\ Kept(d, c) /\ Named(d, c) /\ Filed(d, c) /\ d.set = c.set
        /\ d.port = c.port
        /\ c.game # None => d.behind = c.behind \cup S!Told
    BY <2>1, <2>2, BehindIs
  <2>4. state' = [d EXCEPT !.step = "ui"]
    BY <1>6
  <2> HIDE DEF d
  <2>5. d.game # None => Uses(d, d) /\ Plugs(d, d)
    BY <2>3 DEF Uses, Plugs, Named, S!Told
  <2>6. d.game \in Tuned /\ d.own /\ d.set[d.game] # None => d.plain = d.set[d.game]
    <3> SUFFICES ASSUME d.game \in Tuned, d.own, d.set[d.game] # None
                 PROVE  FALSE
      OBVIOUS
    <3>1. state.game \in Tuned /\ c.own /\ c.set[state.game] # None
      BY <2>1, <2>3 DEF Named, Kept
    <3>2. state.game \in S!Rom /\ state.set[state.game] # None
      BY <2>1, <3>1 DEF S!Rom
    <3>3. S!Whole(state.file[state.game])
      BY <1>1, <3>1, <3>2 DEF CfgOk, LastSet
    <3>4. CASE state.own
      BY <1>1, <1>2, <2>1, <3>1, <3>2, <3>3, <3>4 DEF S!Whole
    <3>5. CASE ~state.own
      <4>1. path = None /\ state.file[None] # None /\ state.file[None].own # state.own
        BY <1>2, <2>1, <3>1, <3>5
      <4> QED
        BY <1>1, <4>1 DEF CfgOk, Paths
    <3> QED
      BY <3>4, <3>5
  <2>7. /\ Named(d, state) /\ Filed(d, state) /\ Checked(d) /\ d.option # None /\ d.port = state.port
        /\ \A g \in S!Rom : d.set[g] \in {state.set[g], None}
    BY <2>1, <2>3 DEF Kept, Named, Plugged, Filed, Checked
  <2> QED
    BY <1>4, <2>3, <2>4, <2>5, <2>6, <2>7
<1> HIDE DEF same
<1> QED
  BY <1>3, <1>5, <1>6

\* What holds between the menu's actions, and while a game starts.
LEMMA MenuIs ==
    ASSUME CfgInv, state.step \in {"ui", "start"}
    PROVE  /\ CfgOk(state) /\ state \in CfgRec /\ Checked(state) /\ state.option # None
           /\ state.port \in Options(state.version) \cup {S!Unset}
           /\ state.game # None => Uses(state, state) /\ (state.step = "ui" => Plugs(state, state))
           /\ state.game \in Tuned /\ state.own /\ state.set[state.game] # None =>
                 state.plain = state.set[state.game]
           /\ state.step = "start" => state.game # None
BY DEF CfgInv, CfgOk, Offered, InUse, LastSet, Paths, Phase

LEMMA SetPlainKeeps == ASSUME CfgInv, S!SetPlain PROVE CfgInv'
<1>1. state.step = "ui"
  BY DEF S!SetPlain, S!Menu
<1>2. /\ CfgOk(state) /\ state \in CfgRec /\ Checked(state) /\ state.option # None
      /\ state.port \in Options(state.version) \cup {S!Unset}
      /\ state.game # None => Uses(state, state)
  BY <1>1, MenuIs
<1>3. PICK v \in Value : state' = S!Save(S!SetupKeys(S!Note([state EXCEPT !.plain = v])))
  BY DEF S!SetPlain
<1> DEFINE r == [state EXCEPT !.plain = v]
           n == S!Note(r)
           c == S!SetupKeys(n)
<1>4. /\ r \in CfgRec /\ Named(r, state) /\ Told(r, state) /\ Plugged(r, state) /\ Filed(r, state)
      /\ r.set = state.set /\ r.option = state.option /\ r.device = state.device /\ r.own = state.own
      /\ r.by = state.by
  BY <1>2 DEF CfgRec, Named, Told, Plugged, Filed
<1>10. state' = S!Saving(c, S!PathToSave(c), "ui")
  BY <1>3 DEF S!Save
<1> HIDE DEF r
<1>5. /\ n \in CfgRec /\ Kept(n, r) /\ Named(n, r) /\ Told(n, r) /\ Plugged(n, r) /\ Filed(n, r)
      /\ \A g \in Tuned : n.set[g] = r.set[g] \/ (n.own /\ n.game = g)
      /\ n.own /\ n.game \in Tuned => n.set[n.game] = n.plain
  BY <1>4, NoteIs
<1> HIDE DEF n
<1>6. /\ c \in CfgRec /\ Kept(c, n) /\ Named(c, n) /\ Told(c, n) /\ Filed(c, n) /\ c.set = n.set
      /\ n.port \in Options(n.version) \cup {S!Unset} => c.port \in Options(n.version) \cup {S!Unset}
      /\ "options" \in c.behind <=> "options" \in n.behind
      /\ n.game # None => Plugs(c, c)
  BY <1>5, SetupKeysIs
<1> HIDE DEF c
<1>7. /\ c.game = state.game /\ c.version = state.version /\ c.file = state.file /\ c.own = state.own
      /\ \A g \in Tuned : c.set[g] = state.set[g] \/ (c.own /\ c.game = g)
      /\ c.game \in Tuned /\ c.own /\ c.set[c.game] # None => c.plain = c.set[c.game]
  BY <1>4, <1>5, <1>6 DEF Kept, Named, Filed
<1>8. Checked(c) /\ c.port \in Options(c.version) \cup {S!Unset} /\ c.option # None
  BY <1>2, <1>4, <1>5, <1>6 DEF Checked, Kept, Named, Plugged
<1>9. c.game # None => Uses(c, c) /\ Plugs(c, c)
  BY <1>2, <1>4, <1>5, <1>6 DEF Uses, Kept, Named, Told, Plugged
<1> QED
  BY <1>1, <1>2, <1>6, <1>7, <1>8, <1>9, <1>10, Changed DEF CfgInv

LEMMA SetOptionKeeps == ASSUME CfgInv, S!SetOption PROVE CfgInv'
<1>1. state.step = "ui"
  BY DEF S!SetOption, S!Menu
<1>2. /\ CfgOk(state) /\ state \in CfgRec /\ Checked(state) /\ state.option # None
      /\ state.port \in Options(state.version) \cup {S!Unset}
      /\ state.game # None => Plugs(state, state)
      /\ state.game \in Tuned /\ state.own /\ state.set[state.game] # None =>
            state.plain = state.set[state.game]
  BY <1>1, MenuIs
<1> DEFINE flag == state.flag \/ state.game # None
<1>3. PICK v \in S!Offered(state) : state' = S!Save(S!Chosen([state EXCEPT !.option = v, !.flag = flag]))
  BY DEF S!SetOption
<1>4. v \in Options(state.version) /\ v \in Words /\ v # None /\ flag \in BOOLEAN
  BY <1>2, OptionsAre DEF CfgRec
<1>5. state.game # None => flag
  OBVIOUS
<1> HIDE DEF flag
<1> DEFINE r == [state EXCEPT !.option = v, !.flag = flag]
           c == S!Chosen(r)
<1>6. /\ r \in CfgRec /\ Named(r, state) /\ Plugged(r, state) /\ Filed(r, state)
      /\ r.set = state.set /\ r.plain = state.plain /\ r.option = v /\ r.device = state.device
      /\ r.own = state.own /\ r.by = state.by /\ r.flag = flag
  BY <1>2, <1>4 DEF CfgRec, Named, Plugged, Filed
<1>10. state' = S!Saving(c, S!PathToSave(c), "ui")
  BY <1>3 DEF S!Save
<1> HIDE DEF r
<1>7. /\ c \in CfgRec /\ Named(c, r) /\ Told(c, r) /\ Plugged(c, r) /\ Filed(c, r) /\ c.set = r.set
      /\ c.plain = r.plain /\ c.option = r.option /\ c.device = r.device /\ c.own = r.own
      /\ c.by = IF r.by = r.version THEN r.by ELSE None
  BY <1>6, ChosenIs
<1> HIDE DEF c
<1>8. /\ c.game = state.game /\ c.version = state.version /\ c.file = state.file /\ c.own = state.own
      /\ c.set = state.set /\ c.plain = state.plain
  BY <1>6, <1>7 DEF Named, Filed
<1>9. Checked(c) /\ c.port \in Options(c.version) \cup {S!Unset} /\ c.option # None
  BY <1>2, <1>4, <1>6, <1>7, <1>8 DEF Checked, Plugged, Named
<1>11. c.game # None => Uses(c, c) /\ Plugs(c, c)
  BY <1>2, <1>5, <1>6, <1>7, <1>8 DEF Uses, Plugs, Told, Plugged
<1> QED
  BY <1>1, <1>2, <1>7, <1>8, <1>9, <1>10, <1>11, Changed DEF CfgInv

LEMMA SetDeviceKeeps == ASSUME CfgInv, S!SetDevice PROVE CfgInv'
<1>1. state.step = "ui"
  BY DEF S!SetDevice, S!Menu
<1>2. /\ CfgOk(state) /\ state \in CfgRec /\ Checked(state) /\ state.option # None
      /\ state.port \in Options(state.version) \cup {S!Unset}
      /\ state.game # None => Uses(state, state)
      /\ state.game \in Tuned /\ state.own /\ state.set[state.game] # None =>
            state.plain = state.set[state.game]
  BY <1>1, MenuIs
<1>3. PICK v \in S!Offered(state) \cup {S!Unset} :
         state' = S!Save(S!SetupKeys(S!Chosen([state EXCEPT !.device = v])))
  BY DEF S!SetDevice
<1>4. v \in Options(state.version) \cup {S!Unset} /\ v \in Words
  BY <1>2, OptionsAre
<1> DEFINE r == [state EXCEPT !.device = v]
           n == S!Chosen(r)
           c == S!SetupKeys(n)
<1>5. /\ r \in CfgRec /\ Named(r, state) /\ Told(r, state) /\ Plugged(r, state) /\ Filed(r, state)
      /\ r.set = state.set /\ r.plain = state.plain /\ r.option = state.option /\ r.device = v
      /\ r.own = state.own /\ r.by = state.by
  BY <1>2, <1>4 DEF CfgRec, Named, Told, Plugged, Filed
<1>10. state' = S!Saving(c, S!PathToSave(c), "ui")
  BY <1>3 DEF S!Save
<1> HIDE DEF r
<1>6. /\ n \in CfgRec /\ Named(n, r) /\ Told(n, r) /\ Plugged(n, r) /\ Filed(n, r) /\ n.set = r.set
      /\ n.plain = r.plain /\ n.option = r.option /\ n.device = r.device /\ n.own = r.own
      /\ n.by = IF r.by = r.version THEN r.by ELSE None
  BY <1>5, ChosenIs
<1> HIDE DEF n
<1>7. /\ c \in CfgRec /\ Kept(c, n) /\ Named(c, n) /\ Told(c, n) /\ Filed(c, n) /\ c.set = n.set
      /\ n.port \in Options(n.version) \cup {S!Unset} => c.port \in Options(n.version) \cup {S!Unset}
      /\ "options" \in c.behind <=> "options" \in n.behind
      /\ n.game # None => Plugs(c, c)
  BY <1>6, SetupKeysIs
<1> HIDE DEF c
<1>8. /\ c.game = state.game /\ c.version = state.version /\ c.file = state.file /\ c.own = state.own
      /\ c.set = state.set /\ c.plain = state.plain
  BY <1>5, <1>6, <1>7 DEF Kept, Named, Filed
<1>9. Checked(c) /\ c.port \in Options(c.version) \cup {S!Unset} /\ c.option # None
  BY <1>2, <1>4, <1>5, <1>6, <1>7, <1>8 DEF Checked, Kept, Named, Plugged
<1>11. c.game # None => Uses(c, c) /\ Plugs(c, c)
  BY <1>2, <1>5, <1>6, <1>7 DEF Uses, Kept, Named, Told, Plugged
<1> QED
  BY <1>1, <1>2, <1>7, <1>8, <1>9, <1>10, <1>11, Changed DEF CfgInv

LEMMA ResetOptionsKeeps == ASSUME CfgInv, S!ResetOptions PROVE CfgInv'
<1>1. state.step = "ui"
  BY DEF S!ResetOptions, S!Menu
<1>2. /\ CfgOk(state) /\ state \in CfgRec /\ Checked(state) /\ state.option # None
      /\ state.port \in Options(state.version) \cup {S!Unset}
      /\ state.game # None => Plugs(state, state)
      /\ state.game \in Tuned /\ state.own /\ state.set[state.game] # None =>
            state.plain = state.set[state.game]
  BY <1>1, MenuIs
<1> DEFINE v == S!Default(state)
<1>3. v \in Options(state.version) /\ v \in Words /\ v # None
  BY <1>2, OptionsAre
<1> HIDE DEF v
<1> DEFINE r == [state EXCEPT !.option = v]
           n == S!Chosen(r)
           what == {"options"}
           c == S!Behind(n, what)
<1>4. state' = S!Saving(c, S!PathToSave(c), "ui")
  BY DEF S!ResetOptions, S!Save, v
<1>5. /\ r \in CfgRec /\ Named(r, state) /\ Told(r, state) /\ Plugged(r, state) /\ Filed(r, state)
      /\ r.set = state.set /\ r.plain = state.plain /\ r.option = v /\ r.device = state.device
      /\ r.own = state.own /\ r.by = state.by
  BY <1>2, <1>3 DEF CfgRec, Named, Told, Plugged, Filed
<1> HIDE DEF r
<1>6. /\ n \in CfgRec /\ Named(n, r) /\ Told(n, r) /\ Plugged(n, r) /\ Filed(n, r) /\ n.set = r.set
      /\ n.plain = r.plain /\ n.option = r.option /\ n.device = r.device /\ n.own = r.own
      /\ n.by = IF r.by = r.version THEN r.by ELSE None
  BY <1>5, ChosenIs
<1>7. what \in SUBSET S!Told /\ "options" \in what /\ "controls" \notin what /\ "device" \notin what
  BY DEF S!Told
<1> HIDE DEF n, what
<1>8. /\ c \in CfgRec /\ Kept(c, n) /\ Named(c, n) /\ Told(c, n) /\ Filed(c, n) /\ c.set = n.set
      /\ c.keys = n.keys /\ c.port = n.port
      /\ n.game # None => c.behind = n.behind \cup what
  BY <1>6, <1>7, BehindIs
<1> HIDE DEF c
<1>9. /\ c.game = state.game /\ c.version = state.version /\ c.file = state.file /\ c.own = state.own
      /\ c.set = state.set /\ c.plain = state.plain
  BY <1>5, <1>6, <1>8 DEF Kept, Named, Filed
<1>10. Checked(c) /\ c.port \in Options(c.version) \cup {S!Unset} /\ c.option # None
  BY <1>2, <1>3, <1>5, <1>6, <1>8, <1>9 DEF Checked, Kept, Named, Plugged
<1>11. c.game # None => Uses(c, c) /\ Plugs(c, c)
  BY <1>2, <1>5, <1>6, <1>7, <1>8 DEF Uses, Plugs, Kept, Named, Plugged
<1> QED
  BY <1>1, <1>2, <1>4, <1>8, <1>9, <1>10, <1>11, Changed DEF CfgInv

LEMMA ResetControlKeeps == ASSUME CfgInv, S!ResetControl PROVE CfgInv'
<1>1. state.step = "ui"
  BY DEF S!ResetControl, S!Menu
<1>2. /\ CfgOk(state) /\ state \in CfgRec /\ Checked(state) /\ state.option # None
      /\ state.port \in Options(state.version) \cup {S!Unset}
      /\ state.game # None => Uses(state, state) /\ Plugs(state, state)
  BY <1>1, MenuIs
<1> DEFINE r == [state EXCEPT !.plain = 0]
           n == S!Note(r)
           what == {"controls"}
           c == S!Behind(n, what)
<1>3. state' = S!Saving(c, S!PathToSave(c), "ui")
  BY DEF S!ResetControl, S!Save
<1>4. /\ r \in CfgRec /\ Named(r, state) /\ Told(r, state) /\ Plugged(r, state) /\ Filed(r, state)
      /\ r.set = state.set /\ r.option = state.option /\ r.device = state.device /\ r.own = state.own
      /\ r.by = state.by
  BY <1>2 DEF CfgRec, Named, Told, Plugged, Filed
<1> HIDE DEF r
<1>5. /\ n \in CfgRec /\ Kept(n, r) /\ Named(n, r) /\ Told(n, r) /\ Plugged(n, r) /\ Filed(n, r)
      /\ \A g \in Tuned : n.set[g] = r.set[g] \/ (n.own /\ n.game = g)
      /\ n.own /\ n.game \in Tuned => n.set[n.game] = n.plain
  BY <1>4, NoteIs
<1>6. what \in SUBSET S!Told /\ "options" \notin what /\ "controls" \in what /\ "device" \notin what
  BY DEF S!Told
<1> HIDE DEF n, what
<1>7. /\ c \in CfgRec /\ Kept(c, n) /\ Named(c, n) /\ Told(c, n) /\ Filed(c, n) /\ c.set = n.set
      /\ c.keys = n.keys /\ c.port = n.port
      /\ n.game # None => c.behind = n.behind \cup what
  BY <1>5, <1>6, BehindIs
<1> HIDE DEF c
<1>8. /\ c.game = state.game /\ c.version = state.version /\ c.file = state.file /\ c.own = state.own
      /\ \A g \in Tuned : c.set[g] = state.set[g] \/ (c.own /\ c.game = g)
      /\ c.game \in Tuned /\ c.own /\ c.set[c.game] # None => c.plain = c.set[c.game]
  BY <1>4, <1>5, <1>7 DEF Kept, Named, Filed
<1>9. Checked(c) /\ c.port \in Options(c.version) \cup {S!Unset} /\ c.option # None
  BY <1>2, <1>4, <1>5, <1>7 DEF Checked, Kept, Named, Plugged
<1>10. c.game # None => Uses(c, c) /\ Plugs(c, c)
  BY <1>2, <1>4, <1>5, <1>6, <1>7 DEF Uses, Plugs, Kept, Named, Told, Plugged
<1> QED
  BY <1>1, <1>2, <1>3, <1>7, <1>8, <1>9, <1>10, Changed DEF CfgInv

\* SetupKeys on what is there, which is then saved or not.
LEMMA RotatedIs ==
    ASSUME CfgInv, state.step \in {"ui", "start"}, NEW c, c = S!SetupKeys(state)
    PROVE  /\ c \in CfgRec /\ Filed(c, state) /\ c.set = state.set /\ c.plain = state.plain
           /\ c.game = state.game /\ c.version = state.version /\ c.own = state.own
           /\ Checked(c) /\ c.port \in Options(c.version) \cup {S!Unset} /\ c.option # None
           /\ c.game # None => Uses(c, c) /\ Plugs(c, c)
<1>1. /\ state \in CfgRec /\ Checked(state) /\ state.option # None
      /\ state.port \in Options(state.version) \cup {S!Unset}
      /\ state.game # None => Uses(state, state)
  BY MenuIs
<1>2. /\ c \in CfgRec /\ Kept(c, state) /\ Named(c, state) /\ Told(c, state) /\ Filed(c, state) /\ c.set = state.set
      /\ state.port \in Options(state.version) \cup {S!Unset} => c.port \in Options(state.version) \cup {S!Unset}
      /\ "options" \in c.behind <=> "options" \in state.behind
      /\ state.game # None => Plugs(c, c)
  BY <1>1, SetupKeysIs
<1>3. c.game # None => Uses(c, c)
  BY <1>1, <1>2 DEF Uses, Kept, Named, Told
<1>4. Checked(c)
  BY <1>1, <1>2 DEF Checked, Kept
<1> QED
  BY <1>1, <1>2, <1>3, <1>4 DEF Kept, Named

LEMMA SetRotationKeeps == ASSUME CfgInv, S!SetRotation PROVE CfgInv'
<1>1. state.step = "ui" /\ state' = S!SetupKeys(state)
  BY DEF S!SetRotation, S!Menu
<1> DEFINE c == state'
<1>2. /\ c \in CfgRec /\ Filed(c, state) /\ c.set = state.set /\ c.plain = state.plain
      /\ c.game = state.game /\ c.version = state.version /\ c.own = state.own
      /\ Checked(c) /\ c.port \in Options(c.version) \cup {S!Unset} /\ c.option # None
      /\ c.game # None => Uses(c, c) /\ Plugs(c, c)
  BY <1>1, RotatedIs
<1>3. CfgOk(state)
  BY DEF CfgInv
<1>4. Offered(c) /\ Paths(c)
  BY <1>1, <1>2, <1>3 DEF CfgOk, Offered, Paths, Phase, Filed
<1>5. LastSet(c) /\ InUse(c)
  BY <1>1, <1>2, <1>3 DEF CfgOk, LastSet, InUse, Phase, Filed
<1> QED
  BY <1>2, <1>4, <1>5 DEF CfgInv, CfgOk

LEMMA AutoRotatingKeeps == ASSUME CfgInv, S!ChangeAutoRotating PROVE CfgInv'
<1> DEFINE c == S!SetupKeys(state)
<1>1. state.step = "ui" /\ state' = S!Saving(c, S!PathToSave(c), "ui")
  BY DEF S!ChangeAutoRotating, S!Menu, S!Save
<1>2. /\ c \in CfgRec /\ Filed(c, state) /\ c.set = state.set /\ c.plain = state.plain
      /\ c.game = state.game /\ c.version = state.version /\ c.own = state.own
      /\ Checked(c) /\ c.port \in Options(c.version) \cup {S!Unset} /\ c.option # None
      /\ c.game # None => Uses(c, c) /\ Plugs(c, c)
  BY <1>1, RotatedIs
<1>3. /\ CfgOk(state)
      /\ state.game \in Tuned /\ state.own /\ state.set[state.game] # None =>
            state.plain = state.set[state.game]
  BY <1>1, MenuIs
<1> HIDE DEF c
<1> QED
  BY <1>1, <1>2, <1>3, Changed DEF CfgInv, Filed

LEMMA DescribeKeeps == ASSUME CfgInv, S!Describe PROVE CfgInv'
<1> DEFINE then == state.step
<1>1. then \in {"ui", "start"} /\ state.game # None /\ state' = S!Saving(state, S!PathToSave(state), then)
  BY DEF S!Describe
<1>2. /\ CfgOk(state) /\ state \in CfgRec /\ Checked(state) /\ state.option # None
      /\ state.port \in Options(state.version) \cup {S!Unset}
      /\ state.game # None => Uses(state, state) /\ (then = "ui" => Plugs(state, state))
      /\ state.game \in Tuned /\ state.own /\ state.set[state.game] # None =>
            state.plain = state.set[state.game]
      /\ then # "ui" => state.game # None
      /\ state.step \in {"ui", "start"} /\ then \in {"ui", "start", "kept"} /\ then # "kept"
  BY <1>1, MenuIs
<1> HIDE DEF then
<1>3. CfgOk(S!Saving(state, S!PathToSave(state), then))
  BY <1>1, <1>2, Changed
<1> QED
  BY <1>1, <1>3 DEF CfgInv

LEMMA StartedKeeps == ASSUME CfgInv, S!Started PROVE CfgInv'
<1> DEFINE c == S!SetupKeys(state)
           then == IF state.own THEN "kept" ELSE "ui"
<1>1. state.step = "start" /\ state' = S!Saving(c, S!PathToSave(state), then)
  BY DEF S!Started
<1>2. /\ c \in CfgRec /\ Filed(c, state) /\ c.set = state.set /\ c.plain = state.plain
      /\ c.game = state.game /\ c.version = state.version /\ c.own = state.own
      /\ Checked(c) /\ c.port \in Options(c.version) \cup {S!Unset} /\ c.option # None
      /\ c.game # None => Uses(c, c) /\ Plugs(c, c)
  BY <1>1, RotatedIs
<1>3. /\ CfgOk(state) /\ state.game # None
      /\ state.game \in Tuned /\ state.own /\ state.set[state.game] # None =>
            state.plain = state.set[state.game]
  BY <1>1, MenuIs
<1>4. then \in {"ui", "start", "kept"} /\ (then = "kept" => state.own)
  OBVIOUS
<1>5. S!PathToSave(state) = S!PathToSave(c)
  BY <1>2 DEF S!PathToSave
<1> HIDE DEF c, then
<1>6. CfgOk(S!Saving(c, S!PathToSave(c), then))
  BY <1>1, <1>2, <1>3, <1>4, Changed DEF Filed
<1> QED
  BY <1>1, <1>5, <1>6 DEF CfgInv

LEMMA SetOwnKeeps == ASSUME CfgInv, S!SetOwn PROVE CfgInv'
<1> DEFINE own == ~state.own
           set == [g \in S!Rom |-> IF g = state.game THEN None ELSE state.set[g]]
           c == [state EXCEPT !.own = own, !.set = set]
           p == None
           then == "ui"
           s == state'
<1>1. state.step = "ui" /\ state' = S!Saving(c, p, then)
  BY DEF S!SetOwn, S!Menu
<1>2. /\ CfgOk(state) /\ state \in CfgRec /\ Checked(state) /\ state.option # None
      /\ state.port \in Options(state.version) \cup {S!Unset}
      /\ state.game # None => Uses(state, state) /\ Plugs(state, state)
  BY <1>1, MenuIs
<1>3. /\ set \in [S!Rom -> Value \cup {0, None}]
      /\ \A g \in S!Rom : set[g] = IF g = state.game THEN None ELSE state.set[g]
  BY <1>2 DEF CfgRec
<1>4. own \in BOOLEAN
  OBVIOUS
<1>5. /\ p \in S!Rom \cup {None} /\ p = None /\ then = "ui" /\ then \in {"ui", "start", "kept", "load"}
  OBVIOUS
<1> HIDE DEF set, own, p, then
<1> DEFINE r == [state EXCEPT !.own = own]
<1>6. c = [r EXCEPT !.set = set]
  OBVIOUS
<1>7. r \in CfgRec
  BY ONLY <1>2, <1>4 DEF CfgRec
<1> HIDE DEF r
<1>9. /\ Named(c, state) /\ Told(c, state) /\ Plugged(c, state) /\ Filed(c, state) /\ c.set = set
      /\ c.plain = state.plain /\ c.option = state.option /\ c.device = state.device /\ c.by = state.by
  BY ONLY <1>2 DEF CfgRec, Named, Told, Plugged, Filed
<1>0. state' = S!Saving(c, p, then)
  BY <1>1
<1> HIDE DEF c
<1>8. c \in CfgRec
  BY ONLY <1>3, <1>6, <1>7 DEF CfgRec
<1>16. PICK d \in CfgRec : d = c
  BY <1>8
<1>17. /\ Named(d, state) /\ Told(d, state) /\ Plugged(d, state) /\ Filed(d, state) /\ d.set = set
       /\ d.plain = state.plain /\ d.option = state.option /\ d.device = state.device /\ d.by = state.by
  BY <1>9, <1>16
<1>18. d \in CfgRec /\ state' = S!Saving(d, p, then)
  BY <1>0, <1>16
<1>10. /\ s \in CfgRec /\ Kept(s, d) /\ Named(s, d) /\ Told(s, d) /\ Plugged(s, d) /\ s.set = d.set
       /\ s.step = "save" /\ s.then = then /\ s.path = p
       /\ s.file = [d.file EXCEPT ![p] = None]
  <2>1. p \in S!Rom \cup {None} /\ then \in {"ui", "start", "kept", "load"}
    BY <1>5
  <2>2. s \in CfgRec
    BY ONLY <1>18, <2>1, SavingIs
  <2>3. Kept(s, d)
    BY ONLY <1>18, <2>1, SavingIs
  <2>4. Named(s, d)
    BY ONLY <1>18, <2>1, SavingIs
  <2>5. Told(s, d)
    BY ONLY <1>18, <2>1, SavingIs
  <2>6. Plugged(s, d)
    BY ONLY <1>18, <2>1, SavingIs
  <2>7. /\ s.set = d.set /\ s.step = "save" /\ s.then = then /\ s.path = p
        /\ s.file = [d.file EXCEPT ![p] = None]
    BY ONLY <1>18, <2>1, SavingIs
  <2> QED
    BY <2>2, <2>3, <2>4, <2>5, <2>6, <2>7
<1>11. s.file[None] = None /\ \A q \in S!Rom : s.file[q] = state.file[q]
  BY <1>2, <1>5, <1>17, <1>10, CfgAssumption DEF Filed, CfgRec
<1>12. Offered(s)
  BY <1>2, <1>17, <1>10, <1>11 DEF CfgOk, Offered, Checked, Kept, Named, Plugged, S!Whole
<1>13. Paths(s) /\ Phase(s) = "ui"
  BY <1>5, <1>10, <1>11 DEF Paths, Phase
<1>14. LastSet(s)
  <2>1. \A g \in Tuned : g \in S!Rom /\ g # None
    BY CfgAssumption DEF S!Rom
  <2>2. \A g \in Tuned : s.set[g] # None => s.set[g] = state.set[g] /\ g # state.game
    BY <1>3, <1>17, <1>10, <2>1
  <2> QED
    BY <1>1, <1>2, <1>17, <1>10, <1>11, <2>1, <2>2 DEF CfgOk, LastSet, Named
<1>15. InUse(s)
  <2>1. s.game # None => Uses(s, s) /\ Plugs(s, s)
    BY <1>2, <1>17, <1>10 DEF Uses, Plugs, Kept, Named, Told, Plugged
  <2> QED
    BY <1>2, <1>17, <1>10, <1>11, <1>13, <2>1 DEF CfgOk, InUse, Kept
<1> QED
  BY <1>10, <1>12, <1>13, <1>14, <1>15 DEF CfgInv, CfgOk

LEMMA UnloadKeeps == ASSUME CfgInv, S!LoadFails \/ S!UnloadGame PROVE CfgInv'
<1> DEFINE u == S!Unloaded(state)
           s == state'
<1>1. /\ CfgOk(state) /\ state \in CfgRec /\ Checked(state) /\ state.option # None
      /\ state.step # "save"
  BY MenuIs DEF S!LoadFails, S!UnloadGame, S!Menu
<1>2. /\ u \in CfgRec /\ Kept(u, state) /\ u.version = state.version /\ u.set = state.set
      /\ u.game = None /\ u.step = "ui" /\ u.port = S!Unset
      /\ \A p \in S!Rom \cup {None} : u.file[p] = IF p = S!EmptyRom THEN None ELSE state.file[p]
  BY <1>1, UnloadedIs
<1>3. state' = u \/ state' = [u EXCEPT !.inited = FALSE]
  BY DEF S!LoadFails, S!UnloadGame
<1> HIDE DEF u
<1>4. /\ s \in CfgRec /\ Kept(s, u) /\ s.version = u.version /\ s.set = u.set
      /\ s.game = u.game /\ s.step = u.step /\ s.port = u.port /\ s.file = u.file
  <2>1. CASE s = u
    BY ONLY <1>2, <2>1 DEF Kept
  <2>2. CASE s = [u EXCEPT !.inited = FALSE]
    <3>1. u \in CfgRec
      BY <1>2
    <3>2. s \in CfgRec
      BY ONLY <2>2, <3>1 DEF CfgRec
    <3> QED
      BY <1>2, <2>2, <3>2 DEF CfgRec, Kept
  <2> QED
    BY <1>3, <2>1, <2>2
<1>5. Checked(s) /\ s.option # None
  BY <1>1, <1>2, <1>4 DEF Checked, Kept
<1>6. /\ s.version = state.version /\ s.port = S!Unset /\ s.set = state.set /\ s.game = None /\ s.step = "ui"
      /\ \A p \in S!Rom \cup {None} : s.file[p] = IF p = S!EmptyRom THEN None ELSE state.file[p]
  BY <1>2, <1>4
<1>7. CfgOk(s)
  BY ONLY <1>1, <1>4, <1>5, <1>6, AtRest
<1> QED
  BY <1>7 DEF CfgInv

LEMMA FrameKeeps == ASSUME CfgInv, S!Frame PROVE CfgInv'
<1> DEFINE s == state'
           behind == state.behind \ {"options"}
<1>1. /\ state.step = "ui" /\ state.game # None
      /\ state' = [state EXCEPT !.flag = FALSE, !.used = state.option, !.behind = behind]
  BY MenuIs DEF S!Frame, S!Menu
<1>2. /\ CfgOk(state) /\ state \in CfgRec /\ Checked(state) /\ state.option # None
      /\ Plugs(state, state)
  BY <1>1, MenuIs
<1>3. /\ behind \in SUBSET S!Told
      /\ "controls" \in behind <=> "controls" \in state.behind
      /\ "device" \in behind <=> "device" \in state.behind
  BY <1>2 DEF CfgRec
<1> HIDE DEF behind
<1> DEFINE r == [state EXCEPT !.flag = FALSE, !.used = state.option]
<1>4. s = [r EXCEPT !.behind = behind]
  BY <1>1
<1>5. r \in CfgRec
  BY ONLY <1>2 DEF CfgRec
<1> HIDE DEF r
<1>6. s \in CfgRec
  BY <1>3, <1>4, <1>5 DEF CfgRec
<1>7. /\ Kept(s, state) /\ Named(s, state) /\ Filed(s, state) /\ s.set = state.set
      /\ s.used = state.option /\ s.behind = behind /\ s.keys = state.keys /\ s.port = state.port
  BY ONLY <1>1, <1>2 DEF CfgRec, Kept, Named, Filed
<1>8. Offered(s) /\ Paths(s) /\ LastSet(s)
  BY <1>1, <1>2, <1>7 DEF CfgOk, Offered, Checked, Paths, LastSet, Phase, Kept, Named, Filed
<1>9. InUse(s)
  <2>1. Uses(s, s) /\ Plugs(s, s)
    BY <1>2, <1>3, <1>7 DEF Uses, Plugs, Kept, Named
  <2> QED
    BY <1>1, <1>2, <1>7, <2>1 DEF CfgOk, InUse, Phase, Kept, Named, Filed
<1> QED
  BY <1>6, <1>8, <1>9 DEF CfgInv, CfgOk

LEMMA BootKeeps == ASSUME CfgInv, S!Restart \/ S!Crash PROVE CfgInv'
<1>1. Held(state) /\ state \in CfgRec /\ None \notin S!Rom
  BY HeldIs, CfgAssumption DEF CfgInv, CfgOk
<1>2. CASE S!Restart
  <2>1. PICK c \in S!Written(state, None) : state' \in S!Boots(c)
    BY <1>2 DEF S!Restart
  <2>2. state.game = None /\ state.step = "ui" /\ CfgOk(state)
    BY <1>2 DEF S!Restart, S!Menu, CfgInv
  <2> DEFINE p == None
  <2>3. p \in S!Rom \cup {None} /\ p = None /\ c \in S!Written(state, p)
    BY <2>1
  <2> HIDE DEF p
  <2>4. /\ c \in CfgRec
        /\ \A q \in S!Rom \cup {None} : q # p => c.file[q] = state.file[q]
        /\ \A g \in S!Rom : g # p => c.set[g] = state.set[g]
        /\ \/ c.file[p] = S!Content(state)
           \/ c.file[p] = None
           \/ c.file[p] = S!Cut(state)
    BY ONLY <1>1, <2>3, WrittenIs
  <2>5. Kept(S!Content(state), state) /\ ~S!Whole(S!Cut(state))
    BY <1>1, ContentIs, CutIs
  <2>6. Checked(state)
    BY <2>2 DEF CfgOk, Offered
  <2>7. S!Whole(c.file[p]) => Checked(c.file[p])
    BY <1>1, <2>4, <2>5, <2>6 DEF Kept, Checked, S!Whole
  <2>8. \A q \in S!Rom : c.file[q] = state.file[q] /\ c.set[q] = state.set[q]
    BY <1>1, <2>3, <2>4
  <2>9. Held(c)
    BY <1>1, <2>3, <2>7, <2>8 DEF Held, S!Rom
  <2> QED
    BY <2>1, <2>4, <2>9, BootsIs DEF CfgInv
<1>3. CASE S!Crash
  <2>1. PICK v \in S!Version : state' \in S!Boots([state EXCEPT !.version = v])
    BY <1>3 DEF S!Crash
  <2> DEFINE c == [state EXCEPT !.version = v]
  <2>2. c \in CfgRec /\ c.file = state.file /\ c.set = state.set
    BY <1>1 DEF CfgRec
  <2>3. state' \in S!Boots(c)
    BY <2>1
  <2> HIDE DEF c
  <2>4. Held(c)
    BY <1>1, <2>2 DEF Held
  <2> QED
    BY <2>2, <2>3, <2>4, BootsIs DEF CfgInv
<1> QED
  BY <1>2, <1>3

LEMMA CfgStep ==
    ASSUME CfgInv, [S!Next]_state
    PROVE  CfgInv'
<1>1. ASSUME S!Next
      PROVE  CfgInv'
  <2>1. CASE S!SaveWrites
    BY <2>1, SaveWritesKeeps
  <2>2. CASE S!SetPlain \/ S!SetOwn \/ S!SetOption \/ S!SetDevice
    BY <2>2, SetPlainKeeps, SetOwnKeeps, SetOptionKeeps, SetDeviceKeeps
  <2>3. CASE S!ResetOptions \/ S!ResetControl \/ S!SetRotation \/ S!ChangeAutoRotating
    BY <2>3, ResetOptionsKeeps, ResetControlKeeps, SetRotationKeeps, AutoRotatingKeeps
  <2>4. CASE S!Describe \/ S!Started \/ S!KeepCore \/ S!LoadOwn
    BY <2>4, DescribeKeeps, StartedKeeps, KeepCoreKeeps, LoadOwnKeeps
  <2>5. CASE \E g \in S!Rom : S!LoadRom(g)
    BY <2>5, LoadRomKeeps
  <2>6. CASE S!LoadFails \/ S!UnloadGame
    BY <2>6, UnloadKeeps
  <2>7. CASE S!Frame \/ S!Restart \/ S!Crash
    BY <2>7, FrameKeeps, BootKeeps
  <2> QED
    BY <1>1, <2>1, <2>2, <2>3, <2>4, <2>5, <2>6, <2>7 DEF S!Next
<1>2. CASE UNCHANGED state
  BY <1>2 DEF CfgInv
<1> QED
  BY <1>1, <1>2

LEMMA CfgInit == ASSUME S!Init PROVE CfgInv
<1> DEFINE file == [p \in S!Rom \cup {None} |-> None]
           set == [g \in S!Rom |-> None]
<1>1. PICK v \in S!Version, what \in Vary :
         state \in S!Boots([vary |-> what, plain |-> 0, option |-> None, device |-> S!Unset, own |-> FALSE,
                   by |-> None, game |-> None, version |-> v, inited |-> TRUE, flag |-> FALSE, used |-> None,
                   step |-> "ui", then |-> "ui", path |-> None, keys |-> 0, port |-> S!Unset,
                   behind |-> {}, set |-> set, file |-> file])
  BY DEF S!Init
<1>2. /\ file \in [S!Rom \cup {None} -> Files \cup {None}] /\ set \in [S!Rom -> Value \cup {0, None}]
      /\ \A p \in S!Rom \cup {None} : file[p] = None
      /\ \A g \in S!Rom : set[g] = None
  OBVIOUS
<1> HIDE DEF file, set
<1> DEFINE c == [vary |-> what, plain |-> 0, option |-> None, device |-> S!Unset, own |-> FALSE,
                   by |-> None, game |-> None, version |-> v, inited |-> TRUE, flag |-> FALSE, used |-> None,
                   step |-> "ui", then |-> "ui", path |-> None, keys |-> 0, port |-> S!Unset,
                   behind |-> {}, set |-> set, file |-> file]
<1>3. None \in Words /\ S!Unset \in Words
  BY DEF Words
<1>4. c \in CfgRec
  BY <1>2, <1>3 DEF CfgRec
<1>5. c.file = file /\ c.set = set
  OBVIOUS
<1>6. state \in S!Boots(c)
  BY <1>1
<1> HIDE DEF c
<1>7. Held(c)
  <2>1. \A g \in Tuned : g \in S!Rom
    BY DEF S!Rom
  <2> QED
    BY <1>2, <1>5, <2>1 DEF Held, S!Whole
<1> QED
  BY <1>4, <1>6, <1>7, BootsIs DEF CfgInv

LEMMA CfgTyped ==
    ASSUME CfgInv
    PROVE  S!TypeOK /\ S!OwnSettings /\ S!CoreUsesShown /\ S!ChosenIsOffered
<1>1. CfgOk(state) /\ state \in CfgRec /\ S!Offered(state) = Options(state.version)
  BY OptionsAre DEF CfgInv, CfgOk
<1>2. S!TypeOK
  BY <1>1 DEF S!TypeOK, CfgRec, CfgOk, Offered
<1>3. S!OwnSettings
  BY <1>1 DEF S!OwnSettings, S!Menu, CfgOk, LastSet, Phase
<1>4. S!CoreUsesShown
  BY <1>1 DEF S!CoreUsesShown, S!Menu, CfgOk, InUse, Phase, Uses, Plugs
<1>5. state.version # None
  BY <1>1, CfgAssumption DEF CfgRec
<1>6. S!ChosenIsOffered
  BY <1>1, <1>5 DEF S!ChosenIsOffered, CfgOk, Offered, Checked
<1> QED
  BY <1>2, <1>3, <1>4, <1>6

-----------------------------------------------------------------------------
LEMMA MenuTabNames ==
    /\ M!Tab = {"system", "disk", "state", "browser", "favorite", "control", "core", "options"}
    /\ M!Order \in [1 .. 8 -> M!Tab] /\ Len(M!Order) = 8 /\ M!Order[1] = "system"
BY DEF M!Tab, M!Order

LEMMA MenuKeys ==
    /\ \A o \in M!Tab \cup {"boot", "combo", "confirm", "dialog"} : "enter" \in M!KeysOf(o)
    /\ \A o \in {"combo", "confirm", "dialog"} : M!KeysOf(o) = {"enter", "cancel"}
    /\ \A o \in {"text", "gamepad"} : M!KeysOf(o) = {}
BY MenuTabNames DEF M!KeysOf

\* All but the keys and the tab; all but the keys.
Alike(m, n) ==
    /\ n.status = m.status /\ n.seen = m.seen /\ n.shown = m.shown /\ n.levels = m.levels
    /\ n.open = m.open /\ n.multi = m.multi /\ n.image = m.image /\ n.amiss = m.amiss /\ n.disk = m.disk
    /\ n.favs = m.favs /\ n.crash = m.crash
SameTab(m, n) == Alike(m, n) /\ n.cur = m.cur
\* The boot messages are bound to no key they were not.
NoBoots(m, n) == \A k \in M!Key : n.keys[k] = "boot" => m.keys[k] = "boot"
\* A menu with nothing open.
Plainly(m) == m \in MenuRec /\ m.levels = <<>> /\ m.open = {} /\ m.keys \in Bound /\ Stays(m)

LEMMA PutKeys ==
  ASSUME NEW m \in MenuRec, NEW keys \in Bound, Plainly(m)
  PROVE  LET n == [m EXCEPT !.keys = keys] IN Plainly(n) /\ SameTab(m, n) /\ n.keys = keys
<1> DEFINE n == [m EXCEPT !.keys = keys]
<1>1. keys \in [M!Key -> Owner \cup M!Widget]
  BY DEF Bound
<1>2. n \in MenuRec
  BY <1>1, ZenonT(40) DEF MenuRec
<1>3. n.keys = keys /\ SameTab(m, n)
  BY DEF MenuRec, SameTab, Alike
<1> QED
  BY <1>2, <1>3 DEF Plainly, Stays, SameTab, Alike

LEMMA SetHooksOn ==
  ASSUME NEW m \in MenuRec, NEW o \in Owner, Plainly(m)
  PROVE  /\ Plainly(M!SetHooks(m, o)) /\ SameTab(m, M!SetHooks(m, o))
         /\ M!SetHooks(m, o).keys = [k \in M!Key |-> IF k \in M!KeysOf(o) THEN o ELSE m.keys[k]]
         /\ o # "boot" => NoBoots(m, M!SetHooks(m, o))
<1> DEFINE keys == [k \in M!Key |-> IF k \in M!KeysOf(o) THEN o ELSE m.keys[k]]
<1>1. keys \in Bound
  BY DEF Plainly, Bound
<1>2. M!SetHooks(m, o) = [m EXCEPT !.keys = keys]
  BY DEF M!SetHooks
<1> QED
  BY <1>1, <1>2, PutKeys DEF NoBoots

LEMMA UnsetHooksOn ==
  ASSUME NEW m \in MenuRec, NEW o, Plainly(m)
  PROVE  Plainly(M!UnsetHooks(m, o)) /\ SameTab(m, M!UnsetHooks(m, o)) /\ NoBoots(m, M!UnsetHooks(m, o))
<1> DEFINE keys == [k \in M!Key |-> IF k \in M!KeysOf(o) THEN None ELSE m.keys[k]]
<1>1. keys \in Bound
  BY DEF Plainly, Bound, Owner
<1>2. M!UnsetHooks(m, o) = [m EXCEPT !.keys = keys]
  BY DEF M!UnsetHooks
<1> QED
  BY <1>1, <1>2, PutKeys, MenuAssumption DEF NoBoots

LEMMA FreeTabOn ==
  ASSUME NEW m \in MenuRec, NEW t, Plainly(m)
  PROVE  /\ Plainly(M!FreeTab(m, t)) /\ SameTab(m, M!FreeTab(m, t))
         /\ M!FreeTab(m, t).keys = M!FreeOf(t, m.keys) /\ NoBoots(m, M!FreeTab(m, t))
<1> DEFINE keys == M!FreeOf(t, m.keys)
           Without(level) == [level EXCEPT !.keys = M!FreeOf(t, level.keys)]
           levels == [i \in DOMAIN m.levels |-> Without(m.levels[i])]
           n == [m EXCEPT !.keys = keys]
<1>1. keys \in Bound
  BY DEF Plainly, Bound, Owner, M!FreeOf, M!Freed
<1>2. Plainly(n) /\ SameTab(m, n) /\ n.keys = keys
  BY <1>1, PutKeys
<1>3. levels = n.levels
  <2>1. DOMAIN m.levels = {} /\ n.levels = <<>>
    BY <1>2 DEF Plainly
  <2> HIDE DEF Without
  <2> QED
    BY <2>1
<1>4. M!FreeTab(m, t) = [n EXCEPT !.levels = levels]
  BY DEF M!FreeTab
<1>5. [n EXCEPT !.levels = n.levels] = n
  <2> HIDE DEF n
  <2> QED
    BY <1>2 DEF Plainly, MenuRec
<1>6. NoBoots(m, n)
  <2> HIDE DEF n
  <2> QED
    BY <1>2 DEF NoBoots, M!FreeOf, M!Freed
<1> HIDE DEF levels
<1> QED
  BY <1>2, <1>3, <1>4, <1>5, <1>6

LEMMA RebuildOn ==
  ASSUME NEW m \in MenuRec, NEW t \in M!Tab, Plainly(m)
  PROVE  /\ Plainly(M!Rebuild(m, t)) /\ SameTab(m, M!Rebuild(m, t))
         /\ NoBoots(m, M!Rebuild(m, t))
         /\ m.keys["enter"] = m.cur => M!Rebuild(m, t).keys["enter"] = m.cur
         /\ m.keys["enter"] = "boot" => M!Rebuild(m, t).keys["enter"] \in {"boot", m.cur}
<1> DEFINE f == M!FreeTab(m, t)
<1>1. Plainly(f) /\ f \in MenuRec /\ SameTab(m, f) /\ f.keys = M!FreeOf(t, m.keys) /\ NoBoots(m, f)
  BY FreeTabOn DEF Plainly
<1>2. t \in Owner /\ t # "boot" /\ "enter" \in M!Key /\ "enter" \in M!KeysOf(t)
  BY MenuKeys, MenuTabNames DEF Owner, M!Key
<1>3. CASE m.cur = t
  <2>1. M!Rebuild(m, t) = M!SetHooks(f, t)
    BY <1>3 DEF M!Rebuild
  <2>2. Plainly(M!SetHooks(f, t)) /\ SameTab(f, M!SetHooks(f, t)) /\ NoBoots(f, M!SetHooks(f, t)) /\ M!SetHooks(f, t).keys["enter"] = t
    BY <1>1, <1>2, SetHooksOn
  <2> QED
    BY <1>1, <1>3, <2>1, <2>2 DEF SameTab, Alike, NoBoots
<1>4. CASE m.cur # t
  BY <1>1, <1>2, <1>4 DEF M!Rebuild, M!FreeOf
<1> QED
  BY <1>3, <1>4

LEMMA TurnToOn ==
  ASSUME NEW m \in MenuRec, NEW t \in M!Tab, Plainly(m), m.cur = "disk" => m.disk # None
  PROVE  /\ Plainly(M!TurnTo(m, t)) /\ Alike(m, M!TurnTo(m, t))
         /\ NoBoots(m, M!TurnTo(m, t))
         /\ M!TurnTo(m, t).cur = t /\ M!TurnTo(m, t).keys["enter"] = t
<1> DEFINE left == M!UnsetHooks(m, m.cur)
           there == [left EXCEPT !.cur = t, !.crash = left.crash \/ (m.cur = "disk" /\ m.disk = None)]
<1>1. Plainly(left) /\ left \in MenuRec /\ SameTab(m, left) /\ NoBoots(m, left)
  BY UnsetHooksOn DEF Plainly
<1>2. (left.crash \/ (m.cur = "disk" /\ m.disk = None)) = FALSE
  BY <1>1 DEF Plainly, Stays
<1>3. there = [left EXCEPT !.cur = t, !.crash = FALSE]
  BY <1>2
<1>4. there \in MenuRec
  BY <1>1, <1>3, ZenonT(40) DEF MenuRec
<1>5. Alike(left, there) /\ there.cur = t /\ there.keys = left.keys
  BY <1>1, <1>3 DEF MenuRec, Alike, Plainly, Stays
<1>6. Plainly(there)
  BY <1>1, <1>4, <1>5 DEF Plainly, Stays, Alike
<1>7. t \in Owner /\ t # "boot" /\ "enter" \in M!Key /\ "enter" \in M!KeysOf(t)
  BY MenuKeys, MenuTabNames DEF Owner, M!Key
<1>8. M!TurnTo(m, t) = M!SetHooks(there, t)
  BY DEF M!TurnTo
<1>9. /\ Plainly(M!SetHooks(there, t)) /\ SameTab(there, M!SetHooks(there, t))
      /\ M!SetHooks(there, t).keys["enter"] = t /\ NoBoots(there, M!SetHooks(there, t))
  BY <1>4, <1>6, <1>7, SetHooksOn
<1> QED
  BY <1>1, <1>5, <1>8, <1>9 DEF SameTab, Alike, NoBoots

\* The first of eight that are in a set.
LEMMA FirstOfEight ==
  ASSUME NEW G \in SUBSET (1 .. 8), G # {}
  PROVE  \E n \in G : \A k \in 1 .. n - 1 : k \notin G
<1> SUFFICES ASSUME \A n \in G : \E k \in 1 .. n - 1 : k \in G
             PROVE  FALSE
  OBVIOUS
<1>1. 1 \notin G
  OBVIOUS
<1>2. 2 \notin G
  BY <1>1
<1>3. 3 \notin G
  BY <1>1, <1>2
<1>4. 4 \notin G
  BY <1>1, <1>2, <1>3
<1>5. 5 \notin G
  BY <1>1, <1>2, <1>3, <1>4
<1>6. 6 \notin G
  BY <1>1, <1>2, <1>3, <1>4, <1>5
<1>7. 7 \notin G
  BY <1>1, <1>2, <1>3, <1>4, <1>5, <1>6
<1>8. 8 \notin G
  BY <1>1, <1>2, <1>3, <1>4, <1>5, <1>6, <1>7
<1> QED
  <2>1. PICK n \in G : TRUE
    OBVIOUS
  <2>2. n = 1 \/ n = 2 \/ n = 3 \/ n = 4 \/ n = 5 \/ n = 6 \/ n = 7 \/ n = 8
    OBVIOUS
  <2> QED
    BY <1>1, <1>2, <1>3, <1>4, <1>5, <1>6, <1>7, <1>8, <2>1, <2>2

\* From every tab a full turn, either way, comes to the first.
LEMMA FullTurn ==
  ASSUME NEW p \in 1 .. 8
  PROVE  /\ \E n \in 1 .. 8 : (p + n * 1 - 1) % 8 = 0
         /\ \E n \in 1 .. 8 : (p + n * 7 - 1) % 8 = 0
<1>1. (p + (9 - p) * 1 - 1) % 8 = 0 /\ 9 - p \in 1 .. 8
  OBVIOUS
<1>2. \E n \in 1 .. 8 : (p + n * 7 - 1) % 8 = 0
  <2>1. CASE p = 1
    BY <2>1
  <2>2. CASE p # 1
    <3>1. p + (p - 1) * 7 - 1 = 8 * (p - 1) /\ p - 1 \in 1 .. 8
      BY <2>2
    <3>2. (8 * (p - 1)) % 8 = 0
      OBVIOUS
    <3> QED
      BY <3>1, <3>2
  <2> QED
    BY <2>1, <2>2
<1> QED
  BY <1>1, <1>2

LEMMA NearestIsShown ==
  ASSUME NEW m \in MenuRec, Plainly(m), NEW step \in {1, 7}
  PROVE  M!Nearest(m, step) \in m.shown
<1> DEFINE p == M!Place(m.cur)
           To(n) == M!At(p + n * step)
           G == { n \in 1 .. 8 : To(n) \in m.shown }
<1>1. p \in 1 .. 8
  <2>1. m.cur \in M!Tab
    BY DEF MenuRec
  <2>2. \E i \in 1 .. 8 : M!Order[i] = m.cur
    BY <2>1 DEF M!Tab, M!Order
  <2>3. DOMAIN M!Order = 1 .. 8
    BY MenuTabNames
  <2> QED
    BY <2>2, <2>3 DEF M!Place
<1>2. PICK n \in 1 .. 8 : (p + n * step - 1) % 8 = 0
  BY <1>1, FullTurn
<1>3. To(n) = "system"
  <2> HIDE DEF p
  <2>1. To(n) = M!Order[0 + 1]
    BY <1>1, <1>2, MenuTabNames DEF M!At
  <2> QED
    BY <2>1, MenuTabNames
<1>4. n \in G
  BY <1>3 DEF Plainly, Stays
<1>5. PICK first \in G : \A k \in 1 .. first - 1 : k \notin G
  BY <1>4, FirstOfEight
<1> DEFINE Good(i) == To(i) \in m.shown /\ \A k \in 1 .. i - 1 : To(k) \notin m.shown
<1>6. Good(first) /\ first \in 1 .. 8
  BY <1>5
<1>7. Good(CHOOSE i \in 1 .. 8 : Good(i))
  <2> HIDE DEF Good
  <2> QED
    BY <1>6
<1>8. M!Nearest(m, step) = To(CHOOSE i \in 1 .. 8 : Good(i))
  BY MenuTabNames DEF M!Nearest
<1> QED
  BY <1>7, <1>8

LEMMA TurnsAreShown ==
  ASSUME NEW m \in MenuRec, Plainly(m)
  PROVE  M!Before(m) \in m.shown /\ M!After(m) \in m.shown
BY NearestIsShown, MenuTabNames DEF M!Before, M!After

LEMMA SetInputHooksOn ==
  ASSUME NEW m \in MenuRec, Plainly(m), m.cur = "disk" => m.disk # None
  PROVE  /\ Plainly(M!SetInputHooks(m)) /\ Alike(m, M!SetInputHooks(m))
         /\ M!SetInputHooks(m).cur \in m.shown
         /\ NoBoots(m, M!SetInputHooks(m))
         /\ m.cur \in m.shown => M!SetInputHooks(m).cur = m.cur
         /\ \A k \in M!Key \cap M!KeysOf(M!SetInputHooks(m).cur) :
               M!SetInputHooks(m).keys[k] = M!SetInputHooks(m).cur
<1> DEFINE turn == [m EXCEPT !.keys["turn"] = "ui"]
           there == IF m.cur \in m.shown THEN turn ELSE M!TurnTo(turn, M!Before(m))
<1>1. [m.keys EXCEPT !["turn"] = "ui"] \in Bound
  BY DEF Plainly, Bound, Owner
<1>2. turn = [m EXCEPT !.keys = [m.keys EXCEPT !["turn"] = "ui"]]
  OBVIOUS
<1>3. Plainly(turn) /\ turn \in MenuRec /\ SameTab(m, turn) /\ NoBoots(m, turn)
  BY <1>1, <1>2, PutKeys DEF Plainly, NoBoots, Bound
<1>4. M!Before(m) \in m.shown /\ M!Before(m) \in M!Tab
  BY <1>3, TurnsAreShown DEF SameTab, Alike, MenuRec
<1>5. /\ there \in MenuRec /\ Plainly(there) /\ Alike(m, there) /\ there.cur \in m.shown
      /\ NoBoots(m, there) /\ (m.cur \in m.shown => there.cur = m.cur)
  <2>1. CASE m.cur \in m.shown
    BY <1>3, <2>1 DEF SameTab, Alike
  <2>2. CASE m.cur \notin m.shown
    <3>1. there = M!TurnTo(turn, M!Before(m))
      BY <2>2
    <3>2. turn.cur = "disk" => turn.disk # None
      BY <1>3 DEF SameTab, Alike
    <3> HIDE DEF turn, there
    <3>3. Plainly(there) /\ Alike(turn, there) /\ there.cur = M!Before(m) /\ NoBoots(turn, there)
      BY <1>3, <1>4, <3>1, <3>2, TurnToOn
    <3> QED
      BY <1>3, <1>4, <2>2, <3>3 DEF SameTab, Alike, Plainly, NoBoots
  <2> QED
    BY <2>1, <2>2
<1>6. there.cur \in Owner /\ there.cur # "boot"
  BY <1>5, MenuTabNames DEF Owner, MenuRec
<1>7. M!SetInputHooks(m) = M!SetHooks(there, there.cur)
  BY DEF M!SetInputHooks
<1>8. /\ Plainly(M!SetHooks(there, there.cur)) /\ SameTab(there, M!SetHooks(there, there.cur))
      /\ NoBoots(there, M!SetHooks(there, there.cur))
      /\ \A k \in M!Key \cap M!KeysOf(there.cur) : M!SetHooks(there, there.cur).keys[k] = there.cur
  <2> HIDE DEF there
  <2> QED
    BY <1>5, <1>6, SetHooksOn
<1> HIDE DEF there
<1> QED
  BY <1>5, <1>7, <1>8 DEF SameTab, Alike, NoBoots

\* A menu with nothing open as it should be.
Calm(m) == Plainly(m) /\ OnDisks(m) /\ OneIn(m) /\ Settled(m, m.keys) /\ BootKeys(m, m.keys)

LEMMA CalmIsOk == ASSUME NEW m, Calm(m) PROVE m.keys \in Bound /\ MenuOk(m, m.keys)
BY DEF Calm, Plainly, MenuOk, Shape, Bare

LEMMA BareIsCalm == ASSUME NEW m, NEW b \in Bound, MenuOk(m, b), Bare(m, b) PROVE Calm(m)
BY DEF Calm, Plainly, MenuOk, Bare

LEMMA IdleIsCalm ==
  ASSUME NEW m, NEW b \in Bound, MenuOk(m, b), ~Looked(m)
  PROVE  Calm(m)
<1>1. m.levels = <<>>
  BY DEF MenuOk
<1>2. ~TwoOver(m, b) /\ \A w : ~OneOver(m, w, b)
  BY <1>1 DEF OneOver, TwoOver
<1> QED
  BY <1>2, BareIsCalm DEF MenuOk, Shape

LEMMA PolledLooks == ASSUME M!Polled PROVE Looked(state)
BY DEF M!Polled, M!DrawDue, Looked

LEMMA PressedCalm ==
  ASSUME NEW b \in Bound, MenuOk(state, b), NEW k \in M!Key, NEW o \in M!Tab \cup {"ui", "boot"}, M!Pressed(k, o)
  PROVE  Calm(state) /\ Looked(state)
<1>1. state.keys[k] = o /\ o # None /\ o \notin M!Widget
  BY MenuAssumption, MenuTabNames DEF M!Pressed, M!Widget
<1>2. \A w : OwnKeys(w)[k] \in {w, None}
  BY DEF OwnKeys
<1>3. "confirm" \in M!Widget
  BY DEF M!Widget
<1>4. Bare(state, b)
  <2>1. \A v \in M!Widget : ~OneOver(state, v, b)
    BY <1>1, <1>2 DEF OneOver
  <2>2. ~TwoOver(state, b)
    BY <1>1, <1>2, <1>3 DEF TwoOver
  <2> QED
    BY <2>1, <2>2 DEF MenuOk, Shape
<1> QED
  BY <1>4, BareIsCalm, PolledLooks DEF M!Pressed

LEMMA PressedOver ==
  ASSUME NEW b \in Bound, MenuOk(state, b), NEW k \in M!Key, NEW w \in M!Widget, M!Pressed(k, w)
  PROVE  /\ Looked(state)
         /\ OneOver(state, w, b) \/ (w = "confirm" /\ TwoOver(state, b))
<1>1. state.keys[k] = w /\ w # None /\ w \notin Owner
  BY MenuAssumption, MenuTabNames DEF M!Pressed, M!Widget, Owner
<1>2. \A v : OwnKeys(v)[k] \in {v, None}
  BY DEF OwnKeys
<1>3. ~Bare(state, b)
  BY <1>1 DEF Bare, Bound
<1>4. OneOver(state, w, b) \/ (w = "confirm" /\ TwoOver(state, b))
  <2>1. ASSUME NEW v, OneOver(state, v, b)
        PROVE  v = w
    BY <1>1, <1>2, <2>1 DEF OneOver
  <2>2. TwoOver(state, b) => w = "confirm"
    BY <1>1, <1>2 DEF TwoOver
  <2> QED
    BY <1>3, <2>1, <2>2 DEF MenuOk, Shape
<1> QED
  BY <1>4, PolledLooks DEF M!Pressed

LEMMA PushOn ==
  ASSUME NEW m \in MenuRec, Calm(m), Looked(m), NEW w \in M!Widget, w = "confirm" => m.cur = "disk"
  PROVE  m.keys \in Bound /\ MenuOk(M!Push(m, w), m.keys)
<1> DEFINE level == [by |-> w, keys |-> m.keys]
           pushed == [m EXCEPT !.levels = Append(m.levels, level), !.keys = M!NoKeys, !.open = m.open \cup {w}]
           keys == [k \in M!Key |-> IF k \in M!KeysOf(w) THEN w ELSE M!NoKeys[k]]
           n == [pushed EXCEPT !.keys = keys]
<1>1. level \in Level
  BY DEF Level, Calm, Plainly, Bound
<1>2. Append(m.levels, level) = <<level>> /\ m.open \cup {w} = {w} /\ keys = OwnKeys(w)
  BY DEF Calm, Plainly, M!NoKeys, OwnKeys
<1>3. OwnKeys(w) \in [M!Key -> Owner \cup M!Widget]
  BY DEF OwnKeys, Owner
<1>4. <<level>> \in Seq(Level) /\ {w} \in SUBSET M!Widget
  BY <1>1
<1>5. n = [m EXCEPT !.levels = <<level>>, !.open = {w}, !.keys = OwnKeys(w)]
  <2> HIDE DEF level, keys
  <2> QED
    BY <1>2 DEF MenuRec
<1>6. n \in MenuRec
  <2> HIDE DEF level, n
  <2> QED
    BY <1>3, <1>4, <1>5, ZenonT(40) DEF MenuRec
<1>7. /\ n.levels = <<level>> /\ n.open = {w} /\ n.keys = OwnKeys(w)
      /\ n.status = m.status /\ n.seen = m.seen /\ n.cur = m.cur /\ n.shown = m.shown
      /\ n.multi = m.multi /\ n.image = m.image /\ n.amiss = m.amiss /\ n.disk = m.disk /\ n.favs = m.favs /\ n.crash = m.crash
  <2> HIDE DEF level, n
  <2> QED
    BY <1>5 DEF MenuRec
<1>8. M!Push(m, w) = n
  BY DEF M!Push, M!SetHooks
<1>9. m.keys \in Bound
  BY DEF Calm, Plainly
<1>10. OneOver(n, w, m.keys)
  BY <1>7 DEF OneOver
<1>11. Stays(n) /\ OnDisks(n) /\ OneIn(n) /\ Settled(n, m.keys) /\ Looked(n) /\ BootKeys(n, m.keys)
  BY <1>7 DEF Calm, Plainly, Stays, OnDisks, OneIn, Settled, Looked, BootKeys
<1> HIDE DEF n
<1> QED
  BY <1>6, <1>8, <1>9, <1>10, <1>11 DEF MenuOk, Shape

\* All but what is open, and the keys.
Beneath(m, n) ==
    /\ n.status = m.status /\ n.seen = m.seen /\ n.cur = m.cur /\ n.shown = m.shown
    /\ n.multi = m.multi /\ n.image = m.image /\ n.amiss = m.amiss /\ n.disk = m.disk /\ n.favs = m.favs /\ n.crash = m.crash

Opened(m, levels, open, keys) == [m EXCEPT !.levels = levels, !.open = open, !.keys = keys]

LEMMA PutLevels ==
  ASSUME NEW m \in MenuRec, NEW levels \in Seq(Level), NEW open \in SUBSET M!Widget,
         NEW keys \in [M!Key -> Owner \cup M!Widget]
  PROVE  /\ Opened(m, levels, open, keys) \in MenuRec /\ Beneath(m, Opened(m, levels, open, keys))
         /\ Opened(m, levels, open, keys).levels = levels /\ Opened(m, levels, open, keys).open = open
         /\ Opened(m, levels, open, keys).keys = keys
<1> DEFINE n == Opened(m, levels, open, keys)
<1>1. n \in MenuRec
  BY ZenonT(40) DEF MenuRec, Opened
<1>2. Beneath(m, n) /\ n.levels = levels /\ n.open = open /\ n.keys = keys
  BY DEF MenuRec, Beneath, Opened
<1> QED
  BY <1>1, <1>2

LEMMA PopOne ==
  ASSUME NEW m \in MenuRec, NEW b \in Bound, NEW w \in M!Widget, MenuOk(m, b), OneOver(m, w, b)
  PROVE  Calm(M!Pop(m, w)) /\ Beneath(m, M!Pop(m, w)) /\ M!Pop(m, w).keys = b
<1> DEFINE n == Opened(m, <<>>, {}, b)
<1>1. /\ Len(m.levels) = 1 /\ SubSeq(m.levels, 1, 1 - 1) = <<>> /\ m.levels[1].keys = b
      /\ m.open \ {w} = {}
  BY DEF OneOver
<1>2. M!Pop(m, w) = n
  <2>1. M!Pop(m, w) = [m EXCEPT !.levels = SubSeq(m.levels, 1, Len(m.levels) - 1), !.open = m.open \ {w},
                                !.keys = IF Len(m.levels) = 0 THEN M!NoKeys ELSE m.levels[Len(m.levels)].keys]
    BY DEF M!Pop
  <2>2. (IF Len(m.levels) = 0 THEN M!NoKeys ELSE m.levels[Len(m.levels)].keys) = b
    BY <1>1
  <2> QED
    BY <1>1, <2>1, <2>2 DEF Opened
<1>3. /\ n \in MenuRec /\ Beneath(m, n)
      /\ n.levels = <<>> /\ n.open = {} /\ n.keys = b
  <2> DEFINE levels == <<>>
             open == {}
  <2>1. levels \in Seq(Level) /\ open \in SUBSET M!Widget /\ b \in [M!Key -> Owner \cup M!Widget]
    BY DEF Bound
  <2> HIDE DEF levels, open
  <2>2. LET r == Opened(m, levels, open, b)
        IN r \in MenuRec /\ Beneath(m, r) /\ r.levels = levels /\ r.open = open /\ r.keys = b
    BY <2>1, PutLevels
  <2> QED
    BY <2>2 DEF levels, open
<1> HIDE DEF n
<1>4. Calm(n)
  BY <1>3 DEF MenuOk, Calm, Plainly, Stays, OnDisks, OneIn, Settled, BootKeys, Beneath
<1> QED
  BY <1>2, <1>3, <1>4

LEMMA PopTwo ==
  ASSUME NEW m \in MenuRec, NEW b \in Bound, MenuOk(m, b), TwoOver(m, b)
  PROVE  LET n == M!Pop(m, "confirm")
         IN n \in MenuRec /\ MenuOk(n, b) /\ OneOver(n, "combo", b) /\ Beneath(m, n)
<1> DEFINE level == [by |-> "combo", keys |-> b]
           n == Opened(m, <<level>>, {"combo"}, OwnKeys("combo"))
<1>1. /\ Len(m.levels) = 2 /\ SubSeq(m.levels, 1, 2 - 1) = <<level>>
      /\ m.levels[2].keys = OwnKeys("combo") /\ m.open \ {"confirm"} = {"combo"}
  <2> DEFINE asks == [by |-> "confirm", keys |-> OwnKeys("combo")]
  <2>1. m.levels = <<level, asks>> /\ m.open = {"combo", "confirm"}
    BY DEF TwoOver
  <2>2. asks.keys = OwnKeys("combo")
    OBVIOUS
  <2> HIDE DEF level, asks
  <2>3. Len(m.levels) = 2 /\ m.levels[2] = asks
    BY <2>1
  <2>4. SubSeq(<<level, asks>>, 1, 1) = <<level>>
    <3>1. <<level, asks>> \in Seq({level, asks}) /\ Len(<<level, asks>>) = 2
      OBVIOUS
    <3>2. SubSeq(<<level, asks>>, 1, 1) \in Seq({level, asks}) /\ Len(SubSeq(<<level, asks>>, 1, 1)) = 1
      BY <3>1
    <3>3. SubSeq(<<level, asks>>, 1, 1)[1] = level
      BY <3>1
    <3>4. <<level>> \in Seq({level, asks}) /\ Len(<<level>>) = 1 /\ <<level>>[1] = level
      OBVIOUS
    <3> DEFINE Two == {level, asks}
               s == SubSeq(<<level, asks>>, 1, 1)
               one == <<level>>
    <3>5. s \in Seq(Two) /\ one \in Seq(Two) /\ Len(s) = Len(one) /\ \A i \in 1 .. Len(s) : s[i] = one[i]
      BY <3>2, <3>3, <3>4
    <3> HIDE DEF Two, s, one
    <3>6. s = one
      BY <3>5, SeqEqual
    <3> QED
      BY <3>6 DEF s, one
  <2>5. m.open \ {"confirm"} = {"combo"}
    BY <2>1
  <2> QED
    BY <2>1, <2>2, <2>3, <2>4, <2>5
<1>2. M!Pop(m, "confirm") = n
  <2>1. M!Pop(m, "confirm") =
          [m EXCEPT !.levels = SubSeq(m.levels, 1, Len(m.levels) - 1), !.open = m.open \ {"confirm"},
                    !.keys = IF Len(m.levels) = 0 THEN M!NoKeys ELSE m.levels[Len(m.levels)].keys]
    BY DEF M!Pop
  <2>2. (IF Len(m.levels) = 0 THEN M!NoKeys ELSE m.levels[Len(m.levels)].keys) = OwnKeys("combo")
    BY <1>1
  <2> HIDE DEF level
  <2> QED
    BY <1>1, <2>1, <2>2 DEF Opened
<1>3. "combo" \in M!Widget /\ level \in Level /\ OwnKeys("combo") \in [M!Key -> Owner \cup M!Widget]
  BY DEF M!Widget, Level, Bound, OwnKeys, Owner
<1>4. <<level>> \in Seq(Level) /\ {"combo"} \in SUBSET M!Widget
  BY <1>3
<1>5. /\ n \in MenuRec /\ Beneath(m, n)
      /\ n.levels = <<level>> /\ n.open = {"combo"} /\ n.keys = OwnKeys("combo")
  <2> DEFINE levels == <<level>>
             open == {"combo"}
             keys == OwnKeys("combo")
  <2>1. levels \in Seq(Level) /\ open \in SUBSET M!Widget /\ keys \in [M!Key -> Owner \cup M!Widget]
    BY <1>3, <1>4
  <2> HIDE DEF levels, open, keys
  <2>2. LET r == Opened(m, levels, open, keys)
        IN r \in MenuRec /\ Beneath(m, r) /\ r.levels = levels /\ r.open = open /\ r.keys = keys
    BY <2>1, PutLevels
  <2> QED
    BY <2>2 DEF levels, open, keys
<1>6. m.levels # <<>>
  BY DEF TwoOver
<1> HIDE DEF n
<1>7. OneOver(n, "combo", b)
  BY <1>5 DEF OneOver
<1>8. Stays(n) /\ OnDisks(n) /\ OneIn(n) /\ Settled(n, b) /\ BootKeys(n, b) /\ Looked(n)
  BY <1>5, <1>6 DEF MenuOk, Stays, OnDisks, OneIn, Settled, BootKeys, Beneath, Looked
<1>9. MenuOk(n, b)
  BY <1>3, <1>5, <1>7, <1>8 DEF MenuOk, Shape
<1> QED
  BY <1>2, <1>5, <1>7, <1>9

\* A question over a list.
LEMMA AskOn ==
  ASSUME NEW m \in MenuRec, NEW b \in Bound, MenuOk(m, b), OneOver(m, "combo", b), m.cur = "state"
  PROVE  MenuOk(M!Push(m, "confirm"), b)
<1> DEFINE list == [by |-> "combo", keys |-> b]
           asks == [by |-> "confirm", keys |-> OwnKeys("combo")]
           keys == [k \in M!Key |-> IF k \in M!KeysOf("confirm") THEN "confirm" ELSE M!NoKeys[k]]
           pushed == [m EXCEPT !.levels = Append(m.levels, [by |-> "confirm", keys |-> m.keys]),
                               !.keys = M!NoKeys, !.open = m.open \cup {"confirm"}]
           levels == <<list, asks>>
           open == {"combo", "confirm"}
           own == OwnKeys("confirm")
           n == Opened(m, levels, open, own)
<1>1. m.levels = <<list>> /\ m.keys = OwnKeys("combo") /\ m.open = {"combo"}
  BY DEF OneOver
<1>2. {"combo", "confirm"} \subseteq M!Widget
  BY DEF M!Widget
<1>3. OwnKeys("combo") \in [M!Key -> Owner \cup M!Widget] /\ own \in [M!Key -> Owner \cup M!Widget]
  BY <1>2 DEF OwnKeys, Owner
<1>4. list \in Level /\ asks \in Level
  BY <1>2, <1>3 DEF Level, Bound
<1>5. levels \in Seq(Level) /\ open \in SUBSET M!Widget
  <2> HIDE DEF list, asks
  <2> QED
    BY <1>2, <1>4
<1>6. Append(m.levels, [by |-> "confirm", keys |-> m.keys]) = levels
  <2>1. [by |-> "confirm", keys |-> m.keys] = asks
    BY <1>1
  <2> HIDE DEF list, asks
  <2>2. Append(<<list>>, asks) = <<list, asks>>
    <3> DEFINE Two == {list, asks}
               s == Append(<<list>>, asks)
               two == <<list, asks>>
    <3>1. <<list>> \in Seq(Two) /\ Len(<<list>>) = 1 /\ <<list>>[1] = list
      OBVIOUS
    <3>2. s \in Seq(Two) /\ Len(s) = 2 /\ s[1] = list /\ s[2] = asks
      BY <3>1
    <3>3. two \in Seq(Two) /\ Len(two) = 2 /\ two[1] = list /\ two[2] = asks
      OBVIOUS
    <3> HIDE DEF Two, s, two
    <3>4. \A i \in 1 .. Len(s) : s[i] = two[i]
      BY <3>2, <3>3
    <3>5. s = two
      BY <3>2, <3>3, <3>4, SeqEqual
    <3> QED
      BY <3>5 DEF s, two
  <2> QED
    BY <1>1, <2>1, <2>2
<1>7. keys = own /\ m.open \cup {"confirm"} = open
  BY <1>1 DEF M!NoKeys, OwnKeys
<1>8. M!Push(m, "confirm") = [pushed EXCEPT !.keys = keys]
  BY DEF M!Push, M!SetHooks
<1>9. [pushed EXCEPT !.keys = keys] = n
  <2> HIDE DEF levels, open, own, keys
  <2> QED
    BY <1>6, <1>7 DEF Opened, MenuRec
<1> HIDE DEF levels, open, own
<1>10. /\ n \in MenuRec /\ Beneath(m, n)
       /\ n.levels = levels /\ n.open = open /\ n.keys = own
  BY <1>3, <1>5, PutLevels
<1> HIDE DEF n
<1>11. TwoOver(n, b)
  BY <1>10 DEF TwoOver, levels, open, own, Beneath
<1>12. m.levels # <<>>
  BY <1>1
<1>13. Stays(n) /\ OnDisks(n) /\ OneIn(n) /\ Settled(n, b) /\ BootKeys(n, b) /\ Looked(n)
  BY <1>10, <1>12 DEF MenuOk, Stays, OnDisks, OneIn, Settled, BootKeys, Beneath, Looked
<1> QED
  BY <1>8, <1>9, <1>10, <1>11, <1>13 DEF MenuOk, Shape

LEMMA StatusOn ==
  ASSUME NEW m, Calm(m), m.status = m.seen, NEW s \in MenuStatus, s # "boot", s # m.seen,
         m.cur = "disk" => m.multi \/ s = "ui"
  PROVE  Calm([m EXCEPT !.status = s])
<1> DEFINE n == [m EXCEPT !.status = s]
<1>1. m \in MenuRec
  BY DEF Calm, Plainly
<1>2. n \in MenuRec
  BY <1>1, ZenonT(40) DEF MenuRec
<1>3. /\ n.status = s /\ n.seen = m.seen /\ n.cur = m.cur /\ n.shown = m.shown /\ n.keys = m.keys
      /\ n.levels = m.levels /\ n.open = m.open /\ n.multi = m.multi /\ n.image = m.image /\ n.amiss = m.amiss
      /\ n.disk = m.disk /\ n.favs = m.favs /\ n.crash = m.crash
  BY <1>1 DEF MenuRec
<1> HIDE DEF n
<1>4. Calm(n)
  BY <1>2, <1>3 DEF Calm, Plainly, Stays, OnDisks, OneIn, Settled, BootKeys
<1> QED
  BY <1>4 DEF n

LEMMA UnloadedOn == ASSUME NEW m, Calm(m), m.seen # "ui" PROVE Calm(M!Unloaded(m))
<1> DEFINE n == [m EXCEPT !.status = "ui", !.multi = FALSE]
<1>1. m \in MenuRec
  BY DEF Calm, Plainly
<1>2. n \in MenuRec
  BY <1>1, ZenonT(40) DEF MenuRec, MenuStatus
<1>3. /\ n.status = "ui" /\ n.seen = m.seen /\ n.cur = m.cur /\ n.shown = m.shown /\ n.keys = m.keys
      /\ n.levels = m.levels /\ n.open = m.open /\ n.multi = FALSE /\ n.image = m.image /\ n.amiss = m.amiss
      /\ n.disk = m.disk /\ n.favs = m.favs /\ n.crash = m.crash
  BY <1>1 DEF MenuRec
<1>4. M!Unloaded(m) = n
  BY DEF M!Unloaded
<1> HIDE DEF n
<1> QED
  BY <1>2, <1>3, <1>4 DEF Calm, Plainly, Stays, OnDisks, OneIn, Settled, BootKeys

LEMMA FavsOn == ASSUME NEW m, Calm(m), NEW f \in BOOLEAN PROVE Calm([m EXCEPT !.favs = f])
<1> DEFINE n == [m EXCEPT !.favs = f]
<1>1. m \in MenuRec
  BY DEF Calm, Plainly
<1>2. n \in MenuRec
  BY <1>1, ZenonT(40) DEF MenuRec
<1>3. /\ n.status = m.status /\ n.seen = m.seen /\ n.cur = m.cur /\ n.shown = m.shown /\ n.keys = m.keys
      /\ n.levels = m.levels /\ n.open = m.open /\ n.multi = m.multi /\ n.image = m.image /\ n.amiss = m.amiss
      /\ n.disk = m.disk /\ n.favs = f /\ n.crash = m.crash
  BY <1>1 DEF MenuRec
<1> HIDE DEF n
<1>4. Calm(n)
  BY <1>2, <1>3 DEF Calm, Plainly, Stays, OnDisks, OneIn, Settled, BootKeys
<1> QED
  BY <1>4 DEF n

LEMMA UnsetCalm ==
  ASSUME NEW m, Calm(m), NEW o, m.status # m.seen, m.status # "boot"
  PROVE  Calm(M!UnsetHooks(m, o))
<1>1. Plainly(M!UnsetHooks(m, o)) /\ SameTab(m, M!UnsetHooks(m, o)) /\ NoBoots(m, M!UnsetHooks(m, o))
  BY UnsetHooksOn DEF Calm, Plainly
<1> QED
  BY <1>1 DEF Calm, OnDisks, OneIn, Settled, BootKeys, NoBoots, SameTab, Alike

LEMMA RebuildCalm == ASSUME NEW m, Calm(m), NEW t \in M!Tab PROVE Calm(M!Rebuild(m, t))
<1>1. /\ Plainly(M!Rebuild(m, t)) /\ SameTab(m, M!Rebuild(m, t)) /\ NoBoots(m, M!Rebuild(m, t))
      /\ m.keys["enter"] = m.cur => M!Rebuild(m, t).keys["enter"] = m.cur
      /\ m.keys["enter"] = "boot" => M!Rebuild(m, t).keys["enter"] \in {"boot", m.cur}
  BY RebuildOn DEF Calm, Plainly
<1> QED
  BY <1>1 DEF Calm, OnDisks, OneIn, Settled, BootKeys, NoBoots, SameTab, Alike

LEMMA TurnCalm ==
  ASSUME NEW m, Plainly(m), OneIn(m), BootKeys(m, m.keys), NEW t \in m.shown, m.cur = "disk" => m.disk # None,
         m.status = m.seen, m.seen # "run", m.multi <=> m.disk # None
  PROVE  Calm(M!TurnTo(m, t))
<1>1. m \in MenuRec /\ t \in M!Tab
  BY DEF Plainly, MenuRec
<1>2. /\ Plainly(M!TurnTo(m, t)) /\ Alike(m, M!TurnTo(m, t)) /\ NoBoots(m, M!TurnTo(m, t))
      /\ M!TurnTo(m, t).cur = t /\ M!TurnTo(m, t).keys["enter"] = t
  BY <1>1, TurnToOn
<1> QED
  BY <1>2 DEF Calm, Plainly, Stays, OnDisks, OneIn, Settled, BootKeys, NoBoots, Alike

LEMMA NoDiskOn ==
  ASSUME NEW m, Plainly(m)
  PROVE  LET n == M!NoDisk(m)
         IN /\ Plainly(n) /\ NoBoots(m, n) /\ n.disk = None /\ n.multi = m.multi
            /\ n.status = m.status /\ n.seen = m.seen /\ n.cur = m.cur
<1> DEFINE f == M!FreeTab(m, "disk")
           n == [f EXCEPT !.disk = None, !.shown = f.shown \ {"disk"}]
<1>1. Plainly(f) /\ f \in MenuRec /\ SameTab(m, f) /\ NoBoots(m, f)
  BY FreeTabOn DEF Plainly
<1> HIDE DEF f
<1>2. f.shown \ {"disk"} \in SUBSET M!Tab
  BY <1>1 DEF MenuRec
<1>3. n \in MenuRec
  BY <1>1, <1>2, ZenonT(40) DEF MenuRec
<1>4. /\ n.status = f.status /\ n.seen = f.seen /\ n.cur = f.cur /\ n.shown = f.shown \ {"disk"}
      /\ n.keys = f.keys /\ n.levels = f.levels /\ n.open = f.open /\ n.multi = f.multi
      /\ n.disk = None /\ n.crash = f.crash
  BY <1>1 DEF MenuRec
<1>5. M!NoDisk(m) = n
  BY DEF M!NoDisk, f
<1> HIDE DEF n
<1>6. Plainly(n)
  BY <1>1, <1>3, <1>4 DEF Plainly, Stays
<1> QED
  BY <1>1, <1>4, <1>5, <1>6 DEF SameTab, Alike, NoBoots

LEMMA UpdateDiskOn ==
  ASSUME NEW m, Plainly(m), m.multi
  PROVE  LET n == M!UpdateDiskOptions(m)
         IN /\ Plainly(n) /\ NoBoots(m, n) /\ n.disk # None /\ n.multi /\ OneIn(n)
            /\ n.status = m.status /\ n.seen = m.seen /\ n.cur = m.cur
<1> DEFINE d == [marked |-> {m.image}, current |-> m.image]
           n == [m EXCEPT !.disk = d, !.amiss = FALSE, !.shown = m.shown \cup {"disk"}]
<1>1. m \in MenuRec
  BY DEF Plainly
<1>2. d \in Disk /\ d # None /\ d.marked = {m.image} /\ d.current = m.image
  BY <1>1, MenuAssumption DEF Disk, MenuRec
<1> HIDE DEF d
<1>3. m.shown \cup {"disk"} \in SUBSET M!Tab
  BY <1>1, MenuTabNames DEF MenuRec
<1>4. n \in MenuRec
  BY <1>1, <1>2, <1>3, ZenonT(40) DEF MenuRec
<1>5. /\ n.status = m.status /\ n.seen = m.seen /\ n.cur = m.cur /\ n.shown = m.shown \cup {"disk"}
      /\ n.keys = m.keys /\ n.levels = m.levels /\ n.open = m.open /\ n.multi = m.multi
      /\ n.image = m.image /\ ~n.amiss /\ n.disk = d /\ n.crash = m.crash
  BY <1>1 DEF MenuRec
<1>6. M!UpdateDiskOptions(m) = M!Rebuild(n, "disk")
  BY DEF M!UpdateDiskOptions, d
<1> HIDE DEF n
<1>7. Plainly(n)
  BY <1>2, <1>4, <1>5 DEF Plainly, Stays
<1>8. Plainly(M!Rebuild(n, "disk")) /\ SameTab(n, M!Rebuild(n, "disk")) /\ NoBoots(n, M!Rebuild(n, "disk"))
  BY <1>4, <1>7, RebuildOn, MenuTabNames
<1>9. NoBoots(m, M!Rebuild(n, "disk"))
  BY <1>5, <1>8 DEF NoBoots
<1> QED
  BY <1>2, <1>5, <1>6, <1>8, <1>9 DEF SameTab, Alike, OneIn

LEMMA ArrangedOn ==
  ASSUME NEW m, Plainly(m), OneIn(m), OnDisks(m), m.status \in {"ui", "menu"}, NEW slots
  PROVE  LET n == M!Arranged(m, slots)
         IN /\ Plainly(n) /\ NoBoots(m, n) /\ (m.status = "ui" => n.cur = "browser" /\ "browser" \in n.shown)
            /\ OneIn(n) /\ (n.cur = "disk" => n.disk # None)
            /\ (n.multi <=> n.disk # None)
            /\ n.status = m.status /\ n.seen = m.seen
<1> DEFINE disk == IF m.multi = (m.disk # None) THEN m
                   ELSE IF m.multi THEN M!UpdateDiskOptions(m) ELSE M!NoDisk(m)
           shown == (disk.shown \ {"state", "browser", "favorite"})
                      \cup (IF m.status = "menu" THEN (IF slots THEN {"state"} ELSE {})
                                                 ELSE {"browser", "favorite"})
           cur == IF m.status = "menu" THEN disk.cur ELSE "browser"
           keys == [disk.keys EXCEPT !["menu"] = IF m.status = "menu" THEN "ui" ELSE None]
           n == [disk EXCEPT !.shown = shown, !.cur = cur, !.keys = keys]
<1>1. /\ Plainly(disk) /\ NoBoots(m, disk) /\ OneIn(disk) /\ (disk.multi <=> disk.disk # None)
      /\ disk.status = m.status /\ disk.seen = m.seen /\ disk.cur = m.cur
      /\ (m.status = "menu" /\ m.cur = "disk" => disk.disk # None)
  <2>1. m.multi \in BOOLEAN
    BY DEF Plainly, MenuRec
  <2>2. CASE m.multi = (m.disk # None)
    BY <2>1, <2>2 DEF OnDisks, NoBoots
  <2>3. CASE m.multi # (m.disk # None) /\ m.multi
    BY <2>3, UpdateDiskOn
  <2>4. CASE m.multi # (m.disk # None) /\ ~m.multi
    BY <2>1, <2>4, NoDiskOn DEF OnDisks, OneIn
  <2> QED
    BY <2>1, <2>2, <2>3, <2>4
<1>2. M!Arranged(m, slots) = n
  BY DEF M!Arranged
<1> HIDE DEF disk
<1>3. disk \in MenuRec
  BY <1>1 DEF Plainly
<1>4. shown \in SUBSET M!Tab /\ cur \in M!Tab
  BY <1>3, MenuTabNames DEF MenuRec
<1>5. keys \in Bound
  BY <1>1 DEF Plainly, Bound, Owner
<1>6. keys \in [M!Key -> Owner \cup M!Widget]
  BY <1>5 DEF Bound
<1>7. {"system", "control", "core", "options"} \subseteq shown /\ ("disk" \in shown <=> "disk" \in disk.shown)
  BY <1>1 DEF Plainly, Stays
<1>8. (cur = "disk" => disk.disk # None) /\ (m.status = "ui" => cur = "browser" /\ "browser" \in shown)
  BY <1>1
<1>13. \A k \in M!Key : keys[k] = "boot" => disk.keys[k] = "boot"
  BY <1>1, MenuAssumption DEF Plainly, Bound
<1> HIDE DEF shown, cur, keys
<1>9. n \in MenuRec
  BY <1>3, <1>4, <1>6, ZenonT(40) DEF MenuRec
<1>10. /\ n.status = disk.status /\ n.seen = disk.seen /\ n.cur = cur /\ n.shown = shown /\ n.keys = keys
       /\ n.levels = disk.levels /\ n.open = disk.open /\ n.multi = disk.multi /\ n.image = disk.image /\ n.amiss = disk.amiss
       /\ n.disk = disk.disk /\ n.crash = disk.crash
  BY <1>3 DEF MenuRec
<1> HIDE DEF n
<1>11. Plainly(n)
  BY <1>1, <1>5, <1>7, <1>9, <1>10 DEF Plainly, Stays
<1>12. OneIn(n)
  BY <1>1, <1>10 DEF OneIn
<1> QED
  BY <1>1, <1>2, <1>8, <1>10, <1>11, <1>12, <1>13 DEF NoBoots

\* A game started, in a menu whose tabs were made anew or not.
Begun(m, multi, s) ==
    LET d == [m EXCEPT !.multi = multi, !.image = 0, !.status = s]
    IN [(IF multi THEN M!UpdateDiskOptions(d) ELSE d) EXCEPT !.cur = "state"]

LEMMA StartedCalm ==
  ASSUME NEW m, Plainly(m), NEW multi \in BOOLEAN, NEW s \in {"run", "menu"}, s # m.seen,
         m.status = m.seen, BootKeys(m, m.keys)
  PROVE  Calm(Begun(m, multi, s)) /\ Begun(m, multi, s).status = s /\ Begun(m, multi, s).seen = m.seen
<1> DEFINE d == [m EXCEPT !.multi = multi, !.image = 0, !.status = s]
           e == IF multi THEN M!UpdateDiskOptions(d) ELSE d
           n == [e EXCEPT !.cur = "state"]
<1>1. m \in MenuRec /\ s \in MenuStatus
  BY DEF Plainly, MenuStatus
<1>2. d \in MenuRec
  BY <1>1, MenuAssumption, ZenonT(40) DEF MenuRec
<1>3. /\ d.status = s /\ d.seen = m.seen /\ d.cur = m.cur /\ d.shown = m.shown /\ d.keys = m.keys
      /\ d.levels = m.levels /\ d.open = m.open /\ d.multi = multi
      /\ d.disk = m.disk /\ d.crash = m.crash
  BY <1>1 DEF MenuRec
<1> HIDE DEF d
<1>4. Plainly(d)
  BY <1>2, <1>3 DEF Plainly, Stays
<1>5. Plainly(e) /\ OneIn(e) /\ NoBoots(m, e) /\ e.status = s /\ e.seen = m.seen
  <2>1. CASE multi
    <3>1. d.multi
      BY <1>3, <2>1
    <3> QED
      BY <1>3, <1>4, <2>1, <3>1, UpdateDiskOn DEF NoBoots
  <2>2. CASE ~multi
    BY <1>3, <1>4, <2>2 DEF OneIn, NoBoots
  <2> QED
    BY <2>1, <2>2
<1> HIDE DEF e
<1>6. e \in MenuRec /\ "state" \in M!Tab
  BY <1>5, MenuTabNames DEF Plainly
<1>7. n \in MenuRec
  BY <1>6, ZenonT(40) DEF MenuRec
<1>8. /\ n.status = e.status /\ n.seen = e.seen /\ n.cur = "state" /\ n.shown = e.shown /\ n.keys = e.keys
      /\ n.levels = e.levels /\ n.open = e.open /\ n.multi = e.multi /\ n.image = e.image /\ n.amiss = e.amiss
      /\ n.disk = e.disk /\ n.crash = e.crash
  BY <1>6 DEF MenuRec
<1> HIDE DEF n
<1>9. Calm(n)
  BY <1>5, <1>7, <1>8 DEF Calm, Plainly, Stays, OnDisks, OneIn, Settled, BootKeys, NoBoots
<1> QED
  BY <1>5, <1>8, <1>9 DEF n, e, d, Begun

LEMMA LoadsKeep ==
  ASSUME Calm(state), Looked(state), NEW t \in M!Tab, M!Loads(t)
  PROVE  Calm(state')
<1> DEFINE built == {state} \cup { M!Rebuild(state, o) : o \in {"core", "control"} }
<1>1. \A m \in built : Calm(m) /\ SameTab(state, m)
  <2>1. \A o \in {"core", "control"} : Calm(M!Rebuild(state, o)) /\ SameTab(state, M!Rebuild(state, o))
    BY RebuildCalm, RebuildOn, MenuTabNames DEF Calm, Plainly
  <2> QED
    BY <2>1 DEF SameTab, Alike
<1>2. CASE \E m \in built, multi \in BOOLEAN, s \in {"run", "menu"} :
             /\ s # state.seen
             /\ state' = Begun(m, multi, s) \/ state' = M!UnsetHooks(Begun(m, multi, s), t)
  <2>1. PICK m \in built, multi \in BOOLEAN, s \in {"run", "menu"} :
               /\ s # state.seen
               /\ state' = Begun(m, multi, s) \/ state' = M!UnsetHooks(Begun(m, multi, s), t)
    BY <1>2
  <2>2. Plainly(m) /\ m.seen = state.seen /\ m.status = m.seen /\ BootKeys(m, m.keys)
    BY <1>1 DEF SameTab, Alike, Calm, Looked
  <2>3. Calm(Begun(m, multi, s)) /\ Begun(m, multi, s).status = s /\ Begun(m, multi, s).seen = state.seen
    BY <2>1, <2>2, StartedCalm
  <2> QED
    BY <2>1, <2>3, UnsetCalm
<1>3. CASE \E m \in built : state' = M!SetHooks([m EXCEPT !.status = "boot"], "boot")
  <2>1. PICK m \in built : state' = M!SetHooks([m EXCEPT !.status = "boot"], "boot")
    BY <1>3
  <2> DEFINE n == [m EXCEPT !.status = "boot"]
  <2>2. Calm(m) /\ SameTab(state, m) /\ m \in MenuRec
    BY <1>1 DEF Calm, Plainly
  <2>3. n \in MenuRec
    BY <2>2, ZenonT(40) DEF MenuRec, MenuStatus
  <2>4. /\ n.status = "boot" /\ n.seen = m.seen /\ n.cur = m.cur /\ n.shown = m.shown /\ n.keys = m.keys
        /\ n.levels = m.levels /\ n.open = m.open /\ n.multi = m.multi /\ n.image = m.image /\ n.amiss = m.amiss
        /\ n.disk = m.disk /\ n.favs = m.favs /\ n.crash = m.crash
    BY <2>2 DEF MenuRec
  <2>5. state' = M!SetHooks(n, "boot")
    BY <2>1
  <2> HIDE DEF n
  <2>6. Plainly(n)
    BY <2>2, <2>3, <2>4 DEF Calm, Plainly, Stays
  <2>7. m.status = m.seen /\ m.seen # "run"
    BY <2>2 DEF Looked, SameTab, Alike
  <2>8. OnDisks(n) /\ OneIn(n) /\ (n.multi <=> n.disk # None)
    BY <2>2, <2>4, <2>7 DEF Calm, OnDisks, OneIn, Settled, BootKeys
  <2>9. /\ Plainly(state') /\ SameTab(n, state')
        /\ state'.keys = [k \in M!Key |-> IF k \in M!KeysOf("boot") THEN "boot" ELSE n.keys[k]]
    BY <2>3, <2>5, <2>6, SetHooksOn DEF Owner
  <2>10. BootKeys(state', state'.keys)
    BY <2>2, <2>4, <2>9 DEF Calm, BootKeys, M!KeysOf, SameTab, Alike
  <2>11. state'.keys["enter"] = "boot"
    BY <2>9, MenuKeys DEF M!Key
  <2> QED
    BY <2>4, <2>8, <2>9, <2>10, <2>11 DEF Calm, OnDisks, OneIn, Settled, SameTab, Alike
<1>4. CASE state' = [state EXCEPT !.status = "ui"]
  <2>1. CASE state.seen = "ui"
    <3>1. state' = state
      BY <1>4, <2>1 DEF Looked, Calm, Plainly, MenuRec
    <3> QED
      BY <3>1 DEF Calm, Plainly, Stays, OnDisks, OneIn, Settled, BootKeys
  <2>2. CASE state.seen # "ui"
    BY <1>4, <2>2, StatusOn DEF MenuStatus, Looked
  <2> QED
    BY <2>1, <2>2
<1>5. CASE UNCHANGED state
  BY <1>5 DEF Calm, Plainly, Stays, OnDisks, OneIn, Settled, BootKeys
<1> QED
  BY <1>2, <1>3, <1>4, <1>5, ZenonT(60) DEF M!Loads, Begun

LEMMA ObserveKeeps == ASSUME Calm(state), M!Observe PROVE Calm(state')
<1> DEFINE m == [state EXCEPT !.seen = state.status]
<1>1. state \in MenuRec
  BY DEF Calm, Plainly
<1>2. m \in MenuRec
  <2>1. state.status \in MenuStatus
    BY <1>1 DEF MenuRec
  <2> QED
    BY <1>1, <2>1, ZenonT(40) DEF MenuRec
<1>3. /\ m.status = state.status /\ m.seen = state.status /\ m.cur = state.cur /\ m.shown = state.shown
      /\ m.keys = state.keys /\ m.levels = state.levels /\ m.open = state.open /\ m.multi = state.multi
      /\ m.image = state.image /\ m.amiss = state.amiss /\ m.disk = state.disk /\ m.favs = state.favs /\ m.crash = state.crash
  BY <1>1 DEF MenuRec
<1>4. PICK slots \in BOOLEAN : state' = M!OnStatusChanged(m, slots)
  BY DEF M!Observe
<1> HIDE DEF m
<1>5. Plainly(m) /\ OneIn(m) /\ OnDisks(m)
  BY <1>2, <1>3 DEF Calm, Plainly, Stays, OneIn, OnDisks
<1>6. CASE m.status \in {"ui", "menu"}
  <2> DEFINE a == M!Arranged(m, slots)
  <2>1. /\ Plainly(a) /\ NoBoots(m, a) /\ (a.status = "ui" => a.cur = "browser" /\ "browser" \in a.shown)
        /\ OneIn(a) /\ (a.cur = "disk" => a.disk # None)
        /\ (a.multi <=> a.disk # None)
        /\ a.status = m.status /\ a.seen = m.seen
    BY <1>5, <1>6, ArrangedOn
  <2>2. state' = M!SetInputHooks(a)
    BY <1>4, <1>6 DEF M!OnStatusChanged
  <2> HIDE DEF a
  <2>3. a \in MenuRec
    BY <2>1 DEF Plainly
  <2>4. /\ Plainly(state') /\ Alike(a, state') /\ state'.cur \in a.shown
        /\ NoBoots(a, state')
        /\ a.cur \in a.shown => state'.cur = a.cur
        /\ \A k \in M!Key \cap M!KeysOf(state'.cur) : state'.keys[k] = state'.cur
    BY <2>1, <2>2, <2>3, SetInputHooksOn
  <2>5. state'.keys["enter"] = state'.cur
    <3>1. state'.cur \in M!Tab /\ "enter" \in M!Key
      BY <2>4 DEF Plainly, MenuRec, M!Key
    <3> QED
      BY <2>4, <3>1, MenuKeys
  <2>6. \A k \in M!Key : state'.keys[k] = "boot" => state.keys[k] = "boot"
    BY <1>3, <2>1, <2>4 DEF NoBoots
  <2>7. state'.status = "ui" => \A k \in {"enter", "cancel", "square"} : state'.keys[k] = "browser"
    <3>1. {"enter", "cancel", "square"} \subseteq M!Key \cap M!KeysOf("browser")
      BY DEF M!KeysOf, M!Key
    <3> QED
      BY <2>1, <2>4, <3>1 DEF Alike
  <2>8. BootKeys(state', state'.keys)
    BY <2>6, <2>7, <1>3, <2>1, <2>4 DEF Calm, BootKeys, Alike
  <2> QED
    BY <1>3, <2>1, <2>4, <2>5, <2>8 DEF Calm, Plainly, Stays, OnDisks, OneIn, Settled, Alike
<1>7. CASE m.status \notin {"ui", "menu"}
  <2>1. state' = m
    BY <1>4, <1>7 DEF M!OnStatusChanged
  <2>2. m.status \in {"boot", "run"}
    BY <1>2, <1>7 DEF MenuRec, MenuStatus
  <2>3. Settled(m, m.keys) /\ BootKeys(m, m.keys)
    BY <1>3, <2>2 DEF Calm, Settled, BootKeys
  <2> QED
    BY <1>5, <2>1, <2>3 DEF Calm
<1> QED
  BY <1>6, <1>7

LEMMA DrawKeeps == ASSUME Calm(state), M!Draw PROVE Calm(state')
<1> DEFINE shown == IF state.favs THEN state.shown \cup {"favorite"} ELSE state.shown \ {"favorite"}
           m == [state EXCEPT !.shown = shown]
<1>1. state \in MenuRec
  BY DEF Calm, Plainly
<1>2. shown \in SUBSET M!Tab /\ {"system", "control", "core", "options"} \subseteq shown
  BY <1>1, MenuTabNames DEF Calm, Plainly, Stays, MenuRec
<1>3. "disk" \in shown <=> "disk" \in state.shown
  OBVIOUS
<1>4. (~state.favs /\ state.cur = "favorite") \/ (state.cur \in state.shown => state.cur \in shown)
  BY <1>1 DEF MenuRec
<1>5. state' = IF ~m.favs /\ m.cur = "favorite" THEN M!TurnTo(m, M!Before(m)) ELSE m
  BY DEF M!Draw
<1>6. state.status = state.seen /\ state.seen \in {"ui", "menu"}
  BY DEF M!Draw, M!DrawDue
<1> HIDE DEF shown
<1>7. m \in MenuRec
  BY <1>1, <1>2, ZenonT(40) DEF MenuRec
<1>8. /\ m.status = state.status /\ m.seen = state.seen /\ m.cur = state.cur /\ m.shown = shown
      /\ m.keys = state.keys /\ m.levels = state.levels /\ m.open = state.open /\ m.multi = state.multi
      /\ m.image = state.image /\ m.amiss = state.amiss /\ m.disk = state.disk /\ m.favs = state.favs /\ m.crash = state.crash
  BY <1>1 DEF MenuRec
<1> HIDE DEF m
<1>9. Plainly(m) /\ OneIn(m) /\ OnDisks(m) /\ BootKeys(m, m.keys)
  BY <1>2, <1>3, <1>7, <1>8 DEF Calm, Plainly, Stays, OneIn, OnDisks, BootKeys
<1>10. m.multi <=> m.disk # None
  BY <1>6, <1>8 DEF Calm, Settled
<1>11. CASE ~m.favs /\ m.cur = "favorite"
  <2>1. M!Before(m) \in m.shown
    BY <1>7, <1>9, TurnsAreShown
  <2> QED
    BY <1>5, <1>6, <1>8, <1>9, <1>10, <1>11, <2>1, TurnCalm
<1>12. CASE ~(~m.favs /\ m.cur = "favorite")
  <2>1. Settled(m, m.keys)
    BY <1>4, <1>6, <1>8, <1>10, <1>12 DEF Calm, Settled
  <2> QED
    BY <1>5, <1>9, <1>12, <2>1 DEF Calm
<1> QED
  BY <1>11, <1>12

LEMMA ReplacedCalm ==
  ASSUME NEW m, Calm(m), m.disk # None, NEW i \in Image \ m.disk.marked, NEW set \in BOOLEAN
  PROVE  Calm(M!Insert(M!Replaced(m, i, set, TRUE), i)) /\ Calm(M!Replaced(m, i, set, FALSE))
<1>1. m \in MenuRec /\ m.disk \in Disk
  BY DEF Calm, Plainly, MenuRec
<1> DEFINE Now(r, image, amiss, disk) ==
               /\ r \in MenuRec
               /\ r.status = m.status /\ r.seen = m.seen /\ r.cur = m.cur /\ r.shown = m.shown
               /\ r.keys = m.keys /\ r.levels = m.levels /\ r.open = m.open /\ r.multi = m.multi
               /\ r.image = image /\ r.amiss = amiss /\ r.disk = disk /\ r.crash = m.crash
<1>2. ASSUME NEW r, NEW image, NEW amiss, NEW disk, Now(r, image, amiss, disk), disk # None,
             m.multi => disk.marked = {disk.current} /\ (~amiss => disk.current = image)
      PROVE  Calm(r)
  BY <1>2 DEF Calm, Plainly, Stays, OnDisks, OneIn, Settled, BootKeys
<1>3. ASSUME NEW closed \in BOOLEAN
      PROVE  Now(M!Replaced(m, i, set, closed), IF set THEN i ELSE m.image,
                 IF set = closed THEN m.amiss /\ ~set ELSE TRUE, m.disk)
  <2> DEFINE image == IF set THEN i ELSE m.image
             amiss == IF set = closed THEN m.amiss /\ ~set ELSE TRUE
             n == [m EXCEPT !.image = image, !.amiss = amiss]
  <2>1. image \in Image /\ amiss \in BOOLEAN
    BY <1>1 DEF MenuRec
  <2>2. M!Replaced(m, i, set, closed) = n
    BY DEF M!Replaced
  <2> HIDE DEF image, amiss
  <2>3. n \in MenuRec
    BY <1>1, <2>1, ZenonT(40) DEF MenuRec
  <2>4. Now(n, image, amiss, m.disk)
    BY <1>1, <2>3 DEF MenuRec
  <2> QED
    BY <2>2, <2>4 DEF image, amiss
<1>4. Calm(M!Replaced(m, i, set, FALSE))
  <2> DEFINE r == M!Replaced(m, i, set, FALSE)
  <2>1. /\ Now(r, IF set THEN i ELSE m.image, IF set = FALSE THEN m.amiss /\ ~set ELSE TRUE, m.disk)
        /\ m.amiss \in BOOLEAN
    BY <1>1, <1>3 DEF MenuRec
  <2>2. m.multi => /\ m.disk.marked = {m.disk.current}
                   /\ ~(IF set = FALSE THEN m.amiss /\ ~set ELSE TRUE) =>
                         m.disk.current = IF set THEN i ELSE m.image
    BY <2>1 DEF Calm, OneIn
  <2> HIDE DEF r, Now
  <2> QED
    BY <1>2, <2>1, <2>2 DEF r
<1>5. Calm(M!Insert(M!Replaced(m, i, set, TRUE), i))
  <2> DEFINE r == M!Replaced(m, i, set, TRUE)
             marked == (m.disk.marked \cup {i}) \ {m.disk.current}
             d == [m.disk EXCEPT !.marked = marked, !.current = i]
             n == [r EXCEPT !.disk = d]
             image == IF set THEN i ELSE m.image
             amiss == IF set = TRUE THEN m.amiss /\ ~set ELSE TRUE
  <2>1. Now(r, image, amiss, m.disk)
    BY <1>3
  <2>2. marked \in SUBSET Image /\ (m.multi => marked = {i})
    BY <1>1 DEF Calm, OneIn, Disk
  <2>3. ~amiss => image = i
    OBVIOUS
  <2>4. M!Insert(r, i) = n
    <3> HIDE DEF r
    <3>1. M!Insert(r, i) = [r EXCEPT !.disk = [r.disk EXCEPT !.marked = (r.disk.marked \cup {i}) \ {r.disk.current},
                                                             !.current = i]]
      BY <2>1 DEF M!Insert, MenuRec
    <3> QED
      BY <2>1, <3>1
  <2> HIDE DEF marked, image, amiss, r
  <2>5. d \in Disk /\ d.marked = marked /\ d.current = i /\ d # None
    BY <1>1, <2>2, MenuAssumption DEF Disk
  <2> HIDE DEF d
  <2>6. n \in MenuRec
    BY <2>1, <2>5, ZenonT(40) DEF MenuRec
  <2>7. Now(n, image, amiss, d)
    BY <2>1, <2>6 DEF MenuRec
  <2> HIDE DEF n, Now
  <2> QED
    BY <1>2, <2>2, <2>3, <2>4, <2>5, <2>7 DEF r
<1> QED
  BY <1>4, <1>5

LEMMA CalmStep == ASSUME Calm(state') PROVE MenuInv'
BY CalmIsOk DEF MenuInv

LEMMA MenuStays == ASSUME MenuInv, UNCHANGED state PROVE MenuInv'
BY DEF MenuInv

LEMMA PushStep ==
  ASSUME Calm(state), Looked(state), NEW w \in M!Widget, w = "confirm" => state.cur = "disk",
         state' = M!Push(state, w)
  PROVE  MenuInv'
<1>1. state \in MenuRec
  BY DEF Calm, Plainly
<1>2. state.keys \in Bound /\ MenuOk(state', state.keys)
  BY <1>1, PushOn
<1> QED
  BY <1>2 DEF MenuInv

\* The keys of tabs, and of the boot messages, of a menu with nothing open.
LEMMA TabKeysKeep ==
  ASSUME NEW b \in Bound, MenuOk(state, b),
         \/ M!Turn \/ M!OnMenuKey \/ M!OnBootKey \/ M!OnSystem \/ M!OnBrowser \/ M!OnSelect
         \/ M!OnStart \/ M!OnFavorite \/ M!OnFavoriteCross \/ M!OnItem \/ M!OnGroup \/ M!OnLogin
         \/ M!OnTest \/ M!OnDisk
  PROVE  MenuInv'
<1> USE DEF M!Key
<1>1. \A k \in M!Key, o \in M!Tab \cup {"ui", "boot"} : M!Pressed(k, o) => Calm(state) /\ Looked(state)
  BY PressedCalm
<1>2. M!Turn => Calm(state) /\ Looked(state)
  BY <1>1 DEF M!Turn
<1>3. M!OnMenuKey => Calm(state) /\ Looked(state)
  BY <1>1 DEF M!OnMenuKey
<1>4. M!OnBootKey => Calm(state) /\ Looked(state)
  BY <1>1 DEF M!OnBootKey
<1>5. M!OnSystem \/ M!OnBrowser \/ M!OnSelect \/ M!OnStart => Calm(state) /\ Looked(state)
  BY <1>1, MenuTabNames DEF M!OnSystem, M!OnBrowser, M!OnSelect, M!OnStart
<1>6. M!OnFavorite \/ M!OnFavoriteCross \/ M!OnItem \/ M!OnGroup => Calm(state) /\ Looked(state)
  BY <1>1, MenuTabNames DEF M!OnFavorite, M!OnFavoriteCross, M!OnItem, M!OnGroup
<1>7. M!OnLogin \/ M!OnTest \/ M!OnDisk => Calm(state) /\ Looked(state)
  BY <1>1, MenuTabNames DEF M!OnLogin, M!OnTest, M!OnDisk
<1>8. Calm(state) /\ Looked(state)
  BY <1>2, <1>3, <1>4, <1>5, <1>6, <1>7
<1>9. state \in MenuRec
  BY <1>8 DEF Calm, Plainly
<1>10. /\ state.status = state.seen /\ state.seen # "run"
       /\ (state.multi <=> state.disk # None)
       /\ (state.cur = "disk" => state.disk # None /\ state.multi)
  BY <1>8 DEF Calm, Looked, Settled, OnDisks
<1>11. CASE M!Turn
  <2>1. PICK t \in {M!Before(state), M!After(state)} : state' = M!TurnTo(state, t)
    BY <1>11 DEF M!Turn
  <2>2. t \in state.shown
    BY <1>8, <1>9, TurnsAreShown DEF Calm
  <2>3. Calm(state')
    BY <1>8, <1>10, <2>1, <2>2, TurnCalm DEF Calm
  <2> QED
    BY <2>3, CalmStep
<1>12. CASE M!OnMenuKey
  <2>1. state' = [state EXCEPT !.status = "run"]
    BY <1>12 DEF M!OnMenuKey
  <2>2. Calm(state')
    BY <1>8, <1>10, <2>1, StatusOn DEF MenuStatus
  <2> QED
    BY <2>2, CalmStep
<1>13. CASE M!OnBootKey
  <2> DEFINE keys == [[state.keys EXCEPT !["enter"] = None] EXCEPT !["cancel"] = None]
             n == [state EXCEPT !.status = "ui", !.keys = keys]
  <2>1. PICK k \in {"enter", "cancel", "square"} : M!Pressed(k, "boot")
    BY <1>13 DEF M!OnBootKey
  <2>2. state.keys[k] = "boot" /\ k \in M!Key
    BY <2>1 DEF M!Pressed
  <2>3. state.seen # "ui"
    BY <1>8, <1>10, <2>2 DEF Calm, BootKeys
  <2>4. keys \in Bound
    BY <1>8 DEF Calm, Plainly, Bound, Owner
  <2>5. state' = n
    BY <1>13 DEF M!OnBootKey
  <2>6. \A j \in M!Key : keys[j] = "boot" => state.keys[j] = "boot"
    BY <1>8, MenuAssumption DEF Calm, Plainly, Bound
  <2> HIDE DEF keys
  <2>7. n \in MenuRec
    <3>1. keys \in [M!Key -> Owner \cup M!Widget]
      BY <2>4 DEF Bound
    <3> QED
      BY <1>9, <3>1, ZenonT(40) DEF MenuRec, MenuStatus
  <2>8. /\ n.status = "ui" /\ n.seen = state.seen /\ n.cur = state.cur /\ n.shown = state.shown /\ n.keys = keys
        /\ n.levels = state.levels /\ n.open = state.open /\ n.multi = state.multi /\ n.image = state.image /\ n.amiss = state.amiss
        /\ n.disk = state.disk /\ n.favs = state.favs /\ n.crash = state.crash
    BY <1>9 DEF MenuRec
  <2> HIDE DEF n
  <2>9. Calm(n)
    BY <1>8, <1>10, <2>3, <2>4, <2>6, <2>7, <2>8 DEF Calm, Plainly, Stays, OnDisks, OneIn, Settled, BootKeys
  <2> QED
    BY <2>5, <2>9, CalmStep
<1>14. ASSUME NEW t \in M!Tab, M!Loads(t)
       PROVE  MenuInv'
  BY <1>8, <1>14, LoadsKeep, CalmStep
<1>15. ASSUME NEW w \in M!Widget, w = "confirm" => state.cur = "disk", state' = M!Push(state, w)
       PROVE  MenuInv'
  BY <1>8, <1>15, PushStep
<1>16. {"dialog", "combo", "text", "gamepad", "confirm"} = M!Widget
  BY DEF M!Widget
<1>17. ASSUME UNCHANGED state PROVE MenuInv'
  BY <1>17, MenuStays DEF MenuInv
<1>18. CASE M!OnSystem
  <2>1. state.seen = "menu" /\ state' = [state EXCEPT !.status = "run"] => Calm(state')
    BY <1>8, <1>10, StatusOn DEF MenuStatus
  <2>2. state.seen = "menu" /\ state' = M!Unloaded(state) => Calm(state')
    BY <1>8, UnloadedOn
  <2>3. \/ state' = M!Push(state, "dialog")
        \/ state.seen = "menu" /\ state' = [state EXCEPT !.status = "run"]
        \/ state.seen = "menu" /\ state' = M!Unloaded(state)
        \/ M!Loads("system")
    BY <1>18 DEF M!OnSystem
  <2> QED
    BY <1>14, <1>15, <1>16, <2>1, <2>2, <2>3, CalmStep, MenuTabNames
<1>19. CASE M!OnBrowser \/ M!OnFavorite
  BY <1>14, <1>19, MenuTabNames DEF M!OnBrowser, M!OnFavorite
<1>20. CASE M!OnSelect \/ M!OnFavoriteCross
  BY <1>15, <1>16, <1>20 DEF M!OnSelect, M!OnFavoriteCross
<1>21. CASE M!OnStart
  <2>1. Calm(state')
    BY <1>8, <1>21, FavsOn DEF M!OnStart
  <2> QED
    BY <2>1, CalmStep
<1>22. CASE M!OnItem
  BY <1>15, <1>16, <1>17, <1>22 DEF M!OnItem
<1>23. CASE M!OnGroup
  <2>1. Calm(state')
    BY <1>8, <1>23, RebuildCalm, MenuTabNames DEF M!OnGroup
  <2> QED
    BY <2>1, CalmStep
<1>24. CASE M!OnLogin
  BY <1>15, <1>16, <1>24 DEF M!OnLogin
<1>25. CASE M!OnTest
  BY <1>15, <1>16, <1>25 DEF M!OnTest
<1>26. CASE M!OnDisk
  <2>1. state.keys["enter"] = "disk" /\ state' = M!Push(state, "confirm")
    BY <1>26 DEF M!OnDisk, M!Pressed
  <2>2. state.cur = "disk"
    BY <1>8, <2>1 DEF Calm, Settled, Looked
  <2> QED
    BY <1>15, <1>16, <2>1, <2>2
<1> QED
  BY <1>11, <1>12, <1>13, <1>18, <1>19, <1>20, <1>21, <1>22, <1>23, <1>24, <1>25, <1>26

LEMMA OpenedOver ==
  ASSUME NEW m, NEW b, MenuOk(m, b), NEW w \in {"text", "gamepad"}, w \in m.open
  PROVE  OneOver(m, w, b)
<1>1. ~Bare(m, b) /\ ~TwoOver(m, b)
  BY DEF Bare, TwoOver
<1>2. \A v : OneOver(m, v, b) => v = w
  BY DEF OneOver
<1> QED
  BY <1>1, <1>2 DEF MenuOk, Shape

\* The keys of what is open.
LEMMA OverKeysKeep ==
  ASSUME NEW b \in Bound, MenuOk(state, b),
         M!ComboClick \/ M!Cancel \/ M!DialogClick \/ M!StateConfirmed \/ M!DiskConfirmed \/ M!TextInput \/ M!TestEnds
  PROVE  MenuInv'
<1>1. state \in MenuRec
  BY DEF MenuOk
<1>2. ASSUME NEW w \in M!Widget, OneOver(state, w, b)
      PROVE  Calm(M!Pop(state, w)) /\ Beneath(state, M!Pop(state, w))
  BY <1>1, <1>2, PopOne
<1>3. ASSUME TwoOver(state, b)
      PROVE  LET n == M!Pop(state, "confirm")
             IN n \in MenuRec /\ MenuOk(n, b) /\ OneOver(n, "combo", b) /\ Beneath(state, n)
  BY <1>1, <1>3, PopTwo
<1>4. \A k \in M!Key, w \in M!Widget : M!Pressed(k, w) =>
        /\ Looked(state)
        /\ OneOver(state, w, b) \/ (w = "confirm" /\ TwoOver(state, b))
  BY PressedOver
<1>5. {"enter", "cancel"} \subseteq M!Key /\ {"combo", "confirm", "dialog", "text", "gamepad"} = M!Widget
  BY DEF M!Key, M!Widget
<1>6. ASSUME UNCHANGED state PROVE MenuInv'
  BY <1>6, MenuStays DEF MenuInv
<1>7. CASE M!ComboClick
  <2>1. Looked(state) /\ OneOver(state, "combo", b)
    BY <1>4, <1>5, <1>7 DEF M!ComboClick
  <2>2. CASE state' = M!Pop(state, "combo")
    BY <1>2, <1>5, <2>1, <2>2, CalmStep
  <2>3. CASE state.cur = "state" /\ state' = M!Push(state, "confirm")
    BY <1>1, <2>1, <2>3, AskOn DEF MenuInv
  <2> QED
    BY <1>6, <1>7, <2>2, <2>3 DEF M!ComboClick
<1>8. CASE M!Cancel
  <2>1. PICK w \in M!Widget : M!Pressed("cancel", w) /\ state' = M!Pop(state, w)
    BY <1>8 DEF M!Cancel
  <2>2. CASE OneOver(state, w, b)
    BY <1>2, <2>1, <2>2, CalmStep
  <2>3. CASE w = "confirm" /\ TwoOver(state, b)
    BY <1>3, <2>1, <2>3 DEF MenuInv
  <2> QED
    BY <1>4, <1>5, <2>1, <2>2, <2>3
<1>9. CASE M!DialogClick
  <2> DEFINE n == M!Pop(state, "dialog")
  <2>1. OneOver(state, "dialog", b)
    BY <1>4, <1>5, <1>9 DEF M!DialogClick
  <2>2. Calm(n)
    BY <1>2, <1>5, <2>1
  <2>3. PICK f \in BOOLEAN : state' = [n EXCEPT !.favs = f]
    <3>1. state.favs \in BOOLEAN
      BY <1>1 DEF MenuRec
    <3>2. PICK f \in (IF state.cur = "favorite" THEN BOOLEAN ELSE {state.favs}) : state' = [n EXCEPT !.favs = f]
      BY <1>9 DEF M!DialogClick
    <3> QED
      BY <3>1, <3>2
  <2> HIDE DEF n
  <2>4. Calm(state')
    BY <2>2, <2>3, FavsOn
  <2> QED
    BY <2>4, CalmStep
<1>10. CASE M!StateConfirmed
  <2> DEFINE one == M!Pop(state, "confirm")
             n == M!Pop(one, "combo")
  <2>1. Looked(state) /\ TwoOver(state, b)
    BY <1>4, <1>5, <1>10 DEF M!StateConfirmed, OneOver
  <2>2. one \in MenuRec /\ MenuOk(one, b) /\ OneOver(one, "combo", b) /\ Beneath(state, one)
    BY <1>3, <2>1
  <2> HIDE DEF one
  <2>3. Calm(n) /\ Beneath(one, n)
    BY <1>5, <2>2, PopOne
  <2>4. PICK loads \in BOOLEAN : state' = M!ItemStateRun(state, loads)
    BY <1>10 DEF M!StateConfirmed
  <2>5. state' = n \/ state' = M!UnsetHooks([n EXCEPT !.status = "run"], "combo")
    BY <2>4 DEF M!ItemStateRun, one
  <2> HIDE DEF n
  <2>6. n.status = n.seen /\ n.seen # "run" /\ n.cur = "state"
    BY <2>1, <2>2, <2>3 DEF Looked, TwoOver, Beneath
  <2>7. Calm([n EXCEPT !.status = "run"])
    BY <2>3, <2>6, StatusOn DEF MenuStatus
  <2>8. [n EXCEPT !.status = "run"].status = "run" /\ [n EXCEPT !.status = "run"].seen = n.seen
    BY <2>3 DEF Calm, Plainly, MenuRec
  <2>9. Calm(M!UnsetHooks([n EXCEPT !.status = "run"], "combo"))
    <3> DEFINE r == [n EXCEPT !.status = "run"]
    <3>1. Calm(r) /\ r.status # r.seen /\ r.status # "boot"
      BY <2>6, <2>7, <2>8
    <3> HIDE DEF r
    <3>2. Calm(M!UnsetHooks(r, "combo"))
      BY <3>1, UnsetCalm
    <3> QED
      BY <3>2 DEF r
  <2> QED
    BY <2>3, <2>5, <2>9, CalmStep
<1>11. CASE M!DiskConfirmed
  <2> DEFINE n == M!Pop(state, "confirm")
  <2>1. Looked(state) /\ OneOver(state, "confirm", b) /\ state.cur = "disk"
    BY <1>4, <1>5, <1>11 DEF M!DiskConfirmed, TwoOver
  <2>2. Calm(n) /\ Beneath(state, n)
    BY <1>2, <1>5, <2>1
  <2>3. \/ state' = n
        \/ \E i \in Image \ state.disk.marked, set \in BOOLEAN :
              \/ state' = M!Insert(M!Replaced(n, i, set, TRUE), i)
              \/ state' = M!Replaced(n, i, set, FALSE)
    BY <1>11 DEF M!DiskConfirmed
  <2> HIDE DEF n
  <2>4. n.disk = state.disk /\ n.disk # None
    BY <2>1, <2>2 DEF Calm, OnDisks, Beneath
  <2>5. Calm(state')
    BY <2>2, <2>3, <2>4, ReplacedCalm
  <2> QED
    BY <2>5, CalmStep
<1>12. CASE M!TextInput
  <2>1. "text" \in state.open
    BY <1>12 DEF M!TextInput
  <2>2. OneOver(state, "text", b)
    BY <1>5, <2>1, OpenedOver
  <2>3. Calm(M!Pop(state, "text"))
    BY <1>2, <1>5, <2>2
  <2> QED
    BY <1>6, <1>12, <2>3, CalmStep DEF M!TextInput
<1>13. CASE M!TestEnds
  <2>1. "gamepad" \in state.open
    BY <1>13 DEF M!TestEnds
  <2>2. OneOver(state, "gamepad", b)
    BY <1>5, <2>1, OpenedOver
  <2>3. Calm(M!Pop(state, "gamepad"))
    BY <1>2, <1>5, <2>2
  <2> QED
    BY <1>13, <2>3, CalmStep DEF M!TestEnds
<1> QED
  BY <1>7, <1>8, <1>9, <1>10, <1>11, <1>12, <1>13

LEMMA CreatedCalm == Calm(M!Created)
<1> DEFINE m == [status |-> "ui", seen |-> "ui", cur |-> "browser",
                 shown |-> M!Tab \ {"disk", "state", "favorite"}, keys |-> M!NoKeys, levels |-> <<>>,
                 open |-> {}, multi |-> FALSE, image |-> 0, disk |-> None,
                 amiss |-> FALSE, favs |-> FALSE, crash |-> FALSE]
           n == M!SetInputHooks(m)
<1>1. M!Created = n
  BY DEF M!Created
<1>2. M!NoKeys \in Bound
  BY DEF M!NoKeys, Bound, Owner
<1>3. <<>> \in Seq(Level)
  OBVIOUS
<1>4. m \in MenuRec
  BY <1>2, <1>3, MenuAssumption, MenuTabNames DEF MenuRec, MenuStatus, Bound
<1>5. /\ Plainly(m) /\ OneIn(m) /\ m.cur = "browser" /\ "browser" \in m.shown
      /\ m.status = "ui" /\ m.seen = "ui" /\ ~m.multi /\ m.disk = None
      /\ \A k \in M!Key : m.keys[k] # "boot"
  BY <1>2, <1>4, MenuAssumption, MenuTabNames DEF Plainly, Stays, OneIn, M!NoKeys
<1> HIDE DEF m
<1>6. /\ Plainly(n) /\ Alike(m, n) /\ n.cur = "browser" /\ NoBoots(m, n)
      /\ \A k \in M!Key \cap M!KeysOf(n.cur) : n.keys[k] = n.cur
  BY <1>4, <1>5, SetInputHooksOn
<1>7. n.keys["enter"] = "browser"
  BY <1>6, MenuKeys, MenuTabNames DEF M!Key
<1> HIDE DEF n
<1>8. Calm(n)
  BY <1>5, <1>6, <1>7 DEF Calm, OnDisks, OneIn, Settled, BootKeys, NoBoots, Alike
<1> QED
  BY <1>1, <1>8

LEMMA MenuInit == ASSUME M!Init PROVE MenuInv
BY CreatedCalm, CalmIsOk DEF M!Init, MenuInv

LEMMA MenuStep == ASSUME MenuInv, M!Next PROVE MenuInv'
<1>1. PICK b \in Bound : MenuOk(state, b)
  BY DEF MenuInv
<1>2. CASE M!Observe
  <2>1. Calm(state)
    BY <1>1, <1>2, IdleIsCalm DEF M!Observe, Looked
  <2> QED
    BY <1>2, <2>1, ObserveKeeps, CalmStep
<1>3. CASE M!Draw
  <2>1. Calm(state)
    BY <1>1, <1>3, IdleIsCalm DEF M!Draw, M!DrawDue, Looked
  <2> QED
    BY <1>3, <2>1, DrawKeeps, CalmStep
<1>4. CASE M!OnPsButton
  <2>1. Calm(state)
    BY <1>1, <1>4, IdleIsCalm DEF M!OnPsButton, Looked
  <2>2. state.status = state.seen /\ state.seen = "run" /\ state' = [state EXCEPT !.status = "menu"]
    BY <1>4 DEF M!OnPsButton
  <2>3. state.cur = "disk" => state.multi
    BY <2>1, <2>2 DEF Calm, OnDisks
  <2>4. Calm(state')
    BY <2>1, <2>2, <2>3, StatusOn DEF MenuStatus
  <2> QED
    BY <2>4, CalmStep
<1>5. CASE M!OnHotkeyExitGame
  <2>1. state.levels = <<>> /\ state.seen # "ui" /\ state' = M!Unloaded(state)
    BY <1>5 DEF M!OnHotkeyExitGame
  <2>2. Bare(state, b)
    BY <1>1, <2>1 DEF MenuOk, Shape, OneOver, TwoOver
  <2>3. Calm(state')
    BY <1>1, <2>1, <2>2, BareIsCalm, UnloadedOn
  <2> QED
    BY <2>3, CalmStep
<1>6. CASE M!CoreRebuilds
  <2>1. Calm(state)
    BY <1>1, <1>6, IdleIsCalm DEF M!CoreRebuilds, Looked
  <2>2. Calm(state')
    BY <1>6, <2>1, RebuildCalm, MenuTabNames DEF M!CoreRebuilds
  <2> QED
    BY <2>2, CalmStep
<1>7. CASE \/ M!Turn \/ M!OnMenuKey \/ M!OnBootKey \/ M!OnSystem \/ M!OnBrowser \/ M!OnSelect
           \/ M!OnStart \/ M!OnFavorite \/ M!OnFavoriteCross \/ M!OnItem \/ M!OnGroup \/ M!OnLogin
           \/ M!OnTest \/ M!OnDisk
  BY <1>1, <1>7, TabKeysKeep
<1>8. CASE \/ M!ComboClick \/ M!Cancel \/ M!DialogClick \/ M!StateConfirmed \/ M!DiskConfirmed
           \/ M!TextInput \/ M!TestEnds
  BY <1>1, <1>8, OverKeysKeep
<1>9. CASE M!Restart
  BY <1>9, CreatedCalm, CalmStep DEF M!Restart
<1> QED
  BY <1>2, <1>3, <1>4, <1>5, <1>6, <1>7, <1>8, <1>9 DEF M!Next

\* What the player sees of it.
LEMMA MenuAnswers == ASSUME MenuInv PROVE M!EnterIsTheShownOnes /\ M!OneDiskIn
<1>1. PICK b \in Bound : MenuOk(state, b)
  BY DEF MenuInv
<1>2. ~state.crash /\ M!OneDiskIn
  BY <1>1 DEF MenuOk, Stays, OneIn, M!OneDiskIn
<1> SUFFICES ASSUME M!Polled, state.seen # "boot"
             PROVE  IF state.levels = <<>>
                    THEN /\ state.cur \in state.shown /\ state.keys["enter"] = state.cur
                         /\ state.open = {}
                    ELSE LET by == state.levels[Len(state.levels)].by
                         IN /\ state.keys["enter"] = IF M!KeysOf(by) = {} THEN None ELSE by
                            /\ state.open = { state.levels[i].by : i \in DOMAIN state.levels }
  BY <1>2 DEF M!EnterIsTheShownOnes
<1>3. b["enter"] = state.cur /\ state.cur \in state.shown
  BY <1>1 DEF MenuOk, Settled, M!Polled
<1>4. CASE Bare(state, b)
  BY <1>3, <1>4 DEF Bare
<1>5. ASSUME NEW w \in M!Widget
      PROVE  OwnKeys(w)["enter"] = IF M!KeysOf(w) = {} THEN None ELSE w
  BY MenuKeys DEF OwnKeys, M!Key, M!Widget
<1>6. ASSUME NEW w \in M!Widget, OneOver(state, w, b)
      PROVE  /\ state.levels # <<>> /\ DOMAIN state.levels = {1} /\ Len(state.levels) = 1
             /\ state.levels[1].by = w /\ state.keys["enter"] = OwnKeys(w)["enter"] /\ state.open = {w}
  BY <1>6 DEF OneOver
<1>7. ASSUME TwoOver(state, b)
      PROVE  /\ state.levels # <<>> /\ DOMAIN state.levels = {1, 2} /\ Len(state.levels) = 2
             /\ state.levels[1].by = "combo" /\ state.levels[2].by = "confirm"
             /\ state.keys["enter"] = OwnKeys("confirm")["enter"] /\ state.open = {"combo", "confirm"}
  BY <1>7 DEF TwoOver
<1>8. CASE \E w \in M!Widget : OneOver(state, w, b)
  BY <1>5, <1>6, <1>8
<1>9. CASE TwoOver(state, b)
  BY <1>5, <1>7, <1>9 DEF M!Widget
<1> QED
  BY <1>1, <1>4, <1>8, <1>9 DEF MenuOk, Shape
-----------------------------------------------------------------------------
(* Induction on numbers, for a set of them.                                *)
LEMMA SetInduction ==
  ASSUME NEW G \in SUBSET Nat, 0 \in G, \A n \in G : n + 1 \in G
  PROVE  G = Nat
<1> SUFFICES ASSUME Nat \ G # {}
             PROVE  FALSE
  OBVIOUS
<1>1. PICK least \in Nat \ G : \A k \in Nat \ G : ~(<<k, least>> \in OpToRel(<, Nat))
  BY NatLessThanWellFounded, WFMin, Zenon
<1>2. least # 0 /\ least - 1 \in Nat
  OBVIOUS
<1>3. least - 1 \in G
  <2>1. <<least - 1, least>> \in OpToRel(<, Nat)
    BY <1>2 DEF OpToRel
  <2> QED
    BY <1>1, <1>2, <2>1, Zenon
<1>4. (least - 1) + 1 \in G
  BY <1>3
<1> QED
  BY <1>4

(* Filtering.  The function of Only is there, and each of its values has   *)
(* those of the set among as many elements, and no other.                  *)
SiftTo(s, set, n, f) ==
    f = [i \in 0 .. n |-> IF i = 0 THEN <<>> ELSE IF s[i] \in set THEN Append(f[i - 1], s[i]) ELSE f[i - 1]]

LEMMA SiftExists == ASSUME NEW s, NEW set, NEW n \in Nat PROVE \E f : SiftTo(s, set, n, f)
<1> DEFINE G == { k \in Nat : \E f : SiftTo(s, set, k, f) }
<1>1. 0 \in G
  <2> DEFINE f == [i \in 0 .. 0 |-> <<>>]
  <2>1. SiftTo(s, set, 0, f)
    BY DEF SiftTo
  <2> QED
    BY <2>1
<1>2. ASSUME NEW k \in G PROVE k + 1 \in G
  <2>1. k \in Nat
    OBVIOUS
  <2>2. PICK f : SiftTo(s, set, k, f)
    OBVIOUS
  <2> DEFINE last == IF s[k + 1] \in set THEN Append(f[k], s[k + 1]) ELSE f[k]
             g == [i \in 0 .. k + 1 |-> IF i = k + 1 THEN last ELSE f[i]]
             h == [i \in 0 .. k + 1 |-> IF i = 0 THEN <<>>
                                        ELSE IF s[i] \in set THEN Append(g[i - 1], s[i]) ELSE g[i - 1]]
  <2>3. ASSUME NEW i \in 0 .. k + 1 PROVE g[i] = h[i]
    <3>1. CASE i = k + 1
      <4>1. g[i] = last /\ g[i - 1] = f[k] /\ i # 0
        BY <2>1, <3>1
      <4> QED
        BY <3>1, <4>1
    <3>2. CASE i # k + 1
      <4>1. i \in 0 .. k /\ g[i] = f[i]
        BY <2>1, <3>2
      <4>2. f[i] = IF i = 0 THEN <<>> ELSE IF s[i] \in set THEN Append(f[i - 1], s[i]) ELSE f[i - 1]
        BY <2>2, <4>1 DEF SiftTo
      <4>3. i # 0 => g[i - 1] = f[i - 1]
        BY <2>1, <4>1
      <4> QED
        BY <4>1, <4>2, <4>3
    <3> QED
      BY <3>1, <3>2
  <2>4. g = h
    BY <2>3
  <2> HIDE DEF g
  <2>5. SiftTo(s, set, k + 1, g)
    BY <2>4 DEF SiftTo
  <2> QED
    BY <2>1, <2>5
<1> HIDE DEF G
<1>3. G = Nat
  <2>1. G \in SUBSET Nat
    BY DEF G
  <2> QED
    BY <1>1, <1>2, <2>1, SetInduction
<1> QED
  BY <1>3 DEF G

LEMMA OnlyThose ==
  ASSUME NEW Elem, NEW s \in Seq(Elem), NEW set
  PROVE  /\ Only(s, set) \in Seq(Elem \cap set)
         /\ \A i \in DOMAIN s : s[i] \in set => \E j \in DOMAIN Only(s, set) : Only(s, set)[j] = s[i]
<1>1. PICK n \in Nat : n = Len(s) /\ DOMAIN s = 1 .. n
  OBVIOUS
<1>2. \E f : SiftTo(s, set, Len(s), f)
  BY <1>1, SiftExists
<1> DEFINE f == CHOOSE g : SiftTo(s, set, Len(s), g)
<1>3. Only(s, set) = f[Len(s)]
  BY DEF Only, SiftTo
<1>4. SiftTo(s, set, Len(s), f)
  BY <1>2
<1> HIDE DEF f
<1>5. \A i \in 0 .. n : f[i] = IF i = 0 THEN <<>> ELSE IF s[i] \in set THEN Append(f[i - 1], s[i]) ELSE f[i - 1]
  BY <1>1, <1>4 DEF SiftTo
<1> DEFINE Good(k) == /\ f[k] \in Seq(Elem \cap set)
                      /\ \A i \in 1 .. k : s[i] \in set => \E j \in DOMAIN f[k] : f[k][j] = s[i]
           G == { k \in Nat : k <= n => Good(k) }
<1>6. 0 \in G
  <2>1. f[0] = <<>>
    <3>1. 0 \in 0 .. n
      OBVIOUS
    <3> QED
      BY <1>5, <3>1
  <2>2. Good(0)
    BY <2>1
  <2> QED
    BY <2>2
<1>7. ASSUME NEW k \in G PROVE k + 1 \in G
  <2>1. SUFFICES ASSUME k + 1 <= n PROVE Good(k + 1)
    OBVIOUS
  <2>2. Good(k) /\ k \in Nat
    BY <2>1
  <2>5. f[k + 1] = IF s[k + 1] \in set THEN Append(f[k], s[k + 1]) ELSE f[k]
    <3>1. k + 1 \in 0 .. n /\ k + 1 # 0 /\ (k + 1) - 1 = k
      BY <2>1, <2>2
    <3> QED
      BY <1>5, <3>1
  <2>3. CASE s[k + 1] \in set
    <3>1. f[k + 1] = Append(f[k], s[k + 1])
      BY <2>5, <2>3
    <3>2. s[k + 1] \in Elem \cap set
      BY <1>1, <2>1, <2>2, <2>3
    <3>3. /\ f[k + 1] \in Seq(Elem \cap set) /\ Len(f[k + 1]) = Len(f[k]) + 1
          /\ \A j \in DOMAIN f[k] : f[k + 1][j] = f[k][j] /\ j \in DOMAIN f[k + 1]
          /\ Len(f[k]) + 1 \in DOMAIN f[k + 1] /\ f[k + 1][Len(f[k]) + 1] = s[k + 1]
      BY <2>2, <3>1, <3>2
    <3>4. ASSUME NEW i \in 1 .. k + 1, s[i] \in set
          PROVE  \E j \in DOMAIN f[k + 1] : f[k + 1][j] = s[i]
      <4>1. CASE i = k + 1
        BY <3>3, <4>1
      <4>2. CASE i # k + 1
        <5>1. i \in 1 .. k
          BY <2>2, <4>2
        <5> QED
          BY <2>2, <3>3, <3>4, <5>1
      <4> QED
        BY <4>1, <4>2
    <3> QED
      BY <3>3, <3>4
  <2>4. CASE s[k + 1] \notin set
    <3>1. f[k + 1] = f[k]
      BY <2>5, <2>4
    <3>2. \A i \in 1 .. k + 1 : s[i] \in set => i \in 1 .. k
      BY <2>2, <2>4
    <3> QED
      BY <2>2, <3>1, <3>2
  <2> QED
    BY <2>3, <2>4
<1>8. G = Nat
  <2> HIDE DEF G
  <2>1. G \in SUBSET Nat
    BY DEF G
  <2> QED
    BY <1>6, <1>7, <2>1, SetInduction
<1>9. Good(n)
  BY <1>1, <1>8
<1> QED
  BY <1>1, <1>3, <1>9

(* The cheats.  The places a cheat writes to.                              *)
PlacesTo(c, n, p) == p = [i \in 1 .. n |-> IF i = 1 THEN c.address ELSE H!NextPlace(c, p[i - 1])]

LEMMA PlacesExist == ASSUME NEW c, NEW n \in Nat PROVE \E p : PlacesTo(c, n, p)
<1> DEFINE G == { k \in Nat : \E p : PlacesTo(c, k, p) }
<1>1. 0 \in G
  <2> DEFINE p == [i \in 1 .. 0 |-> 0]
  <2>1. PlacesTo(c, 0, p)
    BY DEF PlacesTo
  <2> QED
    BY <2>1
<1>2. ASSUME NEW k \in G PROVE k + 1 \in G
  <2>1. k \in Nat
    OBVIOUS
  <2>2. PICK p : PlacesTo(c, k, p)
    OBVIOUS
  <2> DEFINE last == IF k = 0 THEN c.address ELSE H!NextPlace(c, p[k])
             q == [i \in 1 .. k + 1 |-> IF i = k + 1 THEN last ELSE p[i]]
             r == [i \in 1 .. k + 1 |-> IF i = 1 THEN c.address ELSE H!NextPlace(c, q[i - 1])]
  <2>3. ASSUME NEW i \in 1 .. k + 1 PROVE q[i] = r[i]
    <3>1. CASE i = k + 1
      BY <2>1, <3>1
    <3>2. CASE i # k + 1
      <4>1. i \in 1 .. k /\ q[i] = p[i]
        BY <2>1, <3>2
      <4>2. p[i] = IF i = 1 THEN c.address ELSE H!NextPlace(c, p[i - 1])
        BY <2>2, <4>1 DEF PlacesTo
      <4>3. i # 1 => i - 1 \in 1 .. k /\ q[i - 1] = p[i - 1]
        BY <2>1, <4>1
      <4> QED
        BY <4>1, <4>2, <4>3
    <3> QED
      BY <3>1, <3>2
  <2>4. q = r
    BY <2>3
  <2> HIDE DEF q
  <2>5. PlacesTo(c, k + 1, q)
    BY <2>4 DEF PlacesTo
  <2> QED
    BY <2>1, <2>5
<1> HIDE DEF G
<1>3. G = Nat
  <2>1. G \in SUBSET Nat
    BY DEF G
  <2> QED
    BY <1>1, <1>2, <2>1, SetInduction
<1> QED
  BY <1>3 DEF G

LEMMA PlaceIs ==
  ASSUME NEW c, c.count \in Nat
  PROVE  \A i \in 1 .. c.count :
            H!Place(c)[i] = IF i = 1 THEN c.address ELSE H!NextPlace(c, H!Place(c)[i - 1])
<1>1. \E p : PlacesTo(c, c.count, p)
  BY PlacesExist
<1>2. H!Place(c) = CHOOSE p : PlacesTo(c, c.count, p)
  BY DEF H!Place, PlacesTo
<1>3. PlacesTo(c, c.count, H!Place(c))
  BY <1>1, <1>2
<1> DEFINE p == H!Place(c)
<1> HIDE DEF p
<1>4. p = [i \in 1 .. c.count |-> IF i = 1 THEN c.address ELSE H!NextPlace(c, p[i - 1])]
  BY <1>3 DEF PlacesTo, p
<1>5. \A i \in 1 .. c.count : p[i] = IF i = 1 THEN c.address ELSE H!NextPlace(c, p[i - 1])
  BY <1>4
<1> QED
  BY <1>5 DEF p

Aligned(a, w) == \E k \in Nat : a = k * w

LEMMA AlignedFits ==
  ASSUME NEW w \in Nat \ {0}, NEW a \in Nat, Aligned(a, w), Aligned(Memory, w), a < Memory
  PROVE  a + w <= Memory
<1>1. PICK k \in Nat : a = k * w
  BY DEF Aligned
<1>2. PICK m \in Nat : Memory = m * w
  BY DEF Aligned
<1>3. k < m
  <2> SUFFICES ASSUME m <= k PROVE FALSE
    OBVIOUS
  <2>1. PICK d \in Nat : k = m + d
    <3>1. k - m \in Nat /\ k = m + (k - m)
      OBVIOUS
    <3> QED
      BY <3>1
  <2>2. k * w = m * w + d * w /\ d * w \in Nat
    BY <2>1
  <2> QED
    BY <1>1, <1>2, <2>2
<1>4. PICK d \in Nat : m = k + 1 + d
  <2>1. m - k - 1 \in Nat /\ m = k + 1 + (m - k - 1)
    BY <1>3
  <2> QED
    BY <2>1
<1>5. m * w = k * w + w + d * w /\ d * w \in Nat
  BY <1>4
<1> QED
  BY <1>1, <1>2, <1>5

LEMMA Division ==
  ASSUME NEW x \in Nat, NEW m \in Nat \ {0}
  PROVE  x % m \in Nat /\ x % m < m /\ x \div m \in Nat /\ x % m = x - m * (x \div m)
BY Z3

LEMMA AlignedMod ==
  ASSUME NEW w \in Nat \ {0}, NEW x \in Nat, Aligned(x, w), Aligned(Memory, w), Memory \in Nat \ {0}
  PROVE  x % Memory \in Nat /\ x % Memory < Memory /\ Aligned(x % Memory, w)
<1>1. PICK y \in Nat : x = y * w
  BY DEF Aligned
<1>2. PICK m \in Nat : Memory = m * w
  BY DEF Aligned
<1> DEFINE q == x \div Memory
           z == y - m * q
<1>3. x % Memory \in Nat /\ x % Memory < Memory /\ q \in Nat /\ x % Memory = x - Memory * q
  BY Division
<1> HIDE DEF q
<1>4. x % Memory = z * w
  <2>1. Memory * q = (m * q) * w
    BY <1>2, <1>3
  <2>2. z * w = y * w - (m * q) * w
    <3>1. m * q \in Int
      BY <1>3
    <3> HIDE DEF z
    <3>2. \A a \in Int : (y - a) * w = y * w - a * w
      OBVIOUS
    <3> QED
      BY <3>1, <3>2 DEF z
  <2> HIDE DEF z
  <2>3. z * w = x - Memory * q
    BY <1>1, <2>1, <2>2
  <2> QED
    BY <1>3, <2>3
<1>5. z \in Int
  BY <1>3
<1> HIDE DEF z
<1>6. z \in Nat
  <2> SUFFICES ASSUME z < 0 PROVE FALSE
    BY <1>5
  <2>1. PICK d \in Nat : z = -1 - d
    <3>1. -1 - z \in Nat /\ z = -1 - (-1 - z)
      BY <1>5
    <3> QED
      BY <3>1
  <2>2. z * w = -w - d * w /\ d * w \in Nat
    BY <2>1
  <2> QED
    BY <1>3, <1>4, <2>2
<1> QED
  BY <1>3, <1>4, <1>6 DEF Aligned

LEMMA PlacesFit ==
  ASSUME NEW c, c.width \in Nat \ {0}, c.step \in Nat, c.count \in Nat, c.address \in Nat,
         c.address + c.width <= Memory, c.address % c.width = 0, Memory % c.width = 0, Memory \in Nat
  PROVE  H!AllInside(c) /\ \A i \in 1 .. c.count : H!Place(c)[i] \in Nat
<1> DEFINE w == c.width
           p == H!Place(c)
           Good(a) == a \in Nat /\ a < Memory /\ Aligned(a, w)
           G == { k \in Nat : k + 1 \in 1 .. c.count => Good(p[k + 1]) }
<1>1. \A a \in Nat : a % w = 0 => Aligned(a, w)
  <2> SUFFICES ASSUME NEW a \in Nat, a % w = 0
               PROVE  Aligned(a, w)
    OBVIOUS
  <2>1. a \div w \in Nat /\ a % w = a - w * (a \div w)
    BY Division
  <2>2. a = (a \div w) * w
    BY <2>1
  <2> QED
    BY <2>1, <2>2 DEF Aligned
<1>2. Aligned(Memory, w) /\ Good(c.address) /\ Memory \in Nat \ {0}
  BY <1>1
<1>3. ASSUME NEW a, Good(a)
      PROVE  Good(H!NextPlace(c, a))
  <2> DEFINE x == a + c.step * w
  <2>1. x \in Nat
    BY <1>3
  <2>2. Aligned(x, w)
    <3>1. PICK k \in Nat : a = k * w
      BY <1>3 DEF Aligned
    <3>2. x = (k + c.step) * w /\ k + c.step \in Nat
      BY <3>1
    <3> QED
      BY <3>2 DEF Aligned
  <2> HIDE DEF x
  <2>3. Good(x % Memory)
    BY <1>2, <2>1, <2>2, AlignedMod
  <2> QED
    BY <2>3 DEF H!NextPlace, x
<1> HIDE DEF Good, p
<1>4. \A i \in 1 .. c.count : p[i] = IF i = 1 THEN c.address ELSE H!NextPlace(c, p[i - 1])
  BY PlaceIs DEF p
<1>5. 0 \in G
  BY <1>2, <1>4
<1>6. ASSUME NEW k \in G PROVE k + 1 \in G
  <2>1. ASSUME k + 2 \in 1 .. c.count PROVE Good(p[k + 2])
    <3>1. k + 1 \in 1 .. c.count
      BY <2>1
    <3>2. p[k + 2] = H!NextPlace(c, p[k + 1])
      BY <1>4, <2>1, <3>1
    <3> QED
      BY <1>3, <3>1, <3>2
  <2> QED
    BY <2>1
<1>7. G = Nat
  <2> HIDE DEF G
  <2>1. G \in SUBSET Nat
    BY DEF G
  <2> QED
    BY <1>5, <1>6, <2>1, SetInduction
<1>8. ASSUME NEW i \in 1 .. c.count PROVE Good(p[i])
  <2>1. i - 1 \in Nat
    OBVIOUS
  <2>2. i - 1 \in G
    <3> HIDE DEF G
    <3> QED
      BY <1>7, <2>1
  <2> QED
    BY <2>2
<1>9. ASSUME NEW i \in 1 .. c.count PROVE p[i] + w <= Memory
  BY <1>2, <1>8, <1>9, AlignedFits DEF Good
<1> QED
  BY <1>8, <1>9 DEF H!AllInside, H!Inside, Good, p

\* A game's cheats are numbered from 1.
LEMMA TableIs == ASSUME NEW g \in DOMAIN Table PROVE DOMAIN Table[g] \subseteq Nat \ {0}
<1> DEFINE Elem == { Table[g][i] : i \in DOMAIN Table[g] }
<1>1. Table[g] \in Seq(Elem)
  BY CheatAssumption
<1> HIDE DEF Elem
<1> QED
  BY <1>1

\* A cheat that fits reaches nothing past the memory.
LEMMA FitsInside ==
  ASSUME NEW c, c.width \in Nat \ {0}, c.step \in Nat, c.count \in Nat, c.address \in Nat, Memory \in Nat, H!Fits(c)
  PROVE  ~H!Reaches(c)
<1>1. c.address + c.width <= Memory /\ c.address % c.width = 0 /\ Memory % c.width = 0
  BY DEF H!Fits, H!Inside
<1>2. H!AllInside(c)
  BY <1>1, PlacesFit
<1> QED
  BY <1>1, <1>2 DEF H!Reaches, H!Inside

\* One step of the thread over the list: nothing but these five change.
LEMMA AppliedKeeps ==
  ASSUME CheatInv, NEW i \in DOMAIN ListOf(state),
         NEW s, s \in CheatRec(s.ram, s.run), ~s.bad, Loaded(s), Outside(s), s.list = state.list, s.game # None,
         NEW r \in H!Apply(s, i)
  PROVE  Applied(r, s)
<1> DEFINE c == ListOf(state)[i]
           of == IF s.of = None THEN s.game ELSE s.of
           out == IF H!Reaches(c) THEN s.out \cup {i} ELSE s.out
           t == [s EXCEPT !.of = of, !.out = out]
<1>1. H!List = ListOf(state) /\ ListOf(s) = ListOf(state)
  BY DEF H!List, ListOf
<1>2. Applied(s, s)
  BY DEF Applied, Unmoved
<1>3. /\ state.list \in DOMAIN Table /\ c = Table[state.list][i] /\ i \in DOMAIN Table[state.list]
      /\ i \in Nat
  <2>1. state.list \in DOMAIN Table
    BY DEF ListOf, CheatInv, CheatOk, CheatTypes, CheatRec, H!Games
  <2>2. ListOf(state) = Table[state.list]
    BY <2>1, CheatAssumption DEF ListOf
  <2>3. DOMAIN Table[state.list] \subseteq Nat
    BY <2>1, TableIs
  <2> QED
    BY <2>1, <2>2, <2>3
<1>4. c.kind # "code" /\ H!Reaches(c) => ~H!Fits(c)
  <2> HIDE DEF c
  <2> QED
    BY <1>3, CheatAssumption, FitsInside
<1>5. of = s.game
  BY DEF Loaded
<1>6. c.kind # "code" => Applied(t, s) /\ t.of = t.game /\ t.ram = s.ram
  <2> SUFFICES ASSUME c.kind # "code" PROVE Applied(t, s) /\ t.of = t.game /\ t.ram = s.ram
    OBVIOUS
  <2>1. of \in H!Games \cup {None} /\ out \in SUBSET Nat
    <3>1. s.out \in SUBSET Nat /\ s.game \in H!Games \cup {None}
      BY DEF CheatRec
    <3> QED
      BY <1>3, <1>5, <3>1, Zenon
  <2>2. \A j \in out : j \in DOMAIN ListOf(state) /\ ~H!Fits(ListOf(state)[j])
    BY <1>1, <1>4 DEF Outside
  <2> HIDE DEF of, out, c
  <2>3. t \in CheatRec(s.ram, s.run)
    BY <2>1, ZenonT(40) DEF CheatRec
  <2>4. /\ t.of = of /\ t.out = out /\ t.ram = s.ram /\ t.run = s.run /\ t.bad = s.bad
        /\ Unmoved(t, s)
    BY ZenonT(40) DEF CheatRec, Unmoved
  <2> HIDE DEF t
  <2>5. ListOf(t) = ListOf(state)
    BY <1>1, <2>4 DEF Unmoved, ListOf
  <2>6. Outside(t)
    BY <2>2, <2>4, <2>5 DEF Outside
  <2>7. Loaded(t) /\ t.of = t.game
    BY <1>5, <2>4 DEF Loaded, Unmoved
  <2> QED
    BY <2>3, <2>4, <2>6, <2>7 DEF Applied
<1>7. ASSUME NEW u, Applied(u, s), NEW run
      PROVE  Applied([u EXCEPT !.run = run], s)
  <2> DEFINE v == [u EXCEPT !.run = run]
  <2>1. v \in CheatRec(u.ram, run)
    BY <1>7, ZenonT(40) DEF CheatRec, Applied
  <2>2. v.of = u.of /\ v.ram = u.ram /\ v.run = run /\ v.bad = u.bad /\ v.out = u.out /\ Unmoved(v, u)
    BY <1>7, ZenonT(40) DEF CheatRec, Unmoved, Applied
  <2> HIDE DEF v
  <2> QED
    BY <1>7, <2>1, <2>2 DEF Loaded, Outside, ListOf, Unmoved, Applied, v
<1>8. ASSUME NEW u, Applied(u, s), NEW ram
      PROVE  Applied([u EXCEPT !.ram = ram], s)
  <2> DEFINE v == [u EXCEPT !.ram = ram]
  <2>1. v \in CheatRec(ram, u.run)
    BY <1>8, ZenonT(40) DEF CheatRec, Applied
  <2>2. v.of = u.of /\ v.ram = ram /\ v.run = u.run /\ v.bad = u.bad /\ v.out = u.out /\ Unmoved(v, u)
    BY <1>8, ZenonT(40) DEF CheatRec, Unmoved, Applied
  <2> HIDE DEF v
  <2> QED
    BY <1>8, <2>1, <2>2 DEF Loaded, Outside, ListOf, Unmoved, Applied, v
<1>9. \/ r = s
      \/ r = [s EXCEPT !.run = TRUE]
      \/ c.kind # "code" /\ \E now : r = H!Effect(t, c, now)
  <2>1. r \in IF c.kind = "code" THEN {s} ELSE H!ApplyRetro(s, i, c)
    BY <1>1 DEF H!Apply
  <2>2. H!ApplyRetro(s, i, c) =
           IF ~s.run THEN {[s EXCEPT !.run = TRUE]}
           ELSE IF t.of # t.game THEN {[t EXCEPT !.bad = TRUE]}
           ELSE { H!Effect(t, c, now) : now \in H!ValueAt(t.ram, c.address, c.width) }
    BY Zenon DEF H!ApplyRetro
  <2> HIDE DEF c, t
  <2> QED
    BY <1>6, <2>1, <2>2
<1>10. ASSUME c.kind # "code", NEW now, r = H!Effect(t, c, now)
       PROVE  Applied(r, s)
  <2>1. \/ r = [t EXCEPT !.run = H!Holds(c, now)]
        \/ r = [t EXCEPT !.ram = H!Written(t.ram, c, H!Target(c, now))]
    <3> HIDE DEF c, t
    <3> QED
      BY <1>10, Zenon DEF H!Effect
  <2> HIDE DEF t, c
  <2> QED
    BY <1>6, <1>7, <1>8, <1>10, <2>1
<1> HIDE DEF c, t
<1> QED
  BY <1>2, <1>7, <1>9, <1>10

LEMMA CheatInit == ASSUME H!Init PROVE CheatInv
BY CheatAssumption DEF H!Init, CheatInv, CheatOk, CheatTypes, CheatRec, OwnList, Running, Woken, Outside, ListOf

\* The thread turns to the next cheat.
LEMMA NextIsApplied ==
  ASSUME CheatInv, NEW s, s = [state EXCEPT !.next = state.next + 1, !.applied = TRUE]
  PROVE  /\ s \in CheatRec(s.ram, s.run) /\ s.next = state.next + 1 /\ s.applied /\ s.game = state.game
         /\ s.status = state.status /\ s.list = state.list /\ s.on = state.on /\ s.at = state.at
         /\ s.keep = state.keep /\ s.sema = state.sema /\ s.due = state.due /\ s.of = state.of
         /\ s.bad = state.bad /\ s.out = state.out /\ s.ram = state.ram
<1> DEFINE n == state.next + 1
<1>1. state \in CheatRec(state.ram, state.run)
  BY DEF CheatInv, CheatOk, CheatTypes
<1>2. n \in Nat
  BY <1>1 DEF CheatRec
<1>3. s = [state EXCEPT !.next = n, !.applied = TRUE]
  OBVIOUS
<1> HIDE DEF n
<1>4. s \in CheatRec(state.ram, state.run)
  BY ONLY <1>1, <1>2, <1>3, ZenonT(40) DEF CheatRec
<1>5. /\ s.next = n /\ s.applied /\ s.game = state.game
      /\ s.status = state.status /\ s.list = state.list /\ s.on = state.on /\ s.at = state.at
      /\ s.keep = state.keep /\ s.sema = state.sema /\ s.due = state.due /\ s.of = state.of
      /\ s.bad = state.bad /\ s.out = state.out /\ s.ram = state.ram /\ s.run = state.run
  BY ONLY <1>1, <1>3 DEF CheatRec
<1> QED
  BY <1>4, <1>5 DEF n

LEMMA CheatStep == ASSUME CheatInv, H!Next PROVE CheatInv'
<1> USE CheatAssumption
<1>1. state \in CheatRec(state.ram, state.run)
  BY DEF CheatInv, CheatOk, CheatTypes
<1>2. H!List = ListOf(state)
  BY DEF H!List, ListOf
<1>3. CASE H!Warmed
  BY <1>1, <1>3 DEF H!Warmed, CheatInv, CheatOk, CheatTypes, CheatRec, OwnList, Running, Loaded, Woken, Outside, ListOf
<1>4. CASE H!Top
  <2>1. CASE state.keep /\ state.status \in {"game", "menu"}
    <3>1. state' = [state EXCEPT !.at = "apply", !.next = 1, !.run = TRUE, !.applied = FALSE] /\ state.at = "top"
      BY <1>4, <2>1 DEF H!Top
    <3>2. \A i \in state.on : i >= 1
      <4>1. DOMAIN ListOf(state) \subseteq Nat \ {0}
        BY <1>1 DEF ListOf, CheatRec, H!Games
      <4> QED
        BY <4>1 DEF CheatInv, CheatOk, CheatTypes
    <3> QED
      BY <1>1, <2>1, <3>1, <3>2 DEF CheatInv, CheatOk, CheatTypes, CheatRec, OwnList, Running, Loaded, Woken, Outside, ListOf
  <2>2. CASE ~(state.keep /\ state.status \in {"game", "menu"})
    <3>1. state' = [state EXCEPT !.at = "off"]
      BY <1>4, <2>2 DEF H!Top
    <3> QED
      BY <1>1, <3>1 DEF CheatInv, CheatOk, CheatTypes, CheatRec, OwnList, Running, Loaded, Woken, Outside, ListOf
  <2> QED
    BY <2>1, <2>2
<1>5. CASE H!ApplyNext
  <2>1. state.at = "apply" /\ state.next <= Len(ListOf(state)) /\ Loaded(state) /\ state.next \in Nat
    BY <1>1, <1>2, <1>5 DEF H!ApplyNext, CheatInv, CheatOk, Running, CheatRec
  <2>2. CASE state.next \in state.on
    <3> DEFINE s == [state EXCEPT !.next = state.next + 1, !.applied = TRUE]
    <3>1. state.next \in DOMAIN ListOf(state)
      BY <2>2 DEF CheatInv, CheatOk, CheatTypes
    <3>2. s \in CheatRec(s.ram, s.run)
      BY NextIsApplied, Zenon
    <3>3. /\ s.next = state.next + 1 /\ s.game = state.game /\ s.status = state.status /\ s.list = state.list
          /\ s.on = state.on /\ s.at = state.at /\ s.applied /\ s.keep = state.keep
          /\ s.sema = state.sema /\ s.due = state.due /\ s.of = state.of /\ s.bad = state.bad /\ s.out = state.out
      BY NextIsApplied, Zenon
    <3>4. state' \in H!Apply(s, state.next)
      BY <1>5, <2>2 DEF H!ApplyNext
    <3> HIDE DEF s
    <3>5. Loaded(s) /\ Outside(s) /\ ~s.bad /\ s.game # None /\ s.list = state.list
      BY <2>1, <3>3 DEF Loaded, Outside, ListOf, CheatInv, CheatOk
    <3>6. Applied(state', s)
      BY <3>1, <3>2, <3>4, <3>5, AppliedKeeps
    <3> QED
      BY <2>1, <3>3, <3>6 DEF Applied, Unmoved, CheatInv, CheatOk, CheatTypes, OwnList, Running, Loaded, Woken, ListOf
  <2>3. CASE state.next \notin state.on
    <3>1. state' = [state EXCEPT !.next = state.next + 1]
      BY <1>5, <2>3 DEF H!ApplyNext
    <3>2. state' \in CheatRec(state'.ram, state'.run)
      BY <1>1, <3>1 DEF CheatRec
    <3>3. /\ state'.next = state.next + 1 /\ state'.game = state.game /\ state'.status = state.status
          /\ state'.list = state.list /\ state'.on = state.on /\ state'.at = state.at
          /\ state'.applied = state.applied /\ state'.keep = state.keep /\ state'.sema = state.sema
          /\ state'.due = state.due /\ state'.of = state.of /\ state'.bad = state.bad /\ state'.out = state.out
      BY <1>1, <3>1 DEF CheatRec
    <3>4. \A i \in state.on : i \in Nat /\ i # state.next /\ state.next \in Nat
      BY <1>1, <2>3 DEF CheatRec
    <3>5. (\A i \in state.on : i >= state.next) => \A i \in state.on : i >= state.next + 1
      BY <3>4
    <3> QED
      BY <3>2, <3>3, <3>5 DEF CheatInv, CheatOk, CheatTypes, OwnList, Running, Loaded, Woken, Outside, ListOf
  <2> QED
    BY <2>2, <2>3
<1>6. CASE H!Rest
  <2>1. state.at = "apply" /\ state.next > Len(ListOf(state)) /\ Loaded(state)
    BY <1>2, <1>6 DEF H!Rest, CheatInv, CheatOk, Running
  <2>2. (\A i \in state.on : i >= state.next) => state.on = {}
    <3>1. DOMAIN ListOf(state) = 1 .. Len(ListOf(state)) /\ Len(ListOf(state)) \in Nat
      BY <1>1 DEF ListOf, CheatRec, H!Games
    <3> QED
      BY <1>1, <2>1, <3>1 DEF CheatInv, CheatOk, CheatTypes, CheatRec
  <2> QED
    BY <1>1, <1>6, <2>1, <2>2
    DEF H!Rest, CheatInv, CheatOk, CheatTypes, CheatRec, OwnList, Running, Loaded, Woken, Outside, ListOf
<1>7. CASE H!DelayOver
  BY <1>1, <1>7 DEF H!DelayOver, CheatInv, CheatOk, CheatTypes, CheatRec, OwnList, Running, Loaded, Woken, Outside, ListOf
<1>8. CASE H!Wakes
  BY <1>1, <1>8 DEF H!Wakes, CheatInv, CheatOk, CheatTypes, CheatRec, OwnList, Running, Loaded, Woken, Outside, ListOf
<1>9. CASE \E g \in H!Games : \E on \in SUBSET DOMAIN Table[g] : H!LoadRom(g, on)
  <2>1. PICK g \in H!Games : \E on \in SUBSET DOMAIN Table[g] : H!LoadRom(g, on)
    BY <1>9
  <2>2. PICK on \in SUBSET DOMAIN Table[g] : H!LoadRom(g, on)
    BY <2>1
  <2> DEFINE some == Len(Table[g]) > 0
             at == IF some THEN "warm" ELSE "off"
             ram == [a \in DOMAIN state.ram |-> 0]
  <2>3. some \in BOOLEAN
    BY SMT
  <2>4. at = IF some THEN "warm" ELSE "off"
    OBVIOUS
  <2>5. on \in SUBSET Nat
    BY TableIs DEF H!Games
  <2>6. /\ state.game = None /\ state.at = "off"
        /\ state' = [state EXCEPT !.game = g, !.status = "game", !.list = g, !.on = on, !.warm = FALSE,
                       !.ram = ram, !.out = {}, !.keep = some, !.at = at]
    BY <2>2, Zenon DEF H!LoadRom
  <2> HIDE DEF ram, some, at
  <2>7. /\ state'.game = g /\ state'.status = "game" /\ state'.list = g /\ state'.on = on
        /\ state'.at = at /\ state'.keep = some /\ state'.of = state.of /\ state'.bad = state.bad
        /\ state'.run = state.run /\ state'.out = {}
    BY <1>1, <2>6 DEF CheatRec
  <2>8. state' \in CheatRec(state'.ram, state'.run)
    BY <1>1, <2>3, <2>4, <2>5, <2>6, ZenonT(40) DEF CheatRec, H!Games
  <2>9. at \in {"warm", "off"} /\ g \in H!Games /\ ~state.bad
    BY <2>4 DEF CheatInv, CheatOk
  <2>10. g # None
    BY <2>9 DEF H!Games
  <2>11. ListOf(state') = Table[g]
    BY <2>7, <2>10 DEF ListOf
  <2> QED
    BY <2>7, <2>8, <2>9, <2>10, <2>11 DEF CheatInv, CheatOk, CheatTypes, OwnList, Running, Woken, Outside
<1>10. CASE H!LeaveGame
  BY <1>1, <1>10 DEF H!LeaveGame, CheatInv, CheatOk, CheatTypes, CheatRec, OwnList, Running, Loaded, Woken, Outside, ListOf
<1>11. CASE H!StopThread
  BY <1>1, <1>11 DEF H!StopThread, CheatInv, CheatOk, CheatTypes, CheatRec, OwnList, Running, Loaded, Woken, Outside, ListOf
<1>12. CASE H!UnloadGame
  BY <1>1, <1>12 DEF H!UnloadGame, CheatInv, CheatOk, CheatTypes, CheatRec, OwnList, Running, Loaded, Woken, Outside, ListOf
<1>13. CASE H!Frame
  <2>1. CASE state' = [state EXCEPT !.warm = TRUE]
    BY <1>1, <2>1 DEF CheatInv, CheatOk, CheatTypes, CheatRec, OwnList, Running, Loaded, Woken, Outside, ListOf
  <2>2. CASE \E ram : state' = [state EXCEPT !.ram = ram]
    BY <1>1, <2>2 DEF CheatInv, CheatOk, CheatTypes, CheatRec, OwnList, Running, Loaded, Woken, Outside, ListOf
  <2> QED
    BY <1>13, <2>1, <2>2 DEF H!Frame
<1>14. CASE H!Toggle
  BY <1>1, <1>14 DEF H!Toggle, CheatInv, CheatOk, CheatTypes, CheatRec, OwnList, Running, Loaded, Woken, Outside, ListOf
<1>15. CASE H!Rewind
  BY <1>1, <1>15 DEF H!Rewind, CheatInv, CheatOk, CheatTypes, CheatRec, OwnList, Running, Loaded, Woken, Outside, ListOf
<1>16. CASE \E i \in 1 .. 3 : H!Switch(i)
  <2>1. PICK i \in DOMAIN ListOf(state) :
           state' = [state EXCEPT !.on = IF i \in state.on THEN state.on \ {i} ELSE state.on \cup {i}, !.due = TRUE]
    BY <1>2, <1>16, Zenon DEF H!Switch
  <2> DEFINE on == IF i \in state.on THEN state.on \ {i} ELSE state.on \cup {i}
  <2>2. i \in Nat
    BY <1>1, TableIs DEF ListOf, CheatRec, H!Games
  <2>3. on \in SUBSET Nat /\ on \subseteq DOMAIN ListOf(state)
    BY <1>1, <2>2 DEF CheatInv, CheatOk, CheatTypes, CheatRec
  <2> HIDE DEF on
  <2>4. state' = [state EXCEPT !.on = on, !.due = TRUE]
    BY <2>1 DEF on
  <2> QED
    BY <1>1, <2>3, <2>4 DEF CheatInv, CheatOk, CheatTypes, CheatRec, OwnList, Running, Loaded, Woken, Outside, ListOf
<1>17. CASE H!ChangeCheatConfig
  BY <1>1, <1>17
  DEF H!ChangeCheatConfig, CheatInv, CheatOk, CheatTypes, CheatRec, OwnList, Running, Loaded, Woken, Outside, ListOf
<1> QED
  BY <1>3, <1>4, <1>5, <1>6, <1>7, <1>8, <1>9, <1>10, <1>11, <1>12, <1>13, <1>14, <1>15, <1>16, <1>17
  DEF H!Next
(* What the cheats write are bytes: the values a cheat repeats with are    *)
(* numbers, and a byte is a number modulo Base.                            *)
Ram == [0 .. Memory - 1 -> H!Byte]
ValuesTo(c, v, n, f) == f = [i \in 1 .. n |-> IF i = 1 THEN v ELSE H!NextValue(c, f[i - 1])]
WrittenTo(ram, c, v, n, r) ==
    r = [i \in 0 .. n |-> IF i = 0 THEN ram ELSE H!Poke(r[i - 1], H!Place(c)[i], c.width, H!Values(c, v)[i])]

LEMMA ValuesExist == ASSUME NEW c, NEW v, NEW n \in Nat PROVE \E f : ValuesTo(c, v, n, f)
<1> DEFINE G == { k \in Nat : \E f : ValuesTo(c, v, k, f) }
<1>1. 0 \in G
  <2> DEFINE f == [i \in 1 .. 0 |-> 0]
  <2>1. ValuesTo(c, v, 0, f)
    BY DEF ValuesTo
  <2> QED
    BY <2>1
<1>2. ASSUME NEW k \in G PROVE k + 1 \in G
  <2>1. k \in Nat
    OBVIOUS
  <2>2. PICK f : ValuesTo(c, v, k, f)
    OBVIOUS
  <2> DEFINE last == IF k = 0 THEN v ELSE H!NextValue(c, f[k])
             q == [i \in 1 .. k + 1 |-> IF i = k + 1 THEN last ELSE f[i]]
             r == [i \in 1 .. k + 1 |-> IF i = 1 THEN v ELSE H!NextValue(c, q[i - 1])]
  <2>3. ASSUME NEW i \in 1 .. k + 1 PROVE q[i] = r[i]
    <3>1. CASE i = k + 1
      BY <2>1, <3>1
    <3>2. CASE i # k + 1
      <4>1. i \in 1 .. k /\ q[i] = f[i]
        BY <2>1, <3>2
      <4>2. f[i] = IF i = 1 THEN v ELSE H!NextValue(c, f[i - 1])
        BY <2>2, <4>1 DEF ValuesTo
      <4>3. i # 1 => i - 1 \in 1 .. k /\ q[i - 1] = f[i - 1]
        BY <2>1, <4>1
      <4> QED
        BY <4>1, <4>2, <4>3
    <3> QED
      BY <3>1, <3>2
  <2>4. q = r
    BY <2>3
  <2> HIDE DEF q
  <2>5. ValuesTo(c, v, k + 1, q)
    BY <2>4 DEF ValuesTo
  <2> QED
    BY <2>1, <2>5
<1> HIDE DEF G
<1>3. G = Nat
  <2>1. G \in SUBSET Nat
    BY DEF G
  <2> QED
    BY <1>1, <1>2, <2>1, SetInduction
<1> QED
  BY <1>3 DEF G

LEMMA ValuesAre ==
    ASSUME NEW c, c.count \in Nat, c.add \in Nat, c.width \in Nat \ {0}, NEW v \in Nat
    PROVE  \A i \in 1 .. c.count : H!Values(c, v)[i] \in Nat
<1> DEFINE f == H!Values(c, v)
           G == { k \in Nat : k + 1 \in 1 .. c.count => f[k + 1] \in Nat }
<1>1. ValuesTo(c, v, c.count, f)
  <2>1. \E g : ValuesTo(c, v, c.count, g)
    BY ValuesExist
  <2>2. f = CHOOSE g : ValuesTo(c, v, c.count, g)
    BY DEF H!Values, ValuesTo
  <2> QED
    BY <2>1, <2>2
<1> HIDE DEF f
<1>2. \A i \in 1 .. c.count : f[i] = IF i = 1 THEN v ELSE H!NextValue(c, f[i - 1])
  BY <1>1 DEF ValuesTo
<1>3. ASSUME NEW x \in Nat PROVE H!NextValue(c, x) \in Nat
  <2>1. H!Mask(c.width) \in Nat \ {0}
    BY CheatAssumption DEF H!Mask, H!Word
  <2>2. x + c.add \in Nat
    OBVIOUS
  <2> QED
    BY <2>1, <2>2, Division, Zenon DEF H!NextValue
<1>4. 0 \in G
  BY <1>2
<1>5. ASSUME NEW k \in G PROVE k + 1 \in G
  <2>1. ASSUME k + 2 \in 1 .. c.count PROVE f[k + 2] \in Nat
    <3>1. k + 1 \in 1 .. c.count
      BY <2>1
    <3>2. f[k + 2] = H!NextValue(c, f[k + 1])
      BY <1>2, <2>1, <3>1
    <3> QED
      BY <1>3, <3>1, <3>2
  <2> QED
    BY <2>1
<1>6. G = Nat
  <2> HIDE DEF G
  <2>1. G \in SUBSET Nat
    BY DEF G
  <2> QED
    BY <1>4, <1>5, <2>1, SetInduction
<1>7. ASSUME NEW i \in 1 .. c.count PROVE f[i] \in Nat
  <2>1. i - 1 \in Nat
    OBVIOUS
  <2>2. i - 1 \in G
    <3> HIDE DEF G
    <3> QED
      BY <1>6, <2>1
  <2> QED
    BY <2>2
<1> QED
  BY <1>7 DEF f

LEMMA PokeKeeps ==
    ASSUME NEW ram \in Ram, NEW a, NEW w, NEW v \in Nat
    PROVE  H!Poke(ram, a, w, v) \in Ram
<1>1. Base \in Nat \ {0} /\ \A x : x \in Nat /\ x < Base => x \in H!Byte
  BY CheatAssumption DEF H!Byte
<1>2. v % Base \in H!Byte /\ v \div Base \in Nat
  BY <1>1, Division, Zenon
<1>3. (v \div Base) % Base \in H!Byte
  BY <1>1, <1>2, Division, Zenon
<1> QED
  BY <1>2, <1>3 DEF H!Poke, Ram

LEMMA WrittenExists == ASSUME NEW ram, NEW c, NEW v, NEW n \in Nat PROVE \E r : WrittenTo(ram, c, v, n, r)
<1> DEFINE G == { k \in Nat : \E f : WrittenTo(ram, c, v, k, f) }
           On(x, i) == H!Poke(x, H!Place(c)[i], c.width, H!Values(c, v)[i])
<1>1. 0 \in G
  <2> DEFINE f == [i \in 0 .. 0 |-> ram]
             g == [i \in 0 .. 0 |-> IF i = 0 THEN ram ELSE On(f[i - 1], i)]
  <2> HIDE DEF On
  <2>1. f = g
    OBVIOUS
  <2>2. WrittenTo(ram, c, v, 0, f)
    BY <2>1 DEF WrittenTo, On
  <2> QED
    BY <2>2
<1>2. ASSUME NEW k \in G PROVE k + 1 \in G
  <2>1. k \in Nat
    OBVIOUS
  <2>2. PICK f : WrittenTo(ram, c, v, k, f)
    OBVIOUS
  <2> DEFINE q == [i \in 0 .. k + 1 |-> IF i = k + 1 THEN On(f[k], k + 1) ELSE f[i]]
             r == [i \in 0 .. k + 1 |-> IF i = 0 THEN ram ELSE On(q[i - 1], i)]
  <2>3. f = [i \in 0 .. k |-> IF i = 0 THEN ram ELSE On(f[i - 1], i)]
    BY <2>2 DEF WrittenTo
  <2> HIDE DEF On
  <2>4. ASSUME NEW i \in 0 .. k + 1 PROVE q[i] = r[i]
    <3>1. CASE i = k + 1
      BY <2>1, <3>1
    <3>2. CASE i # k + 1
      <4>1. i \in 0 .. k /\ q[i] = f[i]
        BY <2>1, <3>2
      <4>2. f[i] = IF i = 0 THEN ram ELSE On(f[i - 1], i)
        BY <2>3, <4>1
      <4>3. i # 0 => i - 1 \in 0 .. k /\ q[i - 1] = f[i - 1]
        BY <2>1, <4>1
      <4> QED
        BY <4>1, <4>2, <4>3
    <3> QED
      BY <3>1, <3>2
  <2>5. q = r
    BY <2>4
  <2> HIDE DEF q
  <2>6. WrittenTo(ram, c, v, k + 1, q)
    BY <2>5 DEF WrittenTo, On
  <2> QED
    BY <2>1, <2>6
<1> HIDE DEF G
<1>3. G = Nat
  <2>1. G \in SUBSET Nat
    BY DEF G
  <2> QED
    BY <1>1, <1>2, <2>1, SetInduction
<1> QED
  BY <1>3 DEF G

LEMMA WrittenBytes ==
    ASSUME NEW ram \in Ram, NEW c, c.count \in Nat, c.add \in Nat, c.width \in Nat \ {0}, NEW v \in Nat
    PROVE  H!Written(ram, c, v) \in Ram
<1> DEFINE On(x, i) == H!Poke(x, H!Place(c)[i], c.width, H!Values(c, v)[i])
<1>1. PICK r : WrittenTo(ram, c, v, c.count, r) /\ H!Written(ram, c, v) = r[c.count]
  <2>1. \E g : WrittenTo(ram, c, v, c.count, g)
    BY WrittenExists
  <2> DEFINE r == CHOOSE g : WrittenTo(ram, c, v, c.count, g)
  <2>2. H!Written(ram, c, v) = r[c.count]
    BY DEF H!Written, WrittenTo
  <2> QED
    BY <2>1, <2>2
<1>2. r = [i \in 0 .. c.count |-> IF i = 0 THEN ram ELSE On(r[i - 1], i)]
  BY <1>1 DEF WrittenTo
<1>3. ASSUME NEW i \in 1 .. c.count, NEW x \in Ram PROVE On(x, i) \in Ram
  BY ValuesAre, PokeKeeps
<1> HIDE DEF On
<1>4. r[0] = ram /\ \A i \in 1 .. c.count : r[i] = On(r[i - 1], i)
  BY <1>2
<1> DEFINE G == { k \in Nat : k \in 0 .. c.count => r[k] \in Ram }
<1>5. 0 \in G
  BY <1>4
<1>6. ASSUME NEW k \in G PROVE k + 1 \in G
  BY <1>3, <1>4
<1>7. G = Nat
  <2> HIDE DEF G
  <2>1. G \in SUBSET Nat
    BY DEF G
  <2> QED
    BY <1>5, <1>6, <2>1, SetInduction
<1>8. c.count \in G
  <2> HIDE DEF G
  <2> QED
    BY <1>7
<1> QED
  BY <1>1, <1>8

\* What is read is a number, of whatever is past the end too.
LEMMA ReadIs ==
    ASSUME NEW ram \in Ram, NEW a \in Nat, NEW w \in Nat \ {0}, NEW now \in H!ValueAt(ram, a, w)
    PROVE  now \in Nat
<1>1. CASE ~H!Inside(a, w)
  <2>1. now \in 0 .. H!Word(w) - 1 /\ H!Word(w) \in Nat \ {0}
    BY <1>1, CheatAssumption DEF H!ValueAt, H!Word
  <2> QED
    BY <2>1
<1>2. CASE H!Inside(a, w)
  <2>1. \A x \in 0 .. Memory - 1 : ram[x] \in Nat
    BY CheatAssumption DEF Ram, H!Byte
  <2>2. a \in 0 .. Memory - 1 /\ (w # 1 => a + 1 \in 0 .. Memory - 1)
    BY <1>2, CheatAssumption DEF H!Inside
  <2>3. ram[a] \in Nat /\ (w # 1 => ram[a + 1] \in Nat)
    BY <2>1, <2>2
  <2>4. \A x, y \in Nat : x + Base * y \in Nat
    BY CheatAssumption
  <2>5. now = IF w = 1 THEN ram[a] ELSE ram[a] + Base * ram[a + 1]
    BY <1>2, Zenon DEF H!ValueAt
  <2> QED
    BY <2>3, <2>4, <2>5, Zenon
<1> QED
  BY <1>1, <1>2

LEMMA AppliedRam ==
    ASSUME CheatInv, NEW i \in DOMAIN ListOf(state),
           NEW s, s \in CheatRec(s.ram, s.run), s.ram \in Ram, NEW r \in H!Apply(s, i)
    PROVE  r.ram \in Ram
<1> DEFINE c == ListOf(state)[i]
           t == [s EXCEPT !.of = IF s.of = None THEN s.game ELSE s.of,
                          !.out = IF H!Reaches(c) THEN s.out \cup {i} ELSE s.out]
<1>1. state.list \in DOMAIN Table /\ c = Table[state.list][i] /\ i \in DOMAIN Table[state.list]
  <2>1. state.list \in DOMAIN Table
    BY DEF ListOf, CheatInv, CheatOk, CheatTypes, CheatRec, H!Games
  <2>2. ListOf(state) = Table[state.list]
    BY <2>1, CheatAssumption DEF ListOf
  <2> QED
    BY <2>1, <2>2
<1>2. H!List = ListOf(state)
  BY DEF H!List, ListOf
<1> HIDE DEF c
<1>3. t.ram = s.ram /\ \A x : [t EXCEPT !.ram = x].ram = x /\ [t EXCEPT !.run = x].ram = s.ram
                                               /\ [t EXCEPT !.bad = x].ram = s.ram
  BY DEF CheatRec
<1>4. [s EXCEPT !.run = TRUE].ram = s.ram
  BY DEF CheatRec
<1>5. \/ r = s \/ r = [s EXCEPT !.run = TRUE] \/ r = [t EXCEPT !.bad = TRUE]
      \/ c.kind # "code" /\ \E now \in H!ValueAt(t.ram, c.address, c.width) : r = H!Effect(t, c, now)
  <2>1. r \in IF c.kind = "code" THEN {s} ELSE H!ApplyRetro(s, i, c)
    BY <1>2 DEF H!Apply, c
  <2>2. H!ApplyRetro(s, i, c) =
           IF ~s.run THEN {[s EXCEPT !.run = TRUE]}
           ELSE IF t.of # t.game THEN {[t EXCEPT !.bad = TRUE]}
           ELSE { H!Effect(t, c, now) : now \in H!ValueAt(t.ram, c.address, c.width) }
    BY Zenon DEF H!ApplyRetro
  <2> HIDE DEF t
  <2> QED
    BY <2>1, <2>2
<1>6. ASSUME c.kind # "code", NEW now \in H!ValueAt(t.ram, c.address, c.width), r = H!Effect(t, c, now)
      PROVE  r.ram \in Ram
  <2>1. CASE c.kind \in H!Conditions
    <3>1. r = [t EXCEPT !.run = H!Holds(c, now)]
      BY <1>6, <2>1, Zenon DEF H!Effect
    <3> HIDE DEF t
    <3> QED
      BY <1>3, <3>1
  <2>2. CASE c.kind \notin H!Conditions
    <3>1. /\ c.kind \in {"set", "increase"} /\ c.value \in Nat /\ c.add \in Nat
          /\ c.width \in Nat \ {0} /\ c.count \in Nat /\ c.address \in Nat
      BY <1>1, <1>6, <2>2, CheatAssumption
    <3>2. r = [t EXCEPT !.ram = H!Written(t.ram, c, H!Target(c, now))]
      BY <1>6, <2>2, Zenon DEF H!Effect
    <3>3. now \in Nat
      <4> HIDE DEF t
      <4>1. t.ram \in Ram
        BY <1>3
      <4> QED
        BY <1>6, <3>1, <4>1, ReadIs
    <3>4. H!Target(c, now) \in Nat
      <4>1. H!Word(c.width) \in Nat \ {0}
        BY CheatAssumption DEF H!Word
      <4>2. now + c.value \in Nat
        BY <3>1, <3>3
      <4>3. (now + c.value) % H!Word(c.width) \in Nat
        BY <4>1, <4>2, Division, Zenon
      <4> QED
        BY <3>1, <4>3 DEF H!Target
    <3>5. H!Written(s.ram, c, H!Target(c, now)) \in Ram
      BY <3>1, <3>4, WrittenBytes
    <3> HIDE DEF t
    <3>6. r.ram = H!Written(s.ram, c, H!Target(c, now))
      BY <1>3, <3>2
    <3> QED
      BY <3>5, <3>6
  <2> QED
    BY <2>1, <2>2
<1> HIDE DEF t
<1> QED
  BY <1>3, <1>4, <1>5, <1>6

LEMMA RamStep == ASSUME CheatInv, state.ram \in Ram, H!Next PROVE state'.ram \in Ram
<1>1. state \in CheatRec(state.ram, state.run) /\ H!List = ListOf(state)
  BY DEF CheatInv, CheatOk, CheatTypes, H!List, ListOf
<1>2. CASE H!ApplyNext
  <2>1. CASE state.next \in state.on
    <3> DEFINE s == [state EXCEPT !.next = state.next + 1, !.applied = TRUE]
    <3>1. state.next \in DOMAIN ListOf(state)
      BY <2>1 DEF CheatInv, CheatOk, CheatTypes
    <3>2. s \in CheatRec(s.ram, s.run) /\ s.ram = state.ram
      BY NextIsApplied, Zenon
    <3>3. state' \in H!Apply(s, state.next)
      BY <1>2, <2>1 DEF H!ApplyNext
    <3> HIDE DEF s
    <3> QED
      BY <3>1, <3>2, <3>3, AppliedRam
  <2>2. CASE state.next \notin state.on
    <3>1. state' = [state EXCEPT !.next = state.next + 1]
      BY <1>2, <2>2 DEF H!ApplyNext
    <3> QED
      BY <1>1, <3>1 DEF CheatRec
  <2> QED
    BY <2>1, <2>2
<1>3. ASSUME NEW g \in H!Games, NEW on \in SUBSET DOMAIN Table[g], H!LoadRom(g, on) PROVE state'.ram \in Ram
  <2>1. state'.ram = [a \in DOMAIN state.ram |-> 0]
    BY <1>1, <1>3 DEF H!LoadRom, CheatRec
  <2> QED
    BY <2>1, CheatAssumption DEF Ram, H!Byte
<1>4. CASE H!Frame
  <2>1. state'.ram = state.ram \/ \E v \in H!Byte : state'.ram = [state.ram EXCEPT ![0] = v]
    BY <1>1, <1>4 DEF H!Frame, CheatRec
  <2> QED
    BY <2>1 DEF Ram
<1>5. CASE H!Warmed \/ H!Top \/ H!Rest \/ H!DelayOver \/ H!Wakes
  BY <1>1, <1>5 DEF H!Warmed, H!Top, H!Rest, H!DelayOver, H!Wakes, CheatRec
<1>6. CASE H!LeaveGame \/ H!StopThread \/ H!UnloadGame \/ H!Toggle \/ H!Rewind \/ H!ChangeCheatConfig
  BY <1>1, <1>6 DEF H!LeaveGame, H!StopThread, H!UnloadGame, H!Toggle, H!Rewind, H!ChangeCheatConfig, CheatRec
<1>7. ASSUME NEW i \in 1 .. 3, H!Switch(i) PROVE state'.ram \in Ram
  BY <1>1, <1>7 DEF H!Switch, CheatRec
<1> QED
  BY <1>2, <1>3, <1>4, <1>5, <1>6, <1>7 DEF H!Next

LEMMA CheatTyped == ASSUME CheatInv, state.ram \in Ram PROVE H!TypeOK
<1>1. state \in CheatRec(state.ram, state.run) /\ state.on \subseteq DOMAIN ListOf(state)
  BY DEF CheatInv, CheatOk, CheatTypes
<1> QED
  BY <1>1 DEF CheatRec, Ram, ListOf, H!List, H!TypeOK

LEMMA CheatKept == ASSUME CheatInv PROVE H!StaysInItsMemory /\ H!EnabledAreApplied
<1>1. H!List = ListOf(state)
  BY DEF H!List, ListOf
<1> QED
  BY <1>1 DEF CheatInv, CheatOk, Outside, Woken, H!StaysInItsMemory, H!EnabledAreApplied

(* The files a game is read from.                                          *)
LEMMA SiftedInCache == ASSUME NEW Elem, NEW s \in Seq(Elem), NEW set PROVE C!Only(s, set) \in Seq(Elem \cap set)
<1>1. C!Only(s, set) = Only(s, set)
  BY DEF C!Only, Only
<1> QED
  BY <1>1, OnlyThose

LEMMA CheckSizeKeeps == ASSUME NEW Elem, NEW s \in Seq(Elem) PROVE C!CheckSize(s) \in Seq(Elem)
<1>1. CASE Len(s) <= MaxSize
  BY <1>1 DEF C!CheckSize
<1>2. CASE ~(Len(s) <= MaxSize)
  <2>1. s # <<>>
    BY <1>2, RomAssumption
  <2>2. Tail(s) \in Seq(Elem)
    BY <2>1
  <2> QED
    BY <1>2, <2>2 DEF C!CheckSize
<1> QED
  BY <1>1, <1>2

LEMMA StartIs ==
  ASSUME NEW r, r \in RomRec(r.written), OnCard(r), InBlocks(r)
  PROVE  RomOk(C!Start(r))
<1> DEFINE found(k) == C!Only(r.files, { n \in C!CacheName : C!KindOf(n) = k })
           keys(k) == [i \in DOMAIN found(k) |-> C!Scanned(found(k)[i], r.space)]
           cut == { n \in C!CacheName : r.card[n] = "part" }
           map == [k \in C!Kind |-> C!CheckSize(keys(k))]
           There == { n \in C!CacheName : r.card[n] # "none" }
           Sure(k) == { key \in RomKey : /\ C!KindOf(key.name) = k
                                         /\ ~key.space => /\ key.name \in There
                                                          /\ r.card[key.name] = "part" => key.name \in cut }
           s == C!Start(r)
<1>1. s = [r EXCEPT !.map = map, !.at = None, !.asked = None, !.got = "none", !.cut = cut]
  BY DEF C!Start
<1>2. ASSUME NEW k \in C!Kind PROVE map[k] \in Seq(Sure(k))
  <2> DEFINE Here == There \cap { n \in C!CacheName : C!KindOf(n) = k }
  <2>1. found(k) \in Seq(Here)
    BY SiftedInCache DEF OnCard
  <2>2. ASSUME NEW i \in DOMAIN found(k) PROVE C!Scanned(found(k)[i], r.space) \in Sure(k)
    <3> DEFINE n == found(k)[i]
    <3>1. n \in Here
      BY <2>1
    <3> HIDE DEF n
    <3>2. C!Scanned(n, r.space) \in RomKey /\ C!Scanned(n, r.space).name = n
      BY <3>1 DEF C!Scanned, RomKey, RomRec
    <3> QED
      BY <3>1, <3>2 DEF n
  <2> HIDE DEF found, Sure
  <2>3. keys(k) \in Seq(Sure(k))
    <3>1. PICK m \in Nat : DOMAIN found(k) = 1 .. m
      BY <2>1
    <3>2. keys(k) \in [1 .. m -> Sure(k)]
      BY <2>2, <3>1
    <3> QED
      BY <3>2
  <2> HIDE DEF keys
  <2>4. C!CheckSize(keys(k)) \in Seq(Sure(k))
    BY <2>3, CheckSizeKeeps
  <2> QED
    BY <2>4
<1> HIDE DEF map
<1>3. map \in [C!Kind -> Seq(RomKey)]
  <2>1. \A k \in C!Kind : map[k] \in Seq(RomKey)
    <3>1. \A k \in C!Kind : Sure(k) \subseteq RomKey
      OBVIOUS
    <3> HIDE DEF Sure
    <3> QED
      BY <1>2, <3>1
  <2> QED
    BY <2>1 DEF map
<1>4. cut \in SUBSET C!CacheName
  OBVIOUS
<1> HIDE DEF cut
<1>5. s \in RomRec(r.written)
  BY <1>1, <1>3, <1>4, ZenonT(40) DEF RomRec
<1>6. /\ s.map = map /\ s.at = None /\ s.asked = None /\ s.cut = cut /\ s.card = r.card
      /\ s.files = r.files /\ s.written = r.written
  BY <1>1 DEF RomRec
<1> HIDE DEF s, found
<1>7. KeptWhole(s)
  <2>1. ASSUME NEW k \in C!Kind PROVE Sure(k) = KeysFor(s, k)
    <3>1. ASSUME NEW key \in RomKey
          PROVE  key \in Sure(k) <=> key \in KeysFor(s, k)
      <4>1. key.name \in C!CacheName
        BY DEF RomKey
      <4> QED
        BY <1>6, <4>1 DEF StoodFor, KeysFor
    <3>2. Sure(k) \subseteq RomKey /\ KeysFor(s, k) \subseteq RomKey
      BY DEF KeysFor
    <3> HIDE DEF Sure
    <3> QED
      BY <3>1, <3>2
  <2> HIDE DEF Sure
  <2> QED
    BY <1>2, <1>6, <2>1 DEF KeptWhole
<1> QED
  BY <1>5, <1>6, <1>7 DEF RomOk, OnCard, UnderWay, InBlocks, Answered, s

LEMMA RomInit == ASSUME C!Init PROVE RomInv
<1>1. PICK space \in BOOLEAN :
         state = C!Start([space |-> space, card |-> [n \in C!CacheName |-> "none"], files |-> <<>>, at |-> None,
                 map |-> [k \in C!Kind |-> <<>>], asked |-> None, got |-> "none", cut |-> {}, written |-> 0])
  BY DEF C!Init
<1> DEFINE r == [space |-> space, card |-> [n \in C!CacheName |-> "none"], files |-> <<>>, at |-> None,
                 map |-> [k \in C!Kind |-> <<>>], asked |-> None, got |-> "none", cut |-> {}, written |-> 0]
<1>2. /\ [k \in C!Kind |-> <<>>] \in [C!Kind -> Seq(RomKey)] /\ <<>> \in Seq(C!CacheName)
      /\ [n \in C!CacheName |-> "none"] \in [C!CacheName -> {"none", "part", "whole", "block"}]
      /\ {} \in SUBSET C!CacheName
  OBVIOUS
<1>3. r \in RomRec(r.written)
  BY <1>2, ZenonT(40) DEF RomRec
<1>4. OnCard(r) /\ InBlocks(r)
  BY DEF OnCard, InBlocks
<1> HIDE DEF r
<1> QED
  BY <1>1, <1>3, <1>4, StartIs DEF r, RomInv

LEMMA NameIs ==
  ASSUME NEW g \in C!AnyGame, C!NameOf(g) # None
  PROVE  /\ C!NameOf(g) \in C!CacheName /\ C!KindOf(C!NameOf(g)) \in C!Kind
         /\ g \in Archived => C!NameOf(g) = g
         /\ C!NameOf(g) \in Archived => C!NameOf(g) = g
BY RomAssumption DEF C!NameOf, C!AnyGame, C!CacheName, C!KindOf, C!Kind

LEMMA Members ==
  ASSUME NEW Elem, NEW s \in Seq(Elem), NEW Other, \A i \in DOMAIN s : s[i] \in Other
  PROVE  s \in Seq(Other)
<1>1. PICK m \in Nat : s \in [1 .. m -> Elem]
  OBVIOUS
<1>2. s \in [1 .. m -> Other]
  BY <1>1
<1> QED
  BY <1>2

LEMMA CachedIs ==
  ASSUME NEW r, r \in RomRec(r.written), KeptWhole(r), NEW n \in C!CacheName, C!IsInCache(r, n)
  PROVE  r.card[n] # "none" /\ (r.card[n] = "part" => n \in r.cut)
<1>1. C!KindOf(n) \in C!Kind
  BY DEF C!KindOf, C!Kind
<1>2. PICK i \in DOMAIN r.map[C!KindOf(n)] : r.map[C!KindOf(n)][i] = C!Key(n)
  BY DEF C!IsInCache
<1>3. C!Key(n) \in KeysFor(r, C!KindOf(n))
  BY <1>1, <1>2 DEF KeptWhole
<1> QED
  BY <1>3 DEF KeysFor, StoodFor, C!Key

\* What is read from is told by the card and the maps as they are.
LEMMA AnswerIs ==
  ASSUME NEW r, r \in RomRec(r.written), OnCard(r), KeptWhole(r), InBlocks(r),
         NEW g \in C!AnyGame, NEW got \in {"none", "part", "whole", "block"},
         \/ got = "whole"
         \/ got = "none" /\ g \in Archived /\ ~C!IsInCache(r, C!NameOf(g))
         \/ got = "part" /\ C!NameOf(g) \in r.cut
         \/ got = "block" /\ g \in Solid
  PROVE  RomOk([r EXCEPT !.at = None, !.asked = g, !.got = got])
<1> DEFINE s == [r EXCEPT !.at = None, !.asked = g, !.got = got]
<1>1. s \in RomRec(r.written)
  BY ZenonT(40) DEF RomRec
<1>2. /\ s.map = r.map /\ s.at = None /\ s.asked = g /\ s.got = got /\ s.cut = r.cut /\ s.card = r.card
      /\ s.files = r.files /\ s.written = r.written
  BY DEF RomRec
<1> HIDE DEF s
<1>3. KeptWhole(s)
  <2>1. \A k : KeysFor(s, k) = KeysFor(r, k)
    BY <1>2 DEF KeysFor, StoodFor
  <2> QED
    BY <1>2, <2>1 DEF KeptWhole
<1>4. Answered(s)
  BY <1>2 DEF Answered, C!IsInCache
<1>5. RomOk(s)
  BY <1>1, <1>2, <1>3, <1>4 DEF RomOk, OnCard, UnderWay, InBlocks
<1> QED
  BY <1>5 DEF s

LEMMA RomUses ==
  ASSUME RomInv, NEW g \in C!AnyGame, C!UseItself(g) \/ C!UseCached(g) \/ C!NotFound(g)
  PROVE  RomInv'
<1>1. state \in RomRec(state.written) /\ OnCard(state) /\ KeptWhole(state) /\ InBlocks(state)
  BY DEF RomInv, RomOk
<1>2. CASE C!UseItself(g)
  <2>1. state' = [state EXCEPT !.at = None, !.asked = g, !.got = "whole"]
    BY <1>2 DEF C!UseItself, C!Itself
  <2> QED
    BY <1>1, <2>1, AnswerIs, Zenon DEF RomInv
<1>3. CASE C!UseCached(g)
  <2> DEFINE n == C!NameOf(g)
             got == state.card[n]
  <2>1. n # None /\ C!IsInCache(state, n) /\ state' = [state EXCEPT !.at = None, !.asked = g, !.got = got]
    BY <1>3 DEF C!UseCached, C!Read
  <2>2. n \in C!CacheName /\ (n \in Archived => n = g)
    BY <2>1, NameIs
  <2>3. got # "none" /\ (got = "part" => n \in state.cut)
    BY <1>1, <2>1, <2>2, CachedIs
  <2>4. got \in {"none", "part", "whole", "block"} /\ (got = "block" => g \in Solid)
    BY <1>1, <2>2, RomAssumption DEF RomRec, InBlocks
  <2> HIDE DEF got
  <2> QED
    BY <1>1, <2>1, <2>3, <2>4, AnswerIs, Zenon DEF RomInv
<1>4. CASE C!NotFound(g)
  <2>1. g \in Archived /\ ~C!IsInCache(state, g) /\ state' = [state EXCEPT !.at = None, !.asked = g, !.got = "none"]
    BY <1>4 DEF C!NotFound, C!Nothing
  <2>2. C!NameOf(g) = g
    BY <2>1, RomAssumption DEF C!NameOf
  <2> QED
    BY <1>1, <2>1, <2>2, AnswerIs, Zenon DEF RomInv
<1> QED
  BY <1>2, <1>3, <1>4

LEMMA RomBegin == ASSUME RomInv, NEW g \in C!AnyGame, C!Begin(g) PROVE RomInv'
<1> DEFINE n == C!NameOf(g)
           written == state.written + 1
           card == [state.card EXCEPT ![n] = "part"]
           files == Append(C!Only(state.files, C!CacheName \ {n}), n)
           s == [state EXCEPT !.at = g, !.card = card, !.written = written, !.files = files]
<1>1. /\ state \in RomRec(state.written) /\ OnCard(state) /\ KeptWhole(state) /\ InBlocks(state)
      /\ Answered(state)
  BY DEF RomInv, RomOk
<1>2. /\ state.at = None /\ n # None /\ ~C!IsInCache(state, n)
      /\ state' = [state EXCEPT !.at = g, !.card[n] = "part", !.written = written, !.files = files]
  BY DEF C!Begin
<1>3. n \in C!CacheName /\ C!KindOf(n) \in C!Kind
  BY <1>2, NameIs
<1>4. /\ card \in [C!CacheName -> {"none", "part", "whole", "block"}] /\ card[n] = "part"
      /\ \A m \in C!CacheName \ {n} : card[m] = state.card[m]
  BY <1>1, <1>3 DEF RomRec
<1>5. state' = s
  BY <1>1, <1>2 DEF RomRec
<1> DEFINE There == {m \in C!CacheName : card[m] # "none"}
<1>6. files \in Seq(There)
  <2> DEFINE rest == C!Only(state.files, C!CacheName \ {n})
             Was == {m \in C!CacheName : state.card[m] # "none"}
  <2>1. rest \in Seq(Was \cap (C!CacheName \ {n}))
    BY <1>1, SiftedInCache DEF OnCard
  <2>2. Was \cap (C!CacheName \ {n}) \subseteq There /\ n \in There
    BY <1>3, <1>4
  <2> HIDE DEF rest, Was, There
  <2>3. rest \in Seq(There)
    BY <2>1, <2>2
  <2> QED
    BY <2>2, <2>3 DEF rest
<1>7. files \in Seq(C!CacheName)
  <2>1. There \subseteq C!CacheName
    OBVIOUS
  <2> HIDE DEF There, files
  <2> QED
    BY <1>6, <2>1
<1> HIDE DEF files, card, written
<1>8. s \in RomRec(written)
  BY <1>1, <1>4, <1>7, ZenonT(40) DEF RomRec
<1>9. /\ s.map = state.map /\ s.at = g /\ s.asked = state.asked /\ s.got = state.got /\ s.cut = state.cut
      /\ s.card = card /\ s.files = files /\ s.written = written
  BY <1>1 DEF RomRec
<1> HIDE DEF s
<1>10. \A m : C!IsInCache(s, m) <=> C!IsInCache(state, m)
  BY <1>9 DEF C!IsInCache
<1>11. KeptWhole(s)
  <2> SUFFICES ASSUME NEW k \in C!Kind
               PROVE  s.map[k] \in Seq(KeysFor(s, k))
    BY DEF KeptWhole
  <2>1. ASSUME NEW i \in DOMAIN state.map[k]
        PROVE  state.map[k][i] \in KeysFor(s, k)
    <3> DEFINE key == state.map[k][i]
    <3>1. key \in KeysFor(state, k)
      BY <1>1 DEF KeptWhole
    <3>2. CASE key.space
      BY <3>1, <3>2 DEF KeysFor, StoodFor
    <3>3. CASE ~key.space
      <4>1. key.name # n
        <5> SUFFICES ASSUME key.name = n PROVE FALSE
          OBVIOUS
        <5>1. k = C!KindOf(n)
          BY <3>1 DEF KeysFor
        <5>2. key = C!Key(n)
          BY <3>1, <3>3 DEF KeysFor, RomKey, C!Key
        <5> QED
          BY <1>2, <5>1, <5>2 DEF C!IsInCache
      <4> HIDE DEF key
      <4>2. key.name \in C!CacheName
        BY <3>1 DEF KeysFor, RomKey
      <4>3. card[key.name] = state.card[key.name]
        BY <1>4, <4>1, <4>2
      <4>4. key \in KeysFor(s, k)
        BY <1>9, <3>1, <4>3 DEF KeysFor, StoodFor
      <4> QED
        BY <4>4 DEF key
    <3> QED
      BY <3>2, <3>3
  <2>2. state.map[k] \in Seq(KeysFor(state, k))
    BY <1>1 DEF KeptWhole
  <2> QED
    BY <1>9, <2>1, <2>2, Members
<1>12. OnCard(s) /\ InBlocks(s) /\ UnderWay(s) /\ Answered(s)
  <2>1. OnCard(s)
    BY <1>6, <1>9 DEF OnCard
  <2>2. InBlocks(s)
    BY <1>1, <1>4, <1>9 DEF InBlocks
  <2>3. UnderWay(s) /\ Answered(s)
    BY <1>1, <1>2, <1>9, <1>10 DEF UnderWay, Answered
  <2> QED
    BY <2>1, <2>2, <2>3
<1> QED
  BY <1>5, <1>8, <1>9, <1>11, <1>12 DEF RomInv, RomOk

LEMMA RomDone == ASSUME RomInv, C!Done PROVE RomInv'
<1> DEFINE g == state.at
           n == C!NameOf(g)
           got == C!Contents(g)
           card == [state.card EXCEPT ![n] = got]
           keys == C!CheckSize(Append(state.map[C!KindOf(n)], C!Key(n)))
           map == [state.map EXCEPT ![C!KindOf(n)] = keys]
           cut == state.cut \ {n}
           s == [state EXCEPT !.card = card, !.map = map, !.cut = cut]
<1>1. /\ state \in RomRec(state.written) /\ OnCard(state) /\ KeptWhole(state) /\ InBlocks(state)
      /\ UnderWay(state)
  BY DEF RomInv, RomOk
<1>2. g \in C!AnyGame /\ n # None
  BY <1>1 DEF C!Done, RomRec, UnderWay
<1>3. n \in C!CacheName /\ C!KindOf(n) \in C!Kind /\ (g \in Archived => n = g)
  BY <1>2, NameIs
<1>4. got \in {"whole", "block"} /\ (got = "block" => g \in Solid /\ n \in Solid)
  BY <1>3, RomAssumption DEF C!Contents
<1>5. state' = [s EXCEPT !.at = None, !.asked = g, !.got = s.card[n]]
  <2>1. [state EXCEPT !.card[n] = got] = [state EXCEPT !.card = card]
    BY <1>1 DEF RomRec
  <2> DEFINE t == [state EXCEPT !.card = card]
             u == [t EXCEPT !.map[C!KindOf(n)] = C!CheckSize(Append(@, C!Key(n)))]
  <2>2. u = C!Set(t, n) /\ state' = C!Read([u EXCEPT !.cut = u.cut \ {n}], g)
    BY <2>1 DEF C!Done, C!Set
  <2>3. t.map = state.map /\ t.cut = state.cut
    BY <1>1 DEF RomRec
  <2>4. u = [t EXCEPT !.map = map]
    BY <2>3
  <2>5. [u EXCEPT !.cut = u.cut \ {n}] = s
    BY <1>1, <2>3, <2>4 DEF RomRec
  <2> QED
    BY <2>2, <2>5 DEF C!Read
<1> HIDE DEF got
<1>6. /\ card \in [C!CacheName -> {"none", "part", "whole", "block"}] /\ card[n] = got
      /\ \A m \in C!CacheName \ {n} : card[m] = state.card[m]
  BY <1>1, <1>3, <1>4 DEF RomRec
<1> DEFINE Sure(k) == { key \in RomKey : /\ C!KindOf(key.name) = k
                                         /\ ~key.space => /\ card[key.name] # "none"
                                                          /\ card[key.name] = "part" => key.name \in cut }
<1>7. \A k \in C!Kind : KeysFor(state, k) \subseteq Sure(k)
  <2> SUFFICES ASSUME NEW k \in C!Kind, NEW key \in KeysFor(state, k)
               PROVE  key \in Sure(k)
    OBVIOUS
  <2>1. key \in RomKey /\ key.name \in C!CacheName
    BY DEF KeysFor, RomKey
  <2>2. CASE key.name = n
    BY <1>4, <1>6, <2>1, <2>2 DEF KeysFor
  <2>3. CASE key.name # n
    <3>1. card[key.name] = state.card[key.name] /\ (key.name \in state.cut => key.name \in cut)
      BY <1>6, <2>1, <2>3
    <3> HIDE DEF card, cut
    <3> QED
      BY <2>1, <3>1 DEF KeysFor, StoodFor
  <2> QED
    BY <2>2, <2>3
<1>8. keys \in Seq(Sure(C!KindOf(n)))
  <2> DEFINE k == C!KindOf(n)
             kept == state.map[k]
  <2>1. C!Key(n) \in Sure(k)
    BY <1>3, <1>4, <1>6 DEF C!Key, RomKey
  <2>2. kept \in Seq(KeysFor(state, k)) /\ KeysFor(state, k) \subseteq Sure(k)
    BY <1>1, <1>3, <1>7 DEF KeptWhole
  <2> HIDE DEF Sure, kept
  <2>3. kept \in Seq(Sure(k))
    BY <2>2
  <2>4. Append(kept, C!Key(n)) \in Seq(Sure(k))
    BY <2>1, <2>3
  <2> QED
    BY <2>4, CheckSizeKeeps DEF kept
<1>9. \A k \in C!Kind : map[k] \in Seq(Sure(k))
  <2> SUFFICES ASSUME NEW k \in C!Kind
               PROVE  map[k] \in Seq(Sure(k))
    OBVIOUS
  <2>1. state.map[k] \in Seq(KeysFor(state, k)) /\ KeysFor(state, k) \subseteq Sure(k)
    BY <1>1, <1>7 DEF KeptWhole
  <2> HIDE DEF Sure, keys
  <2>2. state.map[k] \in Seq(Sure(k))
    BY <2>1
  <2>3. map[k] = IF k = C!KindOf(n) THEN keys ELSE state.map[k]
    BY <1>1 DEF RomRec
  <2> HIDE DEF map
  <2> QED
    BY <1>8, <2>2, <2>3
<1>10. map \in [C!Kind -> Seq(RomKey)]
  <2>1. \A k \in C!Kind : Sure(k) \subseteq RomKey
    OBVIOUS
  <2> HIDE DEF Sure, keys
  <2>2. \A k \in C!Kind : map[k] \in Seq(RomKey)
    BY <1>9, <2>1
  <2>3. DOMAIN map = C!Kind /\ map = [k \in DOMAIN map |-> map[k]]
    BY <1>1 DEF RomRec
  <2> HIDE DEF map
  <2> QED
    BY <2>2, <2>3
<1>11. cut \in SUBSET C!CacheName
  BY <1>1 DEF RomRec
<1> HIDE DEF card, map, cut, keys
<1>12. s \in RomRec(state.written)
  BY <1>1, <1>6, <1>10, <1>11, ZenonT(40) DEF RomRec
<1>13. /\ s.map = map /\ s.card = card /\ s.cut = cut /\ s.files = state.files /\ s.written = state.written
  BY <1>1 DEF RomRec
<1> HIDE DEF s
<1>14. KeptWhole(s)
  <2>1. \A k : Sure(k) = KeysFor(s, k)
    BY <1>13 DEF KeysFor, StoodFor
  <2> HIDE DEF Sure
  <2> QED
    BY <1>9, <1>13, <2>1 DEF KeptWhole
<1>15. OnCard(s) /\ InBlocks(s)
  <2>1. ASSUME NEW m \in C!CacheName, state.card[m] # "none" PROVE card[m] # "none"
    BY <1>4, <1>6, <2>1
  <2> DEFINE Was == {m \in C!CacheName : state.card[m] # "none"}
             Now == {m \in C!CacheName : card[m] # "none"}
  <2>2. Was \subseteq Now
    BY <2>1
  <2> HIDE DEF Was, Now
  <2>3. state.files \in Seq(Now)
    BY <1>1, <2>2 DEF OnCard, Was
  <2>4. OnCard(s)
    BY <1>13, <2>3 DEF OnCard, Now
  <2>5. InBlocks(s)
    BY <1>1, <1>4, <1>6, <1>13 DEF InBlocks
  <2> QED
    BY <2>4, <2>5
<1>16. RomOk([s EXCEPT !.at = None, !.asked = g, !.got = got])
  BY <1>2, <1>4, <1>12, <1>13, <1>14, <1>15, AnswerIs, Zenon
<1> QED
  BY <1>5, <1>6, <1>13, <1>16 DEF RomInv

LEMMA RomStep == ASSUME RomInv, C!Next PROVE RomInv'
<1>1. /\ state \in RomRec(state.written) /\ OnCard(state) /\ KeptWhole(state) /\ InBlocks(state)
      /\ UnderWay(state)
  BY DEF RomInv, RomOk
<1>2. CASE C!Restart
  BY <1>1, <1>2, StartIs DEF C!Restart, RomInv
<1>3. CASE C!ClearCache
  <2> DEFINE card == [n \in C!CacheName |-> "none"]
             map == [k \in C!Kind |-> <<>>]
             s == [state EXCEPT !.card = card, !.files = <<>>, !.got = "none", !.asked = None, !.cut = {}, !.map = map]
  <2>1. /\ card \in [C!CacheName -> {"none", "part", "whole", "block"}] /\ map \in [C!Kind -> Seq(RomKey)]
        /\ <<>> \in Seq(C!CacheName) /\ {} \in SUBSET C!CacheName
    OBVIOUS
  <2>2. state' = s /\ state.at = None
    BY <1>3 DEF C!ClearCache
  <2> HIDE DEF card, map
  <2>3. s \in RomRec(state.written)
    BY <1>1, <2>1, ZenonT(40) DEF RomRec
  <2>4. /\ s.map = map /\ s.card = card /\ s.files = <<>> /\ s.written = state.written /\ s.at = None /\ s.asked = None
    BY <1>1, <2>2 DEF RomRec
  <2> HIDE DEF s
  <2>5. OnCard(s) /\ KeptWhole(s) /\ InBlocks(s) /\ UnderWay(s) /\ Answered(s)
    <3>1. OnCard(s) /\ InBlocks(s)
      BY <2>4 DEF OnCard, InBlocks, card
    <3>2. KeptWhole(s)
      BY <2>4 DEF KeptWhole, map
    <3>3. UnderWay(s) /\ Answered(s)
      BY <2>4 DEF UnderWay, Answered
    <3> QED
      BY <3>1, <3>2, <3>3
  <2> QED
    BY <2>2, <2>3, <2>4, <2>5 DEF RomInv, RomOk
<1>4. CASE C!Failed
  <2>1. state.at \in C!AnyGame
    BY <1>1, <1>4 DEF C!Failed, RomRec
  <2>2. CASE state.at \in Arcade
    <3>1. state' = [state EXCEPT !.at = None, !.asked = state.at, !.got = "whole"]
      BY <1>4, <2>2 DEF C!Failed, C!Itself
    <3> QED
      BY <1>1, <2>1, <3>1, AnswerIs, Zenon DEF RomInv
  <2>3. CASE state.at \notin Arcade
    <3>1. state' = [state EXCEPT !.at = None, !.asked = state.at, !.got = "none"]
      BY <1>4, <2>3 DEF C!Failed, C!Nothing
    <3>2. state.at \in Archived /\ ~C!IsInCache(state, C!NameOf(state.at))
      BY <1>1, <1>4, <2>1, <2>3 DEF C!Failed, C!AnyGame, UnderWay
    <3> QED
      BY <1>1, <2>1, <3>1, <3>2, AnswerIs, Zenon DEF RomInv
  <2> QED
    BY <2>2, <2>3
<1> QED
  BY <1>2, <1>3, <1>4, RomDone, RomUses, RomBegin DEF C!Next

(* The launcher.                                                           *)
LEMMA SiftedRow ==
  ASSUME NEW Elem, NEW s \in Seq(Elem), NEW set
  PROVE  /\ L!Only(s, set) \in Seq(Elem \cap set)
         /\ \A i \in DOMAIN s : s[i] \in set => \E j \in DOMAIN L!Only(s, set) : L!Only(s, set)[j] = s[i]
<1>1. L!Only(s, set) = Only(s, set)
  BY DEF L!Only, Only
<1> QED
  BY <1>1, OnlyThose

LEMMA RowsAre == Rows \in Grid /\ \A c \in L!Console : \E r \in DOMAIN Rows : \E i \in DOMAIN Rows[r] : Rows[r][i] = c
<1>1. ASSUME NEW c \in L!Console
      PROVE  \E r \in DOMAIN Rows : \E i \in DOMAIN Rows[r] : Rows[r][i] = c
  BY DEF L!Console, L!ToSet
<1> QED
  BY <1>1, LaunchAssumption DEF Grid

\* The rows that are shown have the consoles chosen, each of them and no other.
LEMMA VisableIs ==
  ASSUME NEW shown \in SUBSET L!Console
  PROVE  /\ L!VisableButtons(shown) \in Seq(Seq(shown) \ {<<>>})
         /\ \A c \in shown : \E y \in DOMAIN L!VisableButtons(shown) :
               \E x \in DOMAIN L!VisableButtons(shown)[y] : L!VisableButtons(shown)[y][x] = c
<1> DEFINE rows == [r \in DOMAIN Rows |-> L!Only(Rows[r], shown)]
           full == L!ToSet(rows) \ {<<>>}
           v == L!VisableButtons(shown)
<1>1. v = L!Only(rows, full)
  BY DEF L!VisableButtons
<1>2. ASSUME NEW r \in DOMAIN Rows
      PROVE  /\ rows[r] \in Seq(shown)
             /\ \A i \in DOMAIN Rows[r] : Rows[r][i] \in shown => \E j \in DOMAIN rows[r] : rows[r][j] = Rows[r][i]
  <2> DEFINE row == Rows[r]
  <2>1. row \in Seq(L!Console) /\ L!Console \cap shown = shown
    BY RowsAre DEF Grid
  <2> HIDE DEF row
  <2>2. /\ L!Only(row, shown) \in Seq(shown)
        /\ \A i \in DOMAIN row : row[i] \in shown => \E j \in DOMAIN L!Only(row, shown) : L!Only(row, shown)[j] = row[i]
    BY <2>1, SiftedRow
  <2> QED
    BY <2>2 DEF row
<1>3. rows \in Seq(Seq(shown))
  <2>1. PICK n \in Nat : DOMAIN Rows = 1 .. n
    BY RowsAre DEF Grid
  <2>2. rows \in [1 .. n -> Seq(shown)]
    BY <1>2, <2>1
  <2> QED
    BY <2>2
<1> HIDE DEF rows
<1>4. /\ v \in Seq(Seq(shown) \cap full)
      /\ \A i \in DOMAIN rows : rows[i] \in full => \E j \in DOMAIN v : v[j] = rows[i]
  <2> DEFINE all == Seq(shown)
  <2> HIDE DEF all, full, v
  <2>1. rows \in Seq(all)
    BY <1>3 DEF all
  <2>2. /\ v \in Seq(all \cap full)
        /\ \A i \in DOMAIN rows : rows[i] \in full => \E j \in DOMAIN v : v[j] = rows[i]
    BY <1>1, <2>1, SiftedRow
  <2> QED
    BY <2>2 DEF all
<1>5. v \in Seq(Seq(shown) \ {<<>>})
  <2>1. Seq(shown) \cap full \subseteq Seq(shown) \ {<<>>}
    OBVIOUS
  <2> HIDE DEF full, v
  <2> QED
    BY <1>4, <2>1
<1>6. ASSUME NEW c \in shown
      PROVE  \E y \in DOMAIN v : \E x \in DOMAIN v[y] : v[y][x] = c
  <2>1. PICK r \in DOMAIN Rows : \E i \in DOMAIN Rows[r] : Rows[r][i] = c
    BY RowsAre
  <2>2. PICK j \in DOMAIN rows[r] : rows[r][j] = c
    BY <1>2, <2>1
  <2>3. r \in DOMAIN rows /\ rows[r] \in Seq(shown) /\ rows[r] # <<>>
    BY <1>2, <2>2 DEF rows
  <2>4. rows[r] \in full
    BY <2>3 DEF L!ToSet
  <2>5. PICK y \in DOMAIN v : v[y] = rows[r]
    BY <1>4, <2>3, <2>4
  <2> QED
    BY <2>2, <2>5
<1> QED
  BY <1>5, <1>6

LEMMA VisableGrid == ASSUME NEW shown \in (SUBSET L!Console) \ {{}} PROVE L!VisableButtons(shown) \in Grid
<1> DEFINE v == L!VisableButtons(shown)
<1>1. v \in Seq(Seq(shown) \ {<<>>}) /\ \A c \in shown : \E y \in DOMAIN v : \E x \in DOMAIN v[y] : v[y][x] = c
  BY VisableIs
<1> HIDE DEF v
<1>2. v # <<>>
  <2>1. PICK c : c \in shown
    <3>1. shown # {}
      OBVIOUS
    <3> QED
      BY <3>1
  <2>2. PICK y \in DOMAIN v : TRUE
    BY <1>1, <2>1
  <2> QED
    BY <2>2
<1>3. Seq(shown) \ {<<>>} \subseteq Seq(L!Console) \ {<<>>}
  OBVIOUS
<1>4. v \in Seq(Seq(L!Console) \ {<<>>})
  BY <1>1, <1>3
<1> QED
  BY <1>2, <1>4 DEF Grid, v

LEMMA PlaceThere ==
  ASSUME NEW rows, NEW c, NEW p
  PROVE  p \in L!Places(rows, c) <=> \E y \in DOMAIN rows : \E x \in DOMAIN rows[y] : rows[y][x] = c /\ p = <<x, y>>
BY DEF L!Places

\* A console that is shown is selected.
LEMMA SetIndexIs ==
  ASSUME NEW a, NEW c, L!Places(L!Current(a), c) # {}
  PROVE  \E y \in DOMAIN L!Current(a) : \E x \in DOMAIN L!Current(a)[y] :
            L!Current(a)[y][x] = c /\ L!SetIndex(a, c) = [a EXCEPT !.x = x, !.y = y]
<1> DEFINE p == CHOOSE q \in L!Places(L!Current(a), c) : TRUE
<1>1. p \in L!Places(L!Current(a), c)
  OBVIOUS
<1>2. L!SetIndex(a, c) = [a EXCEPT !.x = p[1], !.y = p[2]]
  BY DEF L!SetIndex
<1> HIDE DEF p
<1>3. PICK y \in DOMAIN L!Current(a) : \E x \in DOMAIN L!Current(a)[y] : L!Current(a)[y][x] = c /\ p = <<x, y>>
  BY <1>1, PlaceThere
<1>4. PICK x \in DOMAIN L!Current(a)[y] : L!Current(a)[y][x] = c /\ p = <<x, y>>
  BY <1>3
<1>5. p[1] = x /\ p[2] = y
  BY <1>4
<1> QED
  BY <1>2, <1>4, <1>5, Zenon

LEMMA GridIs ==
  ASSUME NEW g \in Grid
  PROVE  /\ Len(g) \in Nat /\ Len(g) >= 1 /\ DOMAIN g = 1 .. Len(g)
         /\ \A y \in 1 .. Len(g) : /\ Len(g[y]) \in Nat /\ Len(g[y]) >= 1 /\ DOMAIN g[y] = 1 .. Len(g[y])
                                   /\ \A x \in 1 .. Len(g[y]) : g[y][x] \in L!Console
<1> DEFINE Row == Seq(L!Console) \ {<<>>}
<1>1. \A row \in Row : /\ Len(row) \in Nat /\ Len(row) >= 1 /\ DOMAIN row = 1 .. Len(row)
                       /\ \A x \in 1 .. Len(row) : row[x] \in L!Console
  OBVIOUS
<1>2. g \in Seq(Row) /\ g # <<>>
  BY DEF Grid
<1> HIDE DEF Row
<1> QED
  BY <1>1, <1>2

LEMMA CurrentGrid == ASSUME NEW a, LaunchTypes(a) PROVE L!Current(a) \in Grid
BY RowsAre DEF L!Current, LaunchTypes, LaunchRec

LEMMA CoreIs ==
  ASSUME NEW c \in L!Console
  PROVE  Len(Cores(c)) \in Nat /\ Len(Cores(c)) >= 1 /\ DOMAIN Cores(c) = 1 .. Len(Cores(c))
BY LaunchAssumption

\* A launcher that starts: the console of the core that ran last is selected.
LEMMA StartedIs ==
  ASSUME NEW saved, saved # None => saved.shown \in (SUBSET L!Console) \ {{}}
  PROVE  LaunchOk(L!Started(saved))
<1> DEFINE shown == L!Load(saved).shown
           last == L!Load(saved).last
           v == L!VisableButtons(shown)
           core == [c \in L!Console |-> 1]
           b == [shown |-> shown, last |-> last, saved |-> saved, choice |-> FALSE, visible |-> v,
                 x |-> 1, y |-> 1, core |-> core, active |-> None,
                 step |-> "keys", boot |-> None, fresh |-> TRUE]
           found == {c \in L!Console : L!Places(v, c) # {} /\ last \in L!ToSet(Cores(c))}
<1>1. L!Started(saved) = L!RestoreLastCore(b)
  BY DEF L!Started
<1>2. shown \in (SUBSET L!Console) \ {{}}
  <2>1. CASE saved = None
    <3>1. shown = L!Console
      BY <2>1 DEF L!Load
    <3>2. 1 \in DOMAIN Rows /\ 1 \in DOMAIN Rows[1] /\ Rows[1][1] \in L!Console
      BY RowsAre, GridIs
    <3> QED
      BY <3>1, <3>2
  <2>2. CASE saved # None
    BY <2>2 DEF L!Load
  <2> QED
    BY <2>1, <2>2
<1> HIDE DEF shown, last
<1>3. v \in Grid
  BY <1>2, VisableGrid
<1>4. /\ v \in Seq(Seq(shown) \ {<<>>})
      /\ \A c \in shown : \E y \in DOMAIN v : \E x \in DOMAIN v[y] : v[y][x] = c
  BY <1>2, VisableIs
<1> HIDE DEF v
<1>5. core \in [L!Console -> Nat] /\ \A c \in L!Console : core[c] \in DOMAIN Cores(c)
  BY CoreIs
<1> HIDE DEF core
<1>6. b \in LaunchRec(last, saved, None)
  BY <1>2, <1>3, <1>5, ZenonT(40) DEF LaunchRec
<1>7. /\ b.shown = shown /\ b.last = last /\ b.saved = saved /\ ~b.choice /\ b.visible = v
      /\ b.x = 1 /\ b.y = 1 /\ b.core = core /\ b.active = None /\ b.step = "keys" /\ b.boot = None
  OBVIOUS
<1> HIDE DEF b
<1>8. 1 \in DOMAIN v /\ 1 \in DOMAIN v[1]
  BY <1>3, GridIs
<1>9. L!Current(b) = v
  BY <1>7 DEF L!Current
<1>13. ASSUME NEW c, L!Places(v, c) # {}
       PROVE  \E y \in DOMAIN v : \E x \in DOMAIN v[y] : v[y][x] = c /\ L!SetIndex(b, c) = [b EXCEPT !.x = x, !.y = y]
  <2>3. PICK a : a = b
    OBVIOUS
  <2>1. L!Places(L!Current(a), c) # {}
    BY <1>9, <1>13, <2>3
  <2>2. \E y \in DOMAIN L!Current(a) : \E x \in DOMAIN L!Current(a)[y] :
           L!Current(a)[y][x] = c /\ L!SetIndex(a, c) = [a EXCEPT !.x = x, !.y = y]
    BY ONLY <2>1, SetIndexIs, Zenon
  <2> QED
    BY <1>9, <2>2, <2>3, Zenon
<1>10. L!RestoreLastCore(b) =
         IF found = {} THEN b
         ELSE [L!SetIndex(b, CHOOSE d \in found : TRUE)
                 EXCEPT !.core[CHOOSE d \in found : TRUE] = L!PositionOf(Cores(CHOOSE d \in found : TRUE), last)]
  BY <1>7 DEF L!RestoreLastCore
<1>11. CASE found = {}
  <2>1. \A d \in shown : last \notin L!ToSet(Cores(d))
    <3> SUFFICES ASSUME NEW d \in shown, last \in L!ToSet(Cores(d))
                 PROVE  FALSE
      OBVIOUS
    <3>1. PICK y \in DOMAIN v : \E x \in DOMAIN v[y] : v[y][x] = d
      BY <1>4
    <3>2. PICK x \in DOMAIN v[y] : v[y][x] = d
      BY <3>1
    <3>3. <<x, y>> \in L!Places(v, d)
      BY <3>1, <3>2, PlaceThere
    <3>4. d \in L!Console
      BY <1>2
    <3> QED
      BY <1>11, <3>3, <3>4
  <2>2. L!Started(saved) = b
    BY <1>1, <1>10, <1>11
  <2> QED
    BY <1>5, <1>6, <1>7, <1>8, <1>9, <2>1, <2>2
    DEF LaunchOk, LaunchTypes, L!InRange, Opens, Untouched, Served
<1>12. CASE found # {}
  <2> DEFINE c == CHOOSE d \in found : TRUE
             position == L!PositionOf(Cores(c), last)
  <2>1. c \in found
    BY <1>12
  <2>2. L!Started(saved) = [L!SetIndex(b, c) EXCEPT !.core[c] = position]
    BY <1>1, <1>10, <1>12
  <2> HIDE DEF c
  <2>3. c \in L!Console /\ L!Places(v, c) # {} /\ last \in L!ToSet(Cores(c))
    BY <2>1
  <2>4. position \in DOMAIN Cores(c) /\ Cores(c)[position] = last /\ position \in Nat
    <3>1. \E i \in DOMAIN Cores(c) : Cores(c)[i] = last
      BY <2>3 DEF L!ToSet
    <3>2. position \in DOMAIN Cores(c) /\ Cores(c)[position] = last
      BY <3>1 DEF L!PositionOf
    <3>3. DOMAIN Cores(c) \subseteq Nat
      BY <2>3, CoreIs
    <3> QED
      BY <3>2, <3>3
  <2> HIDE DEF position
  <2>5. PICK y \in DOMAIN v : \E x \in DOMAIN v[y] :
           v[y][x] = c /\ L!SetIndex(b, c) = [b EXCEPT !.x = x, !.y = y]
    BY <1>13, <2>3, Zenon
  <2>6. PICK x \in DOMAIN v[y] : v[y][x] = c /\ L!SetIndex(b, c) = [b EXCEPT !.x = x, !.y = y]
    BY <2>5, Zenon
  <2> DEFINE now == [core EXCEPT ![c] = position]
             s == [b EXCEPT !.x = x, !.y = y, !.core = now]
  <2>7. L!Started(saved) = s
    <3>1. [b EXCEPT !.x = x, !.y = y].core = core
      BY <1>6, <1>7 DEF LaunchRec
    <3> QED
      BY <1>6, <2>2, <2>6, <3>1 DEF LaunchRec
  <2>8. now \in [L!Console -> Nat] /\ now[c] = position /\ \A d \in L!Console : now[d] \in DOMAIN Cores(d)
    BY <1>5, <2>3, <2>4
  <2> HIDE DEF now
  <2>9. x \in Nat /\ y \in Nat
    BY <1>3, GridIs
  <2>10. s \in LaunchRec(last, saved, None)
    BY <1>6, <2>8, <2>9, ZenonT(40) DEF LaunchRec
  <2>11. /\ s.shown = shown /\ s.last = last /\ s.saved = saved /\ ~s.choice /\ s.visible = v
         /\ s.x = x /\ s.y = y /\ s.core = now /\ s.active = None /\ s.step = "keys" /\ s.boot = None
    BY <1>6, <1>7 DEF LaunchRec
  <2> HIDE DEF s
  <2>12. L!Current(s) = v /\ L!Selected(s) = c
    BY <2>6, <2>11 DEF L!Current, L!Selected
  <2>13. c \in shown
    <3>1. v[y] \in Seq(shown)
      BY <1>4
    <3> QED
      BY <2>6, <3>1
  <2>14. LaunchTypes(s)
    BY <1>2, <2>8, <2>10, <2>11 DEF LaunchTypes
  <2>15. L!InRange(s) /\ Opens(s)
    BY <2>6, <2>11, <2>12 DEF L!InRange, Opens
  <2>16. Untouched(s)
    BY <2>3, <2>4, <2>8, <2>11, <2>12, <2>13 DEF Untouched, Served
  <2> QED
    BY <2>7, <2>14, <2>15, <2>16 DEF LaunchOk
<1> QED
  BY <1>11, <1>12

LEMMA LaunchInit == ASSUME L!Init PROVE LaunchInv
BY StartedIs DEF L!Init, LaunchInv

\* A key has been pressed: the index and the list that is open are all that counts.
LEMMA Pressed ==
  ASSUME NEW a, LaunchTypes(a), ~a.fresh, L!InRange(a), Opens(a)
  PROVE  LaunchOk(a)
BY DEF LaunchOk, Untouched

LEMMA MovesKeep ==
  ASSUME NEW a, LaunchTypes(a), a.active = None,
         NEW y \in DOMAIN L!Current(a), NEW x \in DOMAIN L!Current(a)[y]
  PROVE  LaunchOk([a EXCEPT !.x = x, !.y = y, !.fresh = FALSE])
<1> DEFINE s == [a EXCEPT !.x = x, !.y = y, !.fresh = FALSE]
<1>1. x \in Nat /\ y \in Nat
  BY CurrentGrid, GridIs
<1>2. s \in LaunchRec(a.last, a.saved, a.boot)
  BY <1>1, ZenonT(40) DEF LaunchTypes, LaunchRec
<1>3. /\ s.x = x /\ s.y = y /\ ~s.fresh /\ s.active = None /\ s.choice = a.choice /\ s.visible = a.visible
      /\ s.core = a.core /\ s.last = a.last /\ s.saved = a.saved /\ s.boot = a.boot
  BY DEF LaunchTypes, LaunchRec
<1> HIDE DEF s
<1>4. LaunchTypes(s)
  BY <1>2, <1>3 DEF LaunchTypes
<1>5. L!InRange(s) /\ Opens(s)
  BY <1>3 DEF L!InRange, Opens, L!Current
<1>6. LaunchOk(s)
  BY <1>3, <1>4, <1>5, Pressed
<1> QED
  BY <1>6 DEF s

LEMMA LesserIs == ASSUME NEW i \in Nat, NEW j \in Nat, i >= 1, j >= 1 PROVE L!Lesser(i, j) \in 1 .. i /\ L!Lesser(i, j) \in 1 .. j
BY DEF L!Lesser

LEMMA LaunchMoves ==
  ASSUME LaunchInv, L!OnKeyLeft \/ L!OnKeyRight \/ L!OnKeyUp \/ L!OnKeyDown
  PROVE  LaunchInv'
<1> DEFINE g == L!Current(state)
           x == state.x
           y == state.y
<1>1. LaunchTypes(state) /\ y \in DOMAIN g /\ x \in DOMAIN g[y]
  BY DEF LaunchInv, LaunchOk, L!InRange
<1>2. g \in Grid
  BY <1>1, CurrentGrid
<1>3. state.active = None
  BY DEF L!OnKeyLeft, L!OnKeyRight, L!OnKeyUp, L!OnKeyDown, L!Keys
<1> HIDE DEF g, x, y
<1>4. /\ Len(g) \in Nat /\ Len(g) >= 1 /\ DOMAIN g = 1 .. Len(g)
      /\ \A k \in 1 .. Len(g) : Len(g[k]) \in Nat /\ Len(g[k]) >= 1 /\ DOMAIN g[k] = 1 .. Len(g[k])
  BY <1>2, GridIs
<1>5. \E v \in DOMAIN g : \E u \in DOMAIN g[v] : state' = [state EXCEPT !.x = u, !.y = v, !.fresh = FALSE]
  <2>1. CASE L!OnKeyLeft
    <3>1. x > 1 /\ state' = [state EXCEPT !.x = x - 1, !.y = y, !.fresh = FALSE]
      BY <2>1 DEF L!OnKeyLeft, L!Moves, x, y
    <3>2. x - 1 \in DOMAIN g[y]
      BY <1>1, <1>4, <3>1
    <3> QED
      BY <1>1, <3>1, <3>2, Zenon
  <2>2. CASE L!OnKeyRight
    <3>1. x < Len(g[y]) /\ state' = [state EXCEPT !.x = x + 1, !.y = y, !.fresh = FALSE]
      BY <2>2 DEF L!OnKeyRight, L!Moves, x, y, g
    <3>2. x + 1 \in DOMAIN g[y]
      BY <1>1, <1>4, <3>1
    <3> QED
      BY <1>1, <3>1, <3>2, Zenon
  <2>3. CASE L!OnKeyUp
    <3> DEFINE u == L!Lesser(x, Len(g[y - 1]))
    <3>1. y > 1 /\ state' = [state EXCEPT !.x = u, !.y = y - 1, !.fresh = FALSE]
      BY <2>3 DEF L!OnKeyUp, L!Moves, x, y, g
    <3>2. y - 1 \in DOMAIN g
      BY <1>1, <1>4, <3>1
    <3>3. x \in Nat /\ x >= 1 /\ Len(g[y - 1]) \in Nat /\ Len(g[y - 1]) >= 1
      BY <1>1, <1>4, <3>2
    <3>4. u \in DOMAIN g[y - 1]
      BY <1>4, <3>2, <3>3, LesserIs
    <3> QED
      BY <3>1, <3>2, <3>4, Zenon
  <2>4. CASE L!OnKeyDown
    <3> DEFINE u == L!Lesser(x, Len(g[y + 1]))
    <3>1. y < Len(g) /\ state' = [state EXCEPT !.x = u, !.y = y + 1, !.fresh = FALSE]
      BY <2>4 DEF L!OnKeyDown, L!Moves, x, y, g
    <3>2. y + 1 \in DOMAIN g
      BY <1>1, <1>4, <3>1
    <3>3. x \in Nat /\ x >= 1 /\ Len(g[y + 1]) \in Nat /\ Len(g[y + 1]) >= 1
      BY <1>1, <1>4, <3>2
    <3>4. u \in DOMAIN g[y + 1]
      BY <1>4, <3>2, <3>3, LesserIs
    <3> QED
      BY <3>1, <3>2, <3>4, Zenon
  <2> QED
    BY <2>1, <2>2, <2>3, <2>4, Zenon
<1>6. PICK v \in DOMAIN g : \E u \in DOMAIN g[v] : state' = [state EXCEPT !.x = u, !.y = v, !.fresh = FALSE]
  BY <1>5, Zenon
<1>7. PICK u \in DOMAIN g[v] : state' = [state EXCEPT !.x = u, !.y = v, !.fresh = FALSE]
  BY <1>6, Zenon
<1>8. LaunchOk([state EXCEPT !.x = u, !.y = v, !.fresh = FALSE])
  BY <1>1, <1>3, <1>6, <1>7, MovesKeep, Zenon DEF g
<1> QED
  BY <1>7, <1>8 DEF LaunchInv

LEMMA SelectedIs ==
  ASSUME NEW a, LaunchTypes(a), L!InRange(a)
  PROVE  L!Selected(a) \in L!Console
BY CurrentGrid, GridIs DEF L!Selected, L!InRange

LEMMA LaunchChoice == ASSUME LaunchInv, L!OnKeyStart PROVE LaunchInv'
<1> DEFINE c == L!Selected(state)
<1>1. /\ LaunchTypes(state) /\ L!InRange(state) /\ state.active = None
      /\ state \in LaunchRec(state.last, state.saved, state.boot)
  BY DEF LaunchInv, LaunchOk, LaunchTypes, L!OnKeyStart, L!Keys
<1>2. c \in L!Console
  BY <1>1, SelectedIs
<1> HIDE DEF c
<1>3. CASE state.choice
  <2> DEFINE v == L!VisableButtons(state.shown)
             b == [state EXCEPT !.choice = FALSE, !.visible = v]
  <2>1. v \in Grid
    BY <1>1, VisableGrid DEF LaunchRec
  <2> HIDE DEF v
  <2>2. L!Current(b) = v /\ b.visible = v
    BY <1>1 DEF L!Current, LaunchRec
  <2>3. /\ Len(v) \in Nat /\ Len(v) >= 1 /\ DOMAIN v = 1 .. Len(v)
        /\ \A k \in 1 .. Len(v) : Len(v[k]) \in Nat /\ Len(v[k]) >= 1 /\ DOMAIN v[k] = 1 .. Len(v[k])
    BY <2>1, GridIs
  <2>4. state.x \in Nat /\ state.x >= 1 /\ state.y \in Nat /\ state.y >= 1
    BY <1>1, CurrentGrid, GridIs DEF L!InRange
  <2>5. \E y \in DOMAIN v : \E x \in DOMAIN v[y] : L!LeaveChoice(state, c) = [b EXCEPT !.x = x, !.y = y]
    <3> DEFINE place == L!Places(L!Current(b), c)
    <3>1. L!LeaveChoice(state, c) = IF place # {} THEN L!SetIndex(b, c) ELSE L!Clamped(b)
      BY <2>2 DEF L!LeaveChoice, v
    <3>2. CASE place # {}
      <4>1. L!Places(L!Current(b), c) # {}
        BY <3>2
      <4> HIDE DEF place, b
      <4>2. \E y \in DOMAIN L!Current(b) : \E x \in DOMAIN L!Current(b)[y] :
               L!Current(b)[y][x] = c /\ L!SetIndex(b, c) = [b EXCEPT !.x = x, !.y = y]
        BY <4>1, SetIndexIs, Zenon
      <4> QED
        BY <2>2, <3>1, <3>2, <4>2, Zenon
    <3>3. CASE place = {}
      <4> DEFINE y == L!Lesser(state.y, Len(v))
                 x == L!Lesser(state.x, Len(v[y]))
      <4>1. b.x = state.x /\ b.y = state.y
        BY <1>1 DEF LaunchRec
      <4>2. L!LeaveChoice(state, c) = [b EXCEPT !.y = y, !.x = x]
        BY <2>2, <3>1, <3>3, <4>1 DEF L!Clamped
      <4>3. y \in 1 .. Len(v)
        BY <2>3, <2>4, LesserIs
      <4> HIDE DEF y
      <4>4. x \in 1 .. Len(v[y])
        BY <2>3, <2>4, <4>3, LesserIs
      <4> HIDE DEF x
      <4>5. [b EXCEPT !.y = y, !.x = x] = [b EXCEPT !.x = x, !.y = y]
        BY <1>1 DEF LaunchRec
      <4> QED
        BY <2>3, <4>2, <4>3, <4>4, <4>5, Zenon
    <3> QED
      BY <3>2, <3>3, Zenon
  <2>6. PICK y \in DOMAIN v : \E x \in DOMAIN v[y] : L!LeaveChoice(state, c) = [b EXCEPT !.x = x, !.y = y]
    BY <2>5, Zenon
  <2>7. PICK x \in DOMAIN v[y] : L!LeaveChoice(state, c) = [b EXCEPT !.x = x, !.y = y]
    BY <2>6, Zenon
  <2> DEFINE s == [state EXCEPT !.choice = FALSE, !.visible = v, !.x = x, !.y = y, !.step = "remove", !.fresh = FALSE]
  <2>8. state' = s
    <3>1. state' = [L!LeaveChoice(state, c) EXCEPT !.step = "remove", !.fresh = FALSE]
      BY <1>3 DEF L!OnKeyStart, c
    <3> QED
      BY <1>1, <2>7, <3>1 DEF LaunchRec
  <2>9. s \in LaunchRec(state.last, state.saved, state.boot)
    <3>1. x \in Nat /\ y \in Nat
      BY <2>3
    <3> QED
      BY <1>1, <2>1, <3>1, ZenonT(40) DEF LaunchRec
  <2>10. /\ s.x = x /\ s.y = y /\ ~s.fresh /\ s.active = None /\ ~s.choice /\ s.visible = v
         /\ s.core = state.core /\ s.last = state.last /\ s.saved = state.saved /\ s.boot = state.boot
    BY <1>1 DEF LaunchRec
  <2> HIDE DEF s
  <2>11. LaunchTypes(s)
    BY <1>1, <2>9, <2>10 DEF LaunchTypes
  <2>12. L!InRange(s) /\ Opens(s)
    BY <2>7, <2>10 DEF L!InRange, Opens, L!Current
  <2> QED
    BY <2>8, <2>10, <2>11, <2>12, Pressed DEF LaunchInv
<1>4. CASE ~state.choice
  <2> DEFINE b == [state EXCEPT !.choice = TRUE, !.fresh = FALSE]
             place == L!Places(L!Current(b), c)
  <2>1. L!Current(b) = Rows
    BY <1>1 DEF L!Current, LaunchRec
  <2>2. place # {}
    <3>1. PICK y \in DOMAIN Rows : \E x \in DOMAIN Rows[y] : Rows[y][x] = c
      BY <1>2, RowsAre
    <3>2. PICK x \in DOMAIN Rows[y] : Rows[y][x] = c
      BY <3>1
    <3>3. <<x, y>> \in L!Places(Rows, c)
      BY <3>1, <3>2, PlaceThere
    <3> QED
      BY <2>1, <3>3
  <2>3. L!Places(L!Current(b), c) # {}
    BY <2>2
  <2> HIDE DEF place, b
  <2>4. \E y \in DOMAIN L!Current(b) : \E x \in DOMAIN L!Current(b)[y] :
             L!Current(b)[y][x] = c /\ L!SetIndex(b, c) = [b EXCEPT !.x = x, !.y = y]
    BY <2>3, SetIndexIs, Zenon
  <2>5. PICK y \in DOMAIN Rows : \E x \in DOMAIN Rows[y] : L!SetIndex(b, c) = [b EXCEPT !.x = x, !.y = y]
    BY <2>1, <2>4, Zenon
  <2>6. PICK x \in DOMAIN Rows[y] : L!SetIndex(b, c) = [b EXCEPT !.x = x, !.y = y]
    BY <2>5, Zenon
  <2> DEFINE s == [state EXCEPT !.choice = TRUE, !.x = x, !.y = y, !.fresh = FALSE]
  <2>7. state' = s
    <3>1. state' = L!SetIndex(b, c)
      BY <1>4 DEF L!OnKeyStart, c, b
    <3> QED
      BY <1>1, <2>6, <3>1 DEF LaunchRec, b
  <2>8. s \in LaunchRec(state.last, state.saved, state.boot)
    <3>1. x \in Nat /\ y \in Nat
      BY RowsAre, GridIs
    <3> QED
      BY <1>1, <3>1, ZenonT(40) DEF LaunchRec
  <2>9. /\ s.x = x /\ s.y = y /\ ~s.fresh /\ s.active = None /\ s.choice
        /\ s.core = state.core /\ s.last = state.last /\ s.saved = state.saved /\ s.boot = state.boot
    BY <1>1 DEF LaunchRec
  <2> HIDE DEF s
  <2>10. LaunchTypes(s)
    BY <1>1, <2>8, <2>9 DEF LaunchTypes
  <2>11. L!InRange(s) /\ Opens(s)
    BY <2>6, <2>9 DEF L!InRange, Opens, L!Current
  <2> QED
    BY <2>7, <2>9, <2>10, <2>11, Pressed DEF LaunchInv
<1> QED
  BY <1>3, <1>4

LEMMA ListKeyIs ==
  ASSUME NEW n \in Nat, NEW i \in 1 .. n, NEW d \in {1, n - 1}
  PROVE  ((i - 1 + d) % n) + 1 \in 1 .. n
<1>1. i - 1 + d \in Nat /\ n \in Nat \ {0}
  OBVIOUS
<1>2. (i - 1 + d) % n \in Nat /\ (i - 1 + d) % n < n
  BY <1>1, Division
<1> QED
  BY <1>2

LEMMA LaunchStep == ASSUME LaunchInv, L!Next PROVE LaunchInv'
<1>1. /\ LaunchTypes(state) /\ state \in LaunchRec(state.last, state.saved, state.boot)
      /\ L!InRange(state) /\ Opens(state) /\ Untouched(state)
  BY DEF LaunchInv, LaunchOk, LaunchTypes
<1>2. CASE L!Toggle
  <2> DEFINE c == L!Selected(state)
             shown == IF c \in state.shown THEN state.shown \ {c} ELSE state.shown \cup {c}
             s == [state EXCEPT !.fresh = FALSE, !.shown = shown]
  <2>1. c \in L!Console
    BY <1>1, SelectedIs
  <2>2. state' = s /\ (c \in state.shown => state.shown # {c}) /\ state.active = None
    BY <1>2 DEF L!Toggle, L!Keys
  <2> HIDE DEF c
  <2>3. shown \in (SUBSET L!Console) \ {{}}
    BY <1>1, <2>1, <2>2 DEF LaunchRec
  <2> HIDE DEF shown
  <2>4. s \in LaunchRec(state.last, state.saved, state.boot)
    BY <1>1, <2>3, ZenonT(40) DEF LaunchRec
  <2>5. /\ s.x = state.x /\ s.y = state.y /\ ~s.fresh /\ s.active = None /\ s.choice = state.choice
        /\ s.visible = state.visible
        /\ s.core = state.core /\ s.last = state.last /\ s.saved = state.saved /\ s.boot = state.boot
    BY <1>1, <2>2 DEF LaunchRec
  <2> HIDE DEF s
  <2>6. LaunchTypes(s)
    BY <1>1, <2>4, <2>5 DEF LaunchTypes
  <2>7. L!InRange(s) /\ Opens(s)
    BY <1>1, <2>5 DEF L!InRange, Opens, L!Current
  <2> QED
    BY <2>2, <2>5, <2>6, <2>7, Pressed DEF LaunchInv
<1>3. CASE L!OnActive
  <2> DEFINE c == state.visible[state.y][state.x]
             s == [state EXCEPT !.active = c, !.fresh = FALSE]
  <2>1. state' = s /\ ~state.choice
    BY <1>3 DEF L!OnActive
  <2>2. c = L!Selected(state)
    BY <2>1 DEF L!Selected, L!Current
  <2>3. c \in L!Console
    BY <1>1, <2>2, SelectedIs
  <2> HIDE DEF c
  <2>4. s \in LaunchRec(state.last, state.saved, state.boot)
    BY <1>1, <2>3, ZenonT(40) DEF LaunchRec
  <2>5. /\ s.x = state.x /\ s.y = state.y /\ ~s.fresh /\ s.active = c /\ s.choice = state.choice
        /\ s.visible = state.visible
        /\ s.core = state.core /\ s.last = state.last /\ s.saved = state.saved /\ s.boot = state.boot
    BY <1>1 DEF LaunchRec
  <2> HIDE DEF s
  <2>6. LaunchTypes(s)
    BY <1>1, <2>4, <2>5 DEF LaunchTypes
  <2>7. L!InRange(s) /\ Opens(s)
    BY <1>1, <2>1, <2>2, <2>5 DEF L!InRange, Opens, L!Current, L!Selected
  <2> QED
    BY <2>1, <2>5, <2>6, <2>7, Pressed DEF LaunchInv
<1>4. CASE L!SaveRemoves
  <2> DEFINE s == [state EXCEPT !.step = "write", !.saved = None]
  <2>1. state' = s /\ ~state.fresh
    BY <1>1, <1>4 DEF L!SaveRemoves, Untouched
  <2>2. s \in LaunchRec(state.last, None, state.boot)
    BY <1>1, ZenonT(40) DEF LaunchRec
  <2>3. /\ s.x = state.x /\ s.y = state.y /\ ~s.fresh /\ s.active = state.active /\ s.choice = state.choice
        /\ s.visible = state.visible
        /\ s.core = state.core /\ s.last = state.last /\ s.saved = None /\ s.boot = state.boot
    BY <1>1, <2>1 DEF LaunchRec
  <2> HIDE DEF s
  <2>4. LaunchTypes(s)
    BY <1>1, <2>2, <2>3 DEF LaunchTypes
  <2>5. L!InRange(s) /\ Opens(s)
    BY <1>1, <2>3 DEF L!InRange, Opens, L!Current, L!Selected
  <2> QED
    BY <2>1, <2>3, <2>4, <2>5, Pressed DEF LaunchInv
<1>5. CASE L!SaveWrites
  <2> DEFINE step == IF state.boot = None THEN "keys" ELSE "off"
             saved == [shown |-> state.shown, last |-> state.last]
             s == [state EXCEPT !.step = step, !.saved = saved]
  <2>1. state' = s /\ ~state.fresh
    BY <1>1, <1>5 DEF L!SaveWrites, Untouched
  <2>2. saved.shown \in (SUBSET L!Console) \ {{}} /\ step \in {"keys", "off"}
    BY <1>1 DEF LaunchRec
  <2> HIDE DEF step, saved
  <2>3. s \in LaunchRec(state.last, saved, state.boot)
    BY <1>1, <2>2, ZenonT(40) DEF LaunchRec
  <2>4. /\ s.x = state.x /\ s.y = state.y /\ ~s.fresh /\ s.active = state.active /\ s.choice = state.choice
        /\ s.visible = state.visible
        /\ s.core = state.core /\ s.last = state.last /\ s.saved = saved /\ s.boot = state.boot
    BY <1>1, <2>1 DEF LaunchRec
  <2> HIDE DEF s
  <2>5. LaunchTypes(s)
    BY <1>1, <2>2, <2>3, <2>4 DEF LaunchTypes
  <2>6. L!InRange(s) /\ Opens(s)
    BY <1>1, <2>4 DEF L!InRange, Opens, L!Current, L!Selected
  <2> QED
    BY <2>1, <2>4, <2>5, <2>6, Pressed DEF LaunchInv
<1>6. CASE L!OnListKey
  <2> DEFINE c == state.active
             n == Len(Cores(c))
  <2>1. c \in L!Console /\ ~state.fresh
    BY <1>1, <1>6 DEF L!OnListKey, L!InList, LaunchRec, Untouched
  <2>2. n \in Nat /\ DOMAIN Cores(c) = 1 .. n /\ state.core[c] \in 1 .. n
    BY <1>1, <2>1, CoreIs DEF LaunchTypes
  <2>3. PICK d \in {1, n - 1} : state' = [state EXCEPT !.core[c] = ((state.core[c] - 1 + d) % n) + 1]
    BY <1>6 DEF L!OnListKey
  <2> DEFINE i == ((state.core[c] - 1 + d) % n) + 1
             core == [state.core EXCEPT ![c] = i]
             s == [state EXCEPT !.core = core]
  <2>4. i \in 1 .. n
    BY <2>2, ListKeyIs
  <2> HIDE DEF i
  <2>5. core \in [L!Console -> Nat] /\ \A e \in L!Console : core[e] \in DOMAIN Cores(e)
    BY <1>1, <2>1, <2>2, <2>4 DEF LaunchTypes, LaunchRec
  <2>6. state' = s
    BY <1>1, <2>3 DEF LaunchRec, i
  <2> HIDE DEF core, c, n
  <2>7. s \in LaunchRec(state.last, state.saved, state.boot)
    BY <1>1, <2>5, ZenonT(40) DEF LaunchRec
  <2>8. /\ s.x = state.x /\ s.y = state.y /\ ~s.fresh /\ s.active = state.active /\ s.choice = state.choice
        /\ s.visible = state.visible
        /\ s.core = core /\ s.last = state.last /\ s.saved = state.saved /\ s.boot = state.boot
    BY <1>1, <2>1 DEF LaunchRec
  <2> HIDE DEF s
  <2>9. LaunchTypes(s)
    BY <1>1, <2>5, <2>7, <2>8 DEF LaunchTypes
  <2>10. L!InRange(s) /\ Opens(s)
    BY <1>1, <2>8 DEF L!InRange, Opens, L!Current, L!Selected
  <2> QED
    BY <2>6, <2>8, <2>9, <2>10, Pressed DEF LaunchInv
<1>7. CASE L!OnCancel \/ L!BootCore
  <2>1. ~state.fresh
    BY <1>1, <1>7 DEF L!OnCancel, L!BootCore, L!InList, Untouched
  <2>2. \E last, boot : \E step \in {state.step, "remove"} :
           state' = [state EXCEPT !.active = None, !.last = last, !.boot = boot, !.step = step]
    <3>1. CASE L!OnCancel
      <4>1. state' = [state EXCEPT !.active = None]
        BY <3>1 DEF L!OnCancel
      <4>2. state' = [state EXCEPT !.active = None, !.last = state.last, !.boot = state.boot, !.step = state.step]
        BY <1>1, <4>1 DEF LaunchRec
      <4> QED
        BY <4>2, Zenon
    <3>2. CASE L!BootCore
      BY <3>2, Zenon DEF L!BootCore
    <3> QED
      BY <1>7, <3>1, <3>2, Zenon
  <2>9. PICK last, boot : \E step \in {state.step, "remove"} :
           state' = [state EXCEPT !.active = None, !.last = last, !.boot = boot, !.step = step]
    BY <2>2, Zenon
  <2>10. PICK step \in {state.step, "remove"} :
           state' = [state EXCEPT !.active = None, !.last = last, !.boot = boot, !.step = step]
    BY <2>9
  <2> DEFINE s == [state EXCEPT !.active = None, !.last = last, !.boot = boot, !.step = step]
  <2>3. step \in {"keys", "remove", "write", "off"}
    BY <1>1 DEF LaunchRec
  <2>4. s \in LaunchRec(last, state.saved, boot)
    BY <1>1, <2>3, ZenonT(40) DEF LaunchRec
  <2>5. /\ s.x = state.x /\ s.y = state.y /\ ~s.fresh /\ s.active = None /\ s.choice = state.choice
        /\ s.visible = state.visible
        /\ s.core = state.core /\ s.last = last /\ s.saved = state.saved /\ s.boot = boot
    BY <1>1, <2>1 DEF LaunchRec
  <2> HIDE DEF s
  <2>6. LaunchTypes(s)
    BY <1>1, <2>4, <2>5 DEF LaunchTypes
  <2>7. L!InRange(s) /\ Opens(s)
    BY <1>1, <2>5 DEF L!InRange, Opens, L!Current, L!Selected
  <2>8. state' = s
    BY <2>10 DEF s
  <2> QED
    BY <2>5, <2>6, <2>7, <2>8, Pressed DEF LaunchInv
<1>8. CASE L!Start \/ L!Crash
  <2>1. state' = L!Started(state.saved)
    BY <1>8 DEF L!Start, L!Crash
  <2>2. LaunchOk(L!Started(state.saved))
    BY <1>1, StartedIs DEF LaunchTypes
  <2> QED
    BY <2>1, <2>2 DEF LaunchInv
<1> QED
  BY <1>2, <1>3, <1>4, <1>5, <1>6, <1>7, <1>8, LaunchMoves, LaunchChoice DEF L!Next

LEMMA LaunchShows == ASSUME LaunchInv PROVE L!SelectedIsShown
BY DEF LaunchInv, LaunchOk, Opens, Untouched, Served, L!SelectedIsShown

-----------------------------------------------------------------------------
(* Every part keeps its invariant, and a behaviour is one of one part.      *)
PartInv ==
    /\ part = "picture" => PicInv
    /\ part = "audio" => AudioInv
    /\ part = "achievements" => RaInv
    /\ part = "settings" => CfgInv
    /\ part = "favorites" => FavInv
    /\ part = "names" => NamesInv
    /\ part = "playlists" => PlayInv
    /\ part = "menu" => MenuInv
    /\ part = "cheats" => CheatInv
    /\ part = "caches" => RomInv
    /\ part = "launcher" => LaunchInv

LEMMA PicInit == ASSUME P!Init PROVE PicInv
<1>1. (CHOOSE e \in Entry : TRUE) \in Entry
  BY PicAssumption
<1>2. P!Idle \in PicJob /\ P!Idle.tex = None
  BY DEF P!Idle, PicJob
<1>3. PicTypes
  BY <1>1, <1>2 DEF P!Init, PicTypes, PicRec
<1>4. \A t \in Thread : state.job[t].tex = None
  BY <1>2 DEF P!Init
<1>5. PicOwners
  BY <1>4 DEF PicOwners
<1>6. state.tex = None /\ state.live = {} /\ state.gpu = None
  BY DEF P!Init
<1>7. PicLive
  BY <1>4, <1>6 DEF PicLive, P!Owned
<1> QED
  BY <1>3, <1>5, <1>7 DEF PicInv

LEMMA AudioInit == ASSUME A!Init PROVE AudioInv
<1>1. AudioTypes
  BY AudioAssumption DEF A!Init, AudioTypes, AudioRec, OutputAt, ResamplerAt, SetterAt
<1>2. A!NobodyWaitsInVain
  BY DEF A!Init, A!NobodyWaitsInVain
<1> QED
  BY <1>1, <1>2 DEF AudioInv

LEMMA RaInit == ASSUME R!Init PROVE RaInv
<1>1. RaTypes
  BY DEF R!Init, RaTypes, RaRec, R!NoNotes, R!Kind
<1>2. RaAsked /\ RaListed
  BY DEF R!Init, RaAsked, RaListed, Asked, Listed
<1>3. RaVisible /\ RaNotes
  BY DEF R!Init, RaVisible, RaNotes, Visible, Notes
<1> QED
  BY <1>1, <1>2, <1>3 DEF RaInv

LEMMA PartsInit == Init => PartInv
  BY PicInit, AudioInit, RaInit, FavInit, NamesInit, PlayInit, CfgInit, MenuInit, CheatInit, RomInit, LaunchInit
  DEF Init, PartInv

LEMMA PartsKeep == PartInv /\ [Next]_vars => PartInv'
<1> SUFFICES ASSUME PartInv, [Next]_vars
             PROVE  PartInv'
  OBVIOUS
<1>1. CASE UNCHANGED vars
  <2>1. part' = part /\ state' = state
    BY <1>1 DEF vars
  <2>2. part = "picture" => PicInv'
    BY <2>1 DEF PartInv, PicInv, PicTypes, PicOwners, PicLive, P!Owned
  <2>3. part = "audio" => AudioInv'
    BY <2>1 DEF PartInv, AudioInv, AudioTypes, A!NobodyWaitsInVain
  <2>4. part = "achievements" => RaInv'
    BY <2>1 DEF PartInv, RaInv, RaTypes, RaAsked, RaListed, RaVisible, RaNotes
  <2>5. part = "settings" => CfgInv'
    BY <2>1, CfgStep DEF PartInv
  <2>6. part = "favorites" => FavInv'
    BY <2>1 DEF PartInv, FavInv, FavTypes, FavIndex, FavDialog, FavThere, F!UsesEntry, F!ShownIsSaved, F!Same, F!Restored,
       F!Size
  <2>7. part = "names" => NamesInv'
    BY <2>1 DEF PartInv, NamesInv, NamesTypes, Fit, Looking
  <2>8. part = "menu" => MenuInv'
    BY <2>1 DEF PartInv, MenuInv
  <2>9. part = "cheats" => CheatInv'
    BY <2>1 DEF PartInv, CheatInv
  <2>10. part = "caches" => RomInv'
    BY <2>1 DEF PartInv, RomInv
  <2>11. part = "launcher" => LaunchInv'
    BY <2>1 DEF PartInv, LaunchInv
  <2>12. part = "playlists" => PlayInv'
    BY <2>1 DEF PartInv, PlayInv, OfTheirKey
  <2> QED
    BY <2>1, <2>2, <2>3, <2>4, <2>5, <2>6, <2>7, <2>8, <2>9, <2>10, <2>11, <2>12 DEF PartInv
<1>2. CASE Next
  BY <1>2, PicStep, AudioStep, RaStep, FavStep, NamesStep, PlayStep, CfgStep, MenuStep, CheatStep,
     RomStep, LaunchStep DEF Next, PartInv
<1> QED
  BY <1>1, <1>2

-----------------------------------------------------------------------------
(* The keyboard.                                                           *)
KbdRec == [visable : BOOLEAN, status : SUBSET K!Key, mod : SUBSET {BitOf(k) : k \in K!Key \ Plain},
           hooked : BOOLEAN, held : SUBSET K!Key, rewinding : BOOLEAN, told : SUBSET K!Key,
           left : SUBSET K!Key]
KbdInv == state \in KbdRec /\ K!CoreHearsKeys

LEMMA KbdInit == ASSUME K!Init PROVE KbdInv
BY DEF K!Init, KbdInv, KbdRec, K!CoreHearsKeys

LEMMA KbdStep == ASSUME KbdInv, K!Next PROVE KbdInv'
<1>1. state \in KbdRec /\ Plain \subseteq K!Key /\ Modifier \subseteq K!Key
  BY DEF KbdInv, K!Key
<1>2. ASSUME NEW k \in K!Key, K!KeyDown(k) PROVE KbdInv'
  <2>1. CASE k \notin Plain \/ k \in state.status
    <3>1. state' = [state EXCEPT !.held = {k}]
      BY <1>2, <2>1 DEF K!KeyDown
    <3> QED
      BY <1>1, <3>1 DEF KbdInv, KbdRec, K!CoreHearsKeys
  <2>2. CASE ~(k \notin Plain \/ k \in state.status)
    <3> DEFINE down == {k} \cup (state.status \cap Modifier)
               told == K!Told(down, {})
               left == K!Left(down, {})
    <3>1. state' = [state EXCEPT !.held = {k}, !.status = @ \cup {k}, !.told = told, !.left = left]
      BY <1>2, <2>2 DEF K!KeyDown
    <3>2. told \in SUBSET K!Key /\ left \in SUBSET K!Key
      BY <1>1 DEF K!Told, K!Left, KbdRec
    <3>3. state.hooked => told = (state.status \cup {k}) \cup left
      BY <1>1 DEF K!Told, K!Left, KbdInv, KbdRec, K!CoreHearsKeys
    <3> HIDE DEF told, left
    <3> QED
      BY <1>1, <3>1, <3>2, <3>3 DEF KbdInv, KbdRec, K!CoreHearsKeys
  <2> QED
    BY <2>1, <2>2
<1>3. ASSUME NEW k \in K!Key, K!KeyUp(k) PROVE KbdInv'
  <2> DEFINE status == IF k \in Plain THEN state.status \ {k} ELSE K!Flip(state.status, k)
             down == {k} \cap status
             up == {k} \ status
             mod == IF k \in Plain THEN state.mod ELSE K!Flip(state.mod, BitOf(k))
             told == K!Told(down, up)
             left == K!Left(down, up)
  <2>1. state' = [state EXCEPT !.held = {}, !.status = status, !.mod = mod, !.told = told, !.left = left]
    BY <1>3 DEF K!KeyUp
  <2>2. status \in SUBSET K!Key /\ mod \in SUBSET {BitOf(j) : j \in K!Key \ Plain}
    BY <1>1 DEF K!Flip, KbdRec
  <2>3. told \in SUBSET K!Key /\ left \in SUBSET K!Key
    BY <1>1, <2>2 DEF K!Told, K!Left, KbdRec
  <2>4. \A j \in K!Key : j # k => (j \in status <=> j \in state.status)
    BY <1>1 DEF K!Flip, KbdRec
  <2>5. state.hooked => told = status \cup left
    <3>1. state.hooked => told = (state.told \cup down) \ up /\ left = state.left \ {k}
      BY DEF K!Told, K!Left
    <3>2. state.hooked => state.told = state.status \cup state.left
      BY DEF KbdInv, K!CoreHearsKeys
    <3> HIDE DEF told, left, status
    <3> QED
      BY <1>1, <2>2, <2>4, <3>1, <3>2 DEF KbdRec
  <2> HIDE DEF status, told, left, mod
  <2> DEFINE half == [state EXCEPT !.held = {}, !.status = status, !.mod = mod]
  <2>6. half \in KbdRec /\ state' = [half EXCEPT !.told = told, !.left = left] /\ half.status = status
        /\ half.hooked = state.hooked
    BY <1>1, <2>1, <2>2 DEF KbdRec
  <2> HIDE DEF half
  <2> QED
    BY <2>3, <2>5, <2>6 DEF KbdInv, KbdRec, K!CoreHearsKeys
<1>4. CASE K!SlideOff
  BY <1>1, <1>4 DEF K!SlideOff, KbdInv, KbdRec, K!CoreHearsKeys
<1>5. ASSUME NEW on \in BOOLEAN, K!SetVisable(on) PROVE KbdInv'
  <2> DEFINE left == IF on THEN state.left ELSE state.left \cup (state.status \cap state.told)
             status == IF on THEN state.status ELSE {}
  <2>1. state' = [state EXCEPT !.visable = on, !.held = {}, !.left = left, !.status = status]
    BY <1>5 DEF K!SetVisable
  <2>2. left \in SUBSET K!Key /\ status \in SUBSET K!Key
    BY <1>1 DEF KbdRec
  <2>3. state.hooked => state.told = status \cup left
    BY <1>1 DEF KbdInv, KbdRec, K!CoreHearsKeys
  <2> HIDE DEF left, status
  <2> QED
    BY <1>1, <2>1, <2>2, <2>3 DEF KbdInv, KbdRec, K!CoreHearsKeys
<1>6. CASE K!Rewind
  BY <1>1, <1>6 DEF K!Rewind, KbdInv, KbdRec, K!CoreHearsKeys
<1>7. (~state.visable) \in BOOLEAN
  BY Zenon
<1> QED
  BY <1>2, <1>3, <1>4, <1>5, <1>6, <1>7 DEF K!Next, K!OnHotkeyKeyboard, K!OnPsButton

(* What was set up of the sound: the resampler is there for a rate the     *)
(* port does not take, and the latency fits the ring.                      *)
AudioSetUp ==
    /\ state.latency \in 0 .. OutSize
    /\ state.set = "latency" \/ (state.set = "idle" /\ state.output) =>
          (state.resampler <=> state.rate \notin Exact)

LEMMA AudioSetUpStep == ASSUME AudioInv, AudioSetUp, A!Next PROVE AudioSetUp'
<1>1. state \in AudioRec
  BY DEF AudioInv, AudioTypes
<1>2. \A r : A!Size(r, state.ms) \in 0 .. OutSize /\ A!Size(r, 2) \in 0 .. OutSize
  BY <1>1, AudioAssumption DEF A!Size, AudioRec
<1>3. CASE \/ A!SendAudioSample \/ A!Process \/ A!CoreSignals \/ A!OutputTop \/ A!OutputFill \/ A!OutputRead
           \/ A!OutputWakes \/ A!OutputPlays \/ A!ResamplerTake \/ A!ResamplerWakes \/ A!ResamplerConvert
           \/ A!ResamplerSignals \/ A!Unmute
  <2>1. /\ state'.latency = state.latency /\ state'.set = state.set /\ state'.output = state.output
        /\ state'.resampler = state.resampler /\ state'.rate = state.rate
    <3>1. CASE A!SendAudioSample \/ A!Process \/ A!CoreSignals \/ A!Unmute
      BY <1>1, <3>1 DEF A!SendAudioSample, A!Process, A!CoreSignals, A!Unmute, AudioRec
    <3>2. CASE A!OutputTop \/ A!OutputPlays
      BY <1>1, <3>2 DEF A!OutputTop, A!OutputPlays, AudioRec
    <3>6. CASE A!OutputFill
      <4>1. \/ state' = [state EXCEPT !.oat = "waitToFill", !.seen = state.latency]
            \/ state' = [state EXCEPT !.oat = "read", !.updated = FALSE]
        BY <3>6 DEF A!OutputFill
      <4> QED
        BY <1>1, <4>1 DEF AudioRec
    <3>4. CASE A!OutputRead
      BY <1>1, <3>4 DEF A!OutputRead, AudioRec
    <3>5. CASE A!OutputWakes
      BY <1>1, <3>5 DEF A!OutputWakes, AudioRec
    <3>3. CASE A!ResamplerTake \/ A!ResamplerWakes \/ A!ResamplerConvert \/ A!ResamplerSignals
      BY <1>1, <3>3 DEF A!ResamplerTake, A!ResamplerWakes, A!ResamplerConvert, A!ResamplerSignals, AudioRec
    <3> QED
      BY <1>3, <3>1, <3>2, <3>3, <3>4, <3>5, <3>6
  <2> QED
    BY <2>1 DEF AudioSetUp
<1>4. CASE A!SetLatency(2)
  BY <1>1, <1>2, <1>4 DEF A!SetLatency, A!Quiet, AudioRec, AudioSetUp
<1>5. ASSUME NEW r \in Rate, A!Begin(r) PROVE AudioSetUp'
  BY <1>1, <1>5 DEF A!Begin, AudioRec, AudioSetUp
<1>6. CASE A!StartOutput
  BY <1>1, <1>6 DEF A!StartOutput, AudioRec, AudioSetUp
<1>7. CASE A!StartResampler
  BY <1>1, <1>7 DEF A!StartResampler, AudioRec, AudioSetUp
<1>8. CASE A!LatencyAgain
  BY <1>1, <1>2, <1>8 DEF A!LatencyAgain, AudioRec, AudioSetUp
<1>9. CASE A!Mute \/ A!DeleteResampler
  BY <1>1, <1>9 DEF A!Mute, A!DeleteResampler, AudioRec, AudioSetUp
<1>10. CASE A!DeleteOutput
  BY <1>1, <1>10, AudioAssumption DEF A!DeleteOutput, AudioRec, AudioSetUp
<1> QED
  BY <1>3, <1>4, <1>5, <1>6, <1>7, <1>8, <1>9, <1>10 DEF A!Next

(* How many files were written.                                            *)
LEMMA WrittenStep == ASSUME RomInv, state.written \in 0 .. MaxFiles, C!Next PROVE state'.written \in 0 .. MaxFiles
<1>1. state \in RomRec(state.written) /\ MaxFiles \in Nat
  BY RomAssumption DEF RomInv, RomOk
<1>2. CASE C!Restart
  BY <1>1, <1>2 DEF C!Restart, C!Start, RomRec
<1>3. CASE C!ClearCache \/ C!Failed
  BY <1>1, <1>3 DEF C!ClearCache, C!Failed, C!Itself, C!Nothing, RomRec
<1>4. CASE C!Done
  BY <1>1, <1>4 DEF C!Done, C!Read, C!Set, RomRec
<1>5. ASSUME NEW g \in C!AnyGame, C!UseItself(g) \/ C!UseCached(g) \/ C!NotFound(g) PROVE state'.written = state.written
  BY <1>1, <1>5 DEF C!UseItself, C!UseCached, C!NotFound, C!Itself, C!Read, C!Nothing, RomRec
<1>6. ASSUME NEW g \in C!AnyGame, C!Begin(g) PROVE state'.written \in 0 .. MaxFiles
  BY <1>1, <1>6 DEF C!Begin, RomRec
<1> QED
  BY <1>2, <1>3, <1>4, <1>5, <1>6 DEF C!Next

PartNamed ==
    part \in {"favorites", "picture", "names", "playlists", "menu", "settings", "caches", "audio",
              "achievements", "cheats", "launcher", "keyboard"}

(* The bounds that the parts' types have over PartInv, and the keyboard.   *)
TypeInv ==
    /\ PartNamed
    /\ part = "audio" => AudioSetUp
    /\ part = "cheats" => state.ram \in Ram
    /\ part = "caches" => state.written \in 0 .. MaxFiles
    /\ part = "keyboard" => KbdInv

LEMMA TypesInit == Init => TypeInv
<1>1. A!Init => AudioSetUp
  BY AudioAssumption DEF A!Init, AudioSetUp
<1>2. H!Init => state.ram \in Ram
  BY CheatAssumption DEF H!Init, Ram, H!Byte
<1>3. C!Init => state.written \in 0 .. MaxFiles
  BY RomAssumption DEF C!Init, C!Start
<1> QED
  BY <1>1, <1>2, <1>3, KbdInit DEF Init, TypeInv, PartNamed

LEMMA TypesKeep == PartInv /\ TypeInv /\ [Next]_vars => TypeInv'
<1> SUFFICES ASSUME PartInv, TypeInv, [Next]_vars
             PROVE  TypeInv'
  OBVIOUS
<1>1. CASE UNCHANGED vars
  BY <1>1 DEF vars, TypeInv, PartNamed, AudioSetUp, KbdInv, K!CoreHearsKeys
<1>2. CASE Next
  BY <1>2, AudioSetUpStep, RamStep, WrittenStep, KbdStep
     DEF Next, PartInv, TypeInv, PartNamed
<1> QED
  BY <1>1, <1>2

LEMMA FavTyped == ASSUME FavInv PROVE F!TypeOK /\ F!UsesEntry
<1>1. state \in FavRec /\ F!UsesEntry
  BY DEF FavInv, FavTypes
<1>2. DOMAIN state.map \subseteq Name
  <2>1. state.map \in Maps
    BY <1>1 DEF FavRec
  <2> QED
    BY <2>1 DEF Maps
<1> QED
  BY <1>1, <1>2 DEF F!TypeOK, FavRec

LEMMA PicTyped == ASSUME PicInv PROVE P!TypeOK
BY DEF PicInv, PicTypes, PicRec, PicJob, P!TypeOK

LEMMA MenuTyped == ASSUME MenuInv PROVE M!TypeOK
<1>1. PICK b \in Bound : MenuOk(state, b)
  BY DEF MenuInv
<1>2. state \in MenuRec /\ ~state.crash /\ Shape(state, b)
  BY <1>1 DEF MenuOk, Stays
<1>3. ASSUME Bare(state, b) PROVE Len(state.levels) <= 2
  BY <1>3 DEF Bare
<1>4. ASSUME NEW w \in M!Widget, OneOver(state, w, b) PROVE Len(state.levels) <= 2
  BY <1>4 DEF OneOver
<1>5. ASSUME TwoOver(state, b) PROVE Len(state.levels) <= 2
  BY <1>5 DEF TwoOver
<1>6. Len(state.levels) <= 2
  BY <1>2, <1>3, <1>4, <1>5 DEF Shape
<1> QED
  BY <1>2, <1>6 DEF M!TypeOK, MenuRec, MenuStatus

LEMMA RomTyped == ASSUME RomInv, state.written \in 0 .. MaxFiles PROVE C!TypeOK
BY DEF RomInv, RomOk, RomRec, C!TypeOK

LEMMA AudioTyped == ASSUME AudioInv, AudioSetUp PROVE A!TypeOK
BY DEF AudioInv, AudioTypes, AudioRec, AudioSetUp, A!TypeOK, A!Quiet

LEMMA RaTyped == ASSUME RaInv PROVE R!TypeOK
BY DEF RaInv, RaTypes, RaRec, R!TypeOK

LEMMA LaunchTyped == ASSUME LaunchInv PROVE L!TypeOK
BY DEF LaunchInv, LaunchOk, LaunchTypes, LaunchRec, L!TypeOK

LEMMA KbdTyped == ASSUME KbdInv PROVE K!TypeOK /\ K!CoreHearsKeys
BY DEF KbdInv, KbdRec, K!TypeOK
-----------------------------------------------------------------------------
(* Every part's record has its type, in every behaviour and for all        *)
(* parameters: the favourites tab never reads past the end of its map, an  *)
(* option that was checked against what this version of the core offers is *)
(* one of it, the latency fits the ring, no more than a question over a    *)
(* list is open, the memory a cheat writes to stays one of bytes, and a    *)
(* core hears of all keys but those hiding the keyboard let go             *)
(* (TabFavorite::_Show, CoreOptions::_Load,                                *)
(* Audio::SetLatency, Ui::SetInputHooks, Cheat::_ApplyRetro,               *)
(* Keyboard::_OnKeyUp).                                                    *)
THEOREM PartTypes == Spec => []TypeOK
<1>1. PartInv /\ TypeInv => TypeOK
  <2> SUFFICES ASSUME PartInv, TypeInv
               PROVE  TypeOK
    OBVIOUS
  <2>1. CASE part = "favorites"
    BY <2>1, FavTyped DEF PartInv, TypeInv, TypeOK
  <2>2. CASE part = "picture"
    BY <2>2, PicTyped DEF PartInv, TypeInv, TypeOK
  <2>3. CASE part = "names"
    BY <2>3, NamesTyped DEF PartInv, TypeInv, TypeOK
  <2>4. CASE part = "menu"
    BY <2>4, MenuTyped DEF PartInv, TypeInv, TypeOK
  <2>5. CASE part = "settings"
    BY <2>5, CfgTyped DEF PartInv, TypeInv, TypeOK
  <2>6. CASE part = "caches"
    BY <2>6, RomTyped DEF PartInv, TypeInv, TypeOK
  <2>7. CASE part = "audio"
    BY <2>7, AudioTyped DEF PartInv, TypeInv, TypeOK
  <2>8. CASE part = "achievements"
    BY <2>8, RaTyped DEF PartInv, TypeInv, TypeOK
  <2>9. CASE part = "cheats"
    BY <2>9, CheatTyped DEF PartInv, TypeInv, TypeOK
  <2>10. CASE part = "launcher"
    BY <2>10, LaunchTyped DEF PartInv, TypeInv, TypeOK
  <2>11. CASE part = "keyboard"
    BY <2>11, KbdTyped DEF PartInv, TypeInv, TypeOK
  <2>12. CASE part = "playlists"
    BY <2>12, PlayTyped DEF PartInv, TypeInv, TypeOK
  <2> QED
    BY <2>1, <2>2, <2>3, <2>4, <2>5, <2>6, <2>7, <2>8, <2>9, <2>10, <2>11, <2>12 DEF TypeInv, PartNamed
<1> QED
  BY <1>1, PartsInit, PartsKeep, TypesInit, TypesKeep, PTL DEF Spec

(* No texture of the browser's leaks or is drawn after it was freed, with  *)
(* any number of threads that load one (TabBrowser::_Update,               *)
(* _OnItemUpdated).                                                        *)
THEOREM TexturesAreOwned == Spec => []TexturesHaveOwners
<1>1. PartInv => TexturesHaveOwners
  BY DEF PartInv, PicInv, PicOwners, PicLive, TexturesHaveOwners, P!TexturesHaveOwners
<1> QED
  BY <1>1, PartsInit, PartsKeep, PTL DEF Spec

(* No thread of the audio waits for what is there, whatever the rates and  *)
(* the sizes of the buffers (AudioOutput::_AudioThread,                    *)
(* AudioResampler::_ResamplerThread, Audio::SendAudioSample).              *)
THEOREM SoundGoesOn == Spec => []NobodyWaitsInVain
<1>1. PartInv => NobodyWaitsInVain
  BY DEF PartInv, AudioInv, NobodyWaitsInVain
<1> QED
  BY <1>1, PartsInit, PartsKeep, PTL DEF Spec

(* The achievements in the menu are the loaded game's, and no note is drawn*)
(* with a picture the cache has freed (RetroAchievements::_LoadGameCallback,*)
(* UnloadGame, TextureCache::Clear).                                       *)
THEOREM AchievementsAreTheGames == Spec => []ShownAreTheGames
<1>1. PartInv => ShownAreTheGames
  BY RaAssumption DEF PartInv, RaInv, RaTypes, RaRec, RaAsked, RaListed, RaVisible, RaNotes, Asked, Listed,
     Visible, Notes, ShownAreTheGames, R!ShownAreTheGames, R!PicturesAreThere
<1> QED
  BY <1>1, PartsInit, PartsKeep, PTL DEF Spec

(* The favourites a start finds are those that were shown, but for one that*)
(* was being changed and those that are no longer on the card; an end or a *)
(* failure after a save has removed the file is excepted, as it may lose   *)
(* the list.  And the tab never reads past the end of its map              *)
(* (Favorites::Save, Load, TabFavorite::_Show).                            *)
THEOREM FavoritesAreKept == Spec => [](ShownIsSaved /\ (part = "favorites" => F!UsesEntry))
<1>1. PartInv => ShownIsSaved /\ (part = "favorites" => F!UsesEntry)
  BY DEF PartInv, FavInv, ShownIsSaved
<1> QED
  BY <1>1, PartsInit, PartsKeep, PTL DEF Spec

(* What was last set in a game that has a file of its own is in force while*)
(* it is loaded, whatever the other games and the core alone were set to,  *)
(* and however the application ended, unless its file was lost, in a crash *)
(* amid its writing or by a write that failed, or could not be read once   *)
(* (Config::Save, Load, Emulator::LoadRom).                                *)
THEOREM SettingsAreOwn == Spec => []OwnSettings
<1>1. PartInv => OwnSettings
  BY CfgTyped DEF PartInv, OwnSettings
<1> QED
  BY <1>1, PartsInit, PartsKeep, PTL DEF Spec

(* The core goes by the options, the pad by the control map and the ports  *)
(* by the controllers the menu shows, once told, and but for what a reset  *)
(* or a start whose own file is lost leaves behind (ItemCore,              *)
(* Emulator::SetupKeys, RETRO_ENVIRONMENT_GET_VARIABLE_UPDATE).            *)
THEOREM CoreGoesByShown == Spec => []CoreUsesShown
<1>1. PartInv => CoreUsesShown
  BY CfgTyped DEF PartInv, CoreUsesShown
<1> QED
  BY <1>1, PartsInit, PartsKeep, PTL DEF Spec

(* What is chosen is among what the version of the core it was last checked*)
(* against offers, though files are read unchecked and the core may have   *)
(* been replaced since (CoreOptions::_Load, CoreOption::SetValueIndex,     *)
(* Emulator::LoadRom).                                                     *)
THEOREM ChosenIsOffered == Spec => [](part = "settings" => S!ChosenIsOffered)
<1>1. PartInv => (part = "settings" => S!ChosenIsOffered)
  BY CfgTyped DEF PartInv
<1> QED
  BY <1>1, PartsInit, PartsKeep, PTL DEF Spec

(* In a menu the enter key is bound to what has the screen, the tab shown  *)
(* or what is open last over it, whatever tabs are turned to, hidden, made *)
(* anew or deleted and whatever game fails to start; and the disk tab      *)
(* marks one disk, the one that is in, among any number, unless the core   *)
(* took a disk and said no or kept it out and said yes: of the three calls *)
(* that change a disk only the last one's answer is looked at              *)
(* (Ui::SetInputHooks, OnStatusChanged, UpdateDiskOptions,                 *)
(* TabDisk::_InsertCallback, DiskControl::ReplaceImageIndex).              *)
THEOREM EnterGoesToShown == Spec => []EnterIsTheShownOnes
<1>1. PartInv => EnterIsTheShownOnes
  BY MenuAnswers DEF PartInv, EnterIsTheShownOnes
<1> QED
  BY <1>1, PartsInit, PartsKeep, PTL DEF Spec

(* Cheats write only to the memory of the game that is loaded; one whose   *)
(* first place is in it and a multiple of its width stays within, however  *)
(* often it repeats and however far it steps, among others of any places;  *)
(* and their thread does not sleep while one is switched on, of any number *)
(* (Cheat::CleanMemory, _ApplyRetro, Cheats::_CheatThread,                 *)
(* Emulator::ChangeCheatConfig).                                           *)
THEOREM CheatsStayInside == Spec => []StaysInItsMemory
<1>1. PartInv => StaysInItsMemory
  BY CheatKept DEF PartInv, StaysInItsMemory
<1> QED
  BY <1>1, PartsInit, PartsKeep, PTL DEF Spec

(* What a game is read from is whole, or it is reported as what it is: for *)
(* any archives and arcade games, sizes of the caches, failures, clearings *)
(* and restarts amid an extraction (GetCachedPath, CacheManager).          *)
THEOREM GamesAreWhole == Spec => []LoadsWholeGames
<1>1. PartInv => LoadsWholeGames
  BY DEF PartInv, RomInv, RomOk, Answered, LoadsWholeGames, C!LoadsWholeGames
<1> QED
  BY <1>1, PartsInit, PartsKeep, PTL DEF Spec

(* The launcher's index is that of a button, for any rows of consoles and  *)
(* whatever is hidden, and a core that ends finds its console selected and *)
(* itself first in its list (App::_OnKeyStart, _SetVisableButtons,         *)
(* _RestoreLastCore).                                                      *)
THEOREM LauncherSelects == Spec => []SelectedIsShown
<1>1. PartInv => SelectedIsShown
  BY LaunchShows DEF PartInv, SelectedIsShown
<1> QED
  BY <1>1, PartsInit, PartsKeep, PTL DEF Spec

(* A hit in the cache of checksums gives the one of the rom as it is, or 0 *)
(* for one that, as it is, could once not be read; and a start reads       *)
(* a playlist as it was last edited, unless the cache of that version was  *)
(* cut: whatever was replaced, evicted, lost with a crash or written in    *)
(* part (Crc32Cache::Get, Save, RetroArchPlaylists::Load, _SaveCache).     *)
THEOREM CachesAnswerNow == Spec => CachesAreCurrent
<1>1. PartInv /\ [Next]_vars =>
          [/\ part = "names" => N!HitsAreCurrent
           /\ part = "playlists" => Y!LabelsAreCurrent]_vars
  <2> SUFFICES ASSUME PartInv, Next
               PROVE  /\ part = "names" => N!HitsAreCurrent
                      /\ part = "playlists" => Y!LabelsAreCurrent
    OBVIOUS
  <2> QED
    BY HitsStep, LabelsStep DEF PartInv, Next
<1> QED
  BY <1>1, PartsInit, PartsKeep, PTL DEF Spec, CachesAreCurrent
=============================================================================
