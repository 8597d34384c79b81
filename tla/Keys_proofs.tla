------------------------------ MODULE Keys_proofs ------------------------------
(***************************************************************************)
(* Proofs about the keys and the part of the menu where they do most, the  *)
(* browser.  InputKeys, for every set of buttons and every hotkeys that    *)
(* contain the menu's: what the menu's button does, and that an Input with *)
(* all keys up is as good as new.  Browsing, the browser with variables of *)
(* its own, for every card of finitely many names: callbacks, what a       *)
(* search found, and the files a user confirmed to lose.                   *)
(***************************************************************************)
EXTENDS InputKeys, Browsing, FiniteSetTheorems, TLAPS

\* A chord that was down, or was called, left a chord in _current_hotkey: perhaps
\* another one, when both came down in one poll.
Remembered ==
    /\ \/ \E c \in Chords : c \subseteq last["emulator"]
       \/ called \cap Chords # {}
       => \E c \in Chords : c \subseteq hot["emulator"]
    /\ called = {} => hot["emulator"] = {} /\ upOn["emulator"]

IInv == TypeOK /\ KeysUpMeansReady /\ Remembered
-----------------------------------------------------------------------------
LEMMA FirstOfFits ==
    ASSUME NEW list, NEW fitting, NEW k \in FirstOf(list, fitting)
    PROVE  \E i \in fitting : k = list[i]
BY DEF FirstOf

LEMMA CalledDownFacts ==
    ASSUME NEW p \in Poller, NEW keys, NEW k \in CalledDown(p, keys)
    PROVE  p = "emulator" /\ k \in Chords /\ NowDown(p, keys, k)
<1>1. PICK i \in DOMAIN Down(p) : NowDown(p, keys, Down(p)[i]) /\ k = Down(p)[i]
  BY FirstOfFits DEF CalledDown
<1>2. p = "emulator"
  BY <1>1 DEF Down, Poller
<1>3. i \in 1 .. 3 /\ Down(p) = <<SaveState, ExitGame, GameRewind>>
  BY <1>1, <1>2 DEF Down
<1> QED
  BY <1>1, <1>2, <1>3 DEF Chords

LEMMA CalledUpFacts ==
    ASSUME NEW p \in Poller, NEW keys, NEW hotkeys, NEW k \in CalledUp(p, keys, hotkeys)
    PROVE  /\ p = "emulator" => k \in {GameRewind, MenuToggle}
           /\ NowUp(p, keys, k) /\ Own(k, hotkeys)
<1>1. PICK i \in DOMAIN Up(p) : /\ NowUp(p, keys, Up(p)[i])
                                /\ Own(Up(p)[i], hotkeys)
                                /\ k = Up(p)[i]
  BY FirstOfFits DEF CalledUp
<1>2. p = "emulator" => i \in 1 .. 2 /\ Up(p) = <<GameRewind, MenuToggle>>
  BY <1>1 DEF Up
<1> QED
  BY <1>1, <1>2

\* A chord is not down with no keys down.
LEMMA NothingDown ==
    ASSUME NEW p \in Poller PROVE CalledDown(p, {}) = {}
<1> SUFFICES ASSUME NEW k \in CalledDown(p, {}) PROVE FALSE
  OBVIOUS
<1>1. k \in Chords /\ k \subseteq {}
  BY CalledDownFacts DEF NowDown
<1> QED
  BY <1>1, KeysAssumption

\* If a chord came down, one is called.
LEMMA DownCalled ==
    ASSUME NEW keys, NEW c \in Chords, NowDown("emulator", keys, c)
    PROVE  CalledDown("emulator", keys) # {}
<1> DEFINE list == <<SaveState, ExitGame, GameRewind>>
           fitting == {i \in 1 .. 3 : NowDown("emulator", keys, list[i])}
<1>1. PICK i \in 1 .. 3 : c = list[i]
  BY DEF Chords
<1>2. PICK j \in fitting : \A k \in fitting : j <= k
  <2>1. i \in fitting
    BY <1>1
  <2> HIDE DEF list
  <2>2. CASE 1 \in fitting
    BY <2>2
  <2>3. CASE 1 \notin fitting /\ 2 \in fitting
    BY <2>3
  <2>4. CASE 1 \notin fitting /\ 2 \notin fitting
    BY <2>1, <2>4
  <2> QED
    BY <2>2, <2>3, <2>4
<1>3. list[j] \in CalledDown("emulator", keys)
  <2>1. Down("emulator") = list /\ DOMAIN list = 1 .. 3
    BY DEF Down
  <2> HIDE DEF list
  <2> QED
    BY <1>2, <2>1 DEF CalledDown, FirstOf
<1> QED
  BY <1>3

\* What is called on a press is one of the chords, and pressed.
LEMMA ChordsCalled ==
    ASSUME NEW p \in Poller, NEW keys \in SUBSET Key
    PROVE  /\ CalledDown(p, keys) \subseteq Chords
           /\ UNION CalledDown(p, keys) \subseteq keys
           /\ p = "interface" => CalledDown(p, keys) = {}
BY CalledDownFacts DEF NowDown
-----------------------------------------------------------------------------
LEMMA InitIInv == Init => IInv
BY DEF Init, IInv, TypeOK, KeysUpMeansReady, Remembered, Poller, Chords

LEMMA AfterDownType ==
    ASSUME TypeOK, NEW p \in Poller, NEW keys \in SUBSET Key
    PROVE  AfterDown(CalledDown(p, keys)) \in {"ui", "run", "rewind", "menu"}
BY DEF AfterDown, TypeOK

LEMMA AfterUpType ==
    ASSUME NEW p, NEW up, NEW s \in {"ui", "run", "rewind", "menu"}
    PROVE  AfterUp(p, up, s) \in {"ui", "run", "rewind", "menu"}
BY DEF AfterUp

LEMMA PollIInv ==
    ASSUME IInv, NEW p \in Poller, NEW keys \in SUBSET Key, Poll(p, keys)
    PROVE  IInv'
<1> DEFINE down == CalledDown(p, keys)
           hotkeys == hot[p] \cup UNION down
           up == CalledUp(p, keys, hotkeys)
           turn == IF upOn[p] THEN up = {} \/ keys = {} ELSE keys = {}
           buttons == IF keys = {} THEN {} ELSE hotkeys
<1>1. /\ pad' = pad
      /\ last' = [last EXCEPT ![p] = keys]
      /\ status' = AfterUp(p, up, AfterDown(down))
      /\ hot' = [hot EXCEPT ![p] = buttons]
      /\ upOn' = [upOn EXCEPT ![p] = turn]
      /\ called' = IF p = "interface" THEN called
                   ELSE IF keys = {} THEN {} ELSE called \cup down \cup up
      /\ polling' \in BOOLEAN
  <2>1. polling \in BOOLEAN
    BY DEF IInv, TypeOK
  <2> QED
    BY <2>1 DEF Poll, ProcCallbacks
<1>2. /\ hotkeys \in SUBSET Key /\ turn \in BOOLEAN
      /\ buttons \in SUBSET Key
      /\ down \subseteq Chords
      /\ p = "emulator" => up \subseteq Chords \cup {MenuToggle}
  <2>1. hotkeys \in SUBSET Key /\ down \subseteq Chords
    BY ChordsCalled DEF IInv, TypeOK
  <2>2. turn \in BOOLEAN
    BY DEF IInv, TypeOK
  <2>3. buttons \in SUBSET Key
    BY <2>1
  <2>4. p = "emulator" => up \subseteq Chords \cup {MenuToggle}
    BY CalledUpFacts DEF Chords
  <2> QED
    BY <2>1, <2>2, <2>3, <2>4
<1>3. TypeOK'
  <2>1. status' \in {"ui", "run", "rewind", "menu"}
    BY <1>1, AfterDownType, AfterUpType DEF IInv
  <2>2. called' \in SUBSET (Chords \cup {MenuToggle})
    BY <1>1, <1>2 DEF IInv, TypeOK, Poller
  <2>3. /\ hot' \in [Poller -> SUBSET Key]
        /\ last' \in [Poller -> SUBSET Key]
        /\ upOn' \in [Poller -> BOOLEAN]
    BY <1>1, <1>2 DEF IInv, TypeOK
  <2> HIDE DEF turn, buttons, up, down, hotkeys
  <2> QED
    BY <1>1, <2>1, <2>2, <2>3 DEF IInv, TypeOK
<1>4. KeysUpMeansReady'
  <2> SUFFICES ASSUME NEW q \in Poller, last'[q] = {}
               PROVE  hot'[q] = {} /\ upOn'[q]
    BY DEF KeysUpMeansReady
  <2>1. CASE q = p
    <3>1. keys = {}
      BY <1>1, <2>1 DEF IInv, TypeOK
    <3>2. hot'[q] = {} /\ upOn'[q] = TRUE
      BY <1>1, <2>1, <3>1 DEF IInv, TypeOK
    <3> QED
      BY <3>2
  <2>2. CASE q # p
    <3>1. last'[q] = last[q] /\ hot'[q] = hot[q] /\ upOn'[q] = upOn[q]
      BY <1>1, <2>2 DEF IInv, TypeOK
    <3> QED
      BY <3>1 DEF IInv, KeysUpMeansReady
  <2> QED
    BY <2>1, <2>2
<1>5. Remembered'
  <2>1. CASE p = "interface"
    <3>1. /\ called' = called
          /\ last'["emulator"] = last["emulator"]
          /\ hot'["emulator"] = hot["emulator"]
          /\ upOn'["emulator"] = upOn["emulator"]
      BY <1>1, <2>1 DEF IInv, TypeOK, Poller
    <3> QED
      BY <3>1 DEF IInv, Remembered
  <2>2. CASE p = "emulator" /\ keys = {}
    <3>1. /\ called' = {} /\ last'["emulator"] = {}
          /\ hot'["emulator"] = {} /\ upOn'["emulator"] = TRUE
      BY <1>1, <2>2 DEF IInv, TypeOK
    <3>2. \A c \in Chords : ~(c \subseteq {})
      BY KeysAssumption
    <3> QED
      BY <3>1, <3>2 DEF Remembered
  <2>3. CASE p = "emulator" /\ keys # {}
    <3>1. /\ called' = called \cup down \cup up
          /\ hot'["emulator"] = hot["emulator"] \cup UNION down
          /\ upOn'["emulator"] = turn
      BY <1>1, <2>3 DEF IInv, TypeOK, Poller
    <3>2. hot["emulator"] \subseteq hot'["emulator"] /\ last'["emulator"] = keys
      BY <1>1, <2>3, <3>1 DEF IInv, TypeOK
    <3>4. ASSUME NEW c \in Chords, c \subseteq keys
          PROVE  \E d \in Chords : d \subseteq hot'["emulator"]
      <4>1. CASE c \subseteq last["emulator"]
        BY <3>2, <3>4, <4>1 DEF IInv, Remembered
      <4>2. CASE ~(c \subseteq last["emulator"])
        <5>1. PICK d \in down : TRUE
          BY <2>3, <3>4, <4>2, DownCalled DEF NowDown
        <5> QED
          BY <1>2, <3>1, <5>1
      <4> QED
        BY <4>1, <4>2
    <3>5. ASSUME NEW c \in called' \cap Chords
          PROVE  \E d \in Chords : d \subseteq hot'["emulator"]
      <4>1. CASE c \in called
        BY <3>2, <3>5, <4>1 DEF IInv, Remembered
      <4>2. CASE c \in down
        BY <3>1, <3>5, <4>2
      <4>3. CASE c \in up
        <5>1. c \subseteq last["emulator"]
          BY <2>3, <4>3, CalledUpFacts DEF NowUp
        <5> QED
          BY <3>2, <3>5, <5>1 DEF IInv, Remembered
      <4> QED
        BY <3>1, <3>5, <4>1, <4>2, <4>3
    <3>3. ASSUME called' = {} PROVE hot'["emulator"] = {} /\ upOn'["emulator"]
      <4>1. called = {} /\ down = {} /\ up = {}
        BY <3>1, <3>3
      <4>2. hot["emulator"] = {} /\ upOn["emulator"]
        BY <4>1 DEF IInv, Remembered
      <4> QED
        BY <2>3, <3>1, <4>1, <4>2
    <3> QED
      BY <3>2, <3>3, <3>4, <3>5 DEF Remembered
  <2> QED
    BY <2>1, <2>2, <2>3 DEF Poller
<1> QED
  BY <1>3, <1>4, <1>5 DEF IInv

LEMMA NextIInv == IInv /\ [Next]_vars => IInv'
<1> SUFFICES ASSUME IInv, [Next]_vars PROVE IInv'
  OBVIOUS
<1>1. CASE \E k \in Key : Press(k) \/ Release(k)
  <2>1. pad' \in SUBSET Key /\ UNCHANGED <<status, polling, last, hot, upOn, called>>
    BY <1>1 DEF Press, Release, IInv, TypeOK
  <2> QED
    BY <2>1 DEF IInv, TypeOK, KeysUpMeansReady, Remembered
<1>2. CASE EmulatorPoll
  <2>1. PICK off \in SUBSET (pad \cap Turbo) : Poll("emulator", pad \ off)
    BY <1>2 DEF EmulatorPoll
  <2> QED
    BY <2>1, PollIInv DEF IInv, TypeOK, Poller
<1>3. CASE InterfacePoll
  BY <1>3, PollIInv DEF InterfacePoll, IInv, TypeOK, Poller
<1>4. CASE UNCHANGED vars
  BY <1>4 DEF vars, IInv, TypeOK, KeysUpMeansReady, Remembered
<1> QED
  BY <1>1, <1>2, <1>3, <1>4 DEF Next

LEMMA SpecIInv == Spec => []IInv
BY InitIInv, NextIInv, PTL DEF Spec
-----------------------------------------------------------------------------
\* An Input that saw all keys up is as good as new, whatever was pressed, called
\* or left half released before.
THEOREM Ready == Spec => []KeysUpMeansReady
<1>1. IInv => KeysUpMeansReady
  BY DEF IInv
<1> QED
  BY <1>1, SpecIInv, PTL

LEMMA ChordStep ==
    IInv /\ [Next]_vars =>
        (status \in {"run", "rewind"} /\ status' = "menu" => called \cap Chords = {})
<1> SUFFICES ASSUME IInv, [Next]_vars,
                    status \in {"run", "rewind"}, status' = "menu",
                    called \cap Chords # {}
             PROVE  FALSE
  OBVIOUS
<1>1. PICK keys \in SUBSET Key : Poll("emulator", keys)
  <2>1. CASE \E k \in Key : Press(k) \/ Release(k)
    BY <2>1 DEF Press, Release
  <2>2. CASE EmulatorPoll
    BY <2>2 DEF EmulatorPoll, IInv, TypeOK
  <2>3. CASE InterfacePoll
    BY <2>3 DEF InterfacePoll, Poll, Menus
  <2>4. CASE UNCHANGED vars
    BY <2>4 DEF vars
  <2> QED
    BY <2>1, <2>2, <2>3, <2>4 DEF Next
<1> DEFINE down == CalledDown("emulator", keys)
           hotkeys == hot["emulator"] \cup UNION down
           up == CalledUp("emulator", keys, hotkeys)
<1>2. status' = AfterUp("emulator", up, AfterDown(down))
  BY <1>1 DEF Poll, ProcCallbacks
<1>3. PICK c \in Chords : c \subseteq hotkeys
  BY DEF IInv, Remembered
<1>4. MenuToggle \notin up
  <2>1. ~Own(MenuToggle, hotkeys)
    BY <1>3, KeysAssumption DEF Own
  <2> QED
    BY <2>1, CalledUpFacts DEF Poller
<1>5. AfterDown(down) # "menu"
  BY DEF AfterDown
<1> HIDE DEF down, up
<1> QED
  BY <1>2, <1>4, <1>5 DEF AfterUp

\* Letting go of a hotkey never opens the menu, though the menu's button is part
\* of it and both Inputs forget it only when all keys are up.
THEOREM ChordsLeaveTheMenuAlone == Spec => ChordsDoNotToggle
<1>1. IInv /\ [Next]_vars =>
        [/\ status \in {"run", "rewind"} /\ status' = "menu"
         => called \cap Chords = {}]_vars
  BY ChordStep
<1> QED
  BY <1>1, SpecIInv, PTL DEF Spec, ChordsDoNotToggle

LEMMA ToggleStep ==
    IInv /\ [Next]_vars =>
        (/\ last["emulator"] = MenuToggle /\ last'["emulator"] = {}
         /\ called = {} /\ status \in {"run", "rewind"}
         => status' = "menu")
<1> SUFFICES ASSUME IInv, [Next]_vars,
                    last["emulator"] = MenuToggle, last'["emulator"] = {},
                    called = {}, status \in {"run", "rewind"}
             PROVE  status' = "menu"
  OBVIOUS
<1>1. Poll("emulator", {})
  <2>1. last'["emulator"] # last["emulator"]
    BY KeysAssumption
  <2>2. CASE \E k \in Key : Press(k) \/ Release(k)
    BY <2>1, <2>2 DEF Press, Release
  <2>3. CASE EmulatorPoll
    <3>1. PICK keys : Poll("emulator", keys)
      BY <2>3 DEF EmulatorPoll
    <3>2. keys = {}
      BY <3>1 DEF Poll, IInv, TypeOK, Poller
    <3> QED
      BY <3>1, <3>2
  <2>4. CASE InterfacePoll
    BY <2>4 DEF InterfacePoll, Poll, Menus
  <2>5. CASE UNCHANGED vars
    BY <2>1, <2>5 DEF vars
  <2> QED
    BY <2>2, <2>3, <2>4, <2>5 DEF Next
<1>2. CalledDown("emulator", {}) = {}
  BY NothingDown DEF Poller
<1>3. hot["emulator"] \cup UNION CalledDown("emulator", {}) = {} /\ upOn["emulator"]
  BY <1>2 DEF IInv, Remembered
<1>4. CalledUp("emulator", {}, {}) = {MenuToggle}
  <2> DEFINE list == <<GameRewind, MenuToggle>>
  <2>1. Up("emulator") = list /\ DOMAIN list = 1 .. 2
    BY DEF Up
  <2>2. ~NowUp("emulator", {}, list[1])
    BY KeysAssumption DEF NowUp, Chords
  <2>3. NowUp("emulator", {}, list[2]) /\ Own(list[2], {}) /\ list[2] = MenuToggle
    BY KeysAssumption DEF NowUp, Own
  <2> HIDE DEF list
  <2>4. {i \in DOMAIN Up("emulator") : /\ upOn["emulator"]
                                       /\ NowUp("emulator", {}, Up("emulator")[i])
                                       /\ Own(Up("emulator")[i], {})} = {2}
    BY <1>3, <2>1, <2>2, <2>3
  <2>5. FirstOf(list, {2}) = {MenuToggle}
    BY <2>3 DEF FirstOf
  <2> QED
    BY <2>1, <2>4, <2>5 DEF CalledUp
<1>5. status' = AfterUp("emulator", {MenuToggle}, AfterDown({}))
  BY <1>1, <1>2, <1>3, <1>4 DEF Poll, ProcCallbacks
<1>6. AfterDown({}) = status
  BY DEF AfterDown
<1>7. {MenuToggle} # {GameRewind}
  BY KeysAssumption DEF Chords
<1> QED
  BY <1>5, <1>6, <1>7 DEF AfterUp

\* Pressed and released alone, the menu's button always opens the menu.
THEOREM ToggleOpensTheMenu == Spec => ToggleIsHeeded
<1>1. IInv /\ [Next]_vars =>
        [/\ last["emulator"] = MenuToggle /\ last'["emulator"] = {}
         /\ called = {} /\ status \in {"run", "rewind"}
         => status' = "menu"]_vars
  BY ToggleStep
<1> QED
  BY <1>1, SpecIInv, PTL DEF Spec, ToggleIsHeeded
-----------------------------------------------------------------------------
\* A list is one of entries, and the card has every place.
ListOk(its) == /\ its \in Seq({ its[i] : i \in DOMAIN its })
               /\ \A i \in DOMAIN its : "dir" \in DOMAIN its[i]
CardOk(c) == c \in [B!Dir -> [B!Name -> B!OnCard(c)]]
\* What was found are files of the list.
FoundFiles(f, its) == \A r \in f : r \in 0 .. Len(its) - 1 /\ ~its[r + 1].dir
\* What a confirm dialog names is what a yes would overwrite or remove.
AskedFor ==
    mode = "confirm" =>
        /\ cmd = B!PASTE => asked = <<path, clip.name>>
        /\ cmd = B!DELETE /\ index < Len(items) /\ ~items[index + 1].dir =>
              asked = <<path, items[index + 1].name>>
\* Once a text dialog was refused nothing opens any more.
Levels == /\ refused \in {0, 1} /\ (mode # "list" => refused = 0)
          /\ B!LevelsHaveOwners
BrowserInv ==
    /\ ListOk(items) /\ CardOk(card) /\ path \in {"root", "dev", "sub"}
    /\ FoundFiles(found, items) /\ AskedFor /\ Levels

LEMMA UpdatedList ==
    ASSUME NEW its, ListOk(its), NEW c, NEW d, NEW i, NEW t, NEW new, new = B!Update(its, c, d, i, t)
    PROVE  /\ ListOk(new) /\ Len(new) = Len(its)
           /\ \A r \in 0 .. Len(its) - 1 : new[r + 1].dir = its[r + 1].dir
<1>1. PICK k, v : new \in {its, [its EXCEPT ![k] = [its[k] EXCEPT !.legal = v]]}
  BY DEF B!Update
<1> DEFINE e == [its[k] EXCEPT !.legal = v]
           put == [its EXCEPT ![k] = e]
<1>2. DOMAIN its = 1 .. Len(its) /\ Len(its) \in Nat /\ its = [j \in 1 .. Len(its) |-> its[j]]
  BY DEF ListOk
<1>3. k \in DOMAIN its => "dir" \in DOMAIN e /\ e.dir = its[k].dir
  BY DEF ListOk
<1> HIDE DEF e
<1>4. DOMAIN put = 1 .. Len(its) /\ \A j \in 1 .. Len(its) : put[j] = IF j = k THEN e ELSE its[j]
  BY <1>2
<1>5. put \in Seq({ put[j] : j \in DOMAIN put }) /\ Len(put) = Len(its)
  <2> HIDE DEF put
  <2> DEFINE Els == { put[j] : j \in DOMAIN put }
  <2>0. put = [j \in 1 .. Len(its) |-> put[j]]
    BY <1>2, <1>4 DEF put
  <2>1. put \in [1 .. Len(its) -> Els]
    BY <1>4, <2>0
  <2> HIDE DEF Els
  <2>2. put \in Seq(Els) /\ Len(put) = Len(its)
    BY <1>2, <2>1
  <2> QED
    BY <2>2 DEF Els
<1> HIDE DEF put
<1>6. ListOk(put) /\ \A r \in 0 .. Len(its) - 1 : put[r + 1].dir = its[r + 1].dir
  BY <1>2, <1>3, <1>4, <1>5, SMTT(20) DEF ListOk
<1> QED
  BY <1>1, <1>5, <1>6 DEF put, e

LEMMA BuiltList ==
    ASSUME IsFiniteSet(B!Name), NEW c, NEW d \in {"root", "dev", "sub"}
    PROVE  ListOk(B!ItemsOf(c, d))
<1> DEFINE n == Cardinality(B!Listed(c, d))
           entry(i) == B!File(B!Nth(B!Listed(c, d), i))
           Files == { entry(i) : i \in 1 .. n }
           files == B!FileItems(c, d)
<1>1. n \in Nat
  <2>1. B!Listed(c, d) \subseteq B!Name
    BY DEF B!Listed, B!Files
  <2> QED
    BY <2>1, FS_Subset, FS_CardinalityType
<1>2. files = [i \in 1 .. n |-> entry(i)]
  BY DEF B!FileItems, B!Cardinality, Cardinality
<1>3. \A f \in Files \cup {B!Folder} : "dir" \in DOMAIN f
  BY DEF B!File, B!Folder, entry
<1> HIDE DEF n, files, entry
<1>4. files \in Seq(Files)
  <2>1. files \in [1 .. n -> Files]
    BY <1>2
  <2> HIDE DEF Files
  <2> QED
    BY <1>1, <2>1
<1> HIDE DEF Files
<1>5. ASSUME NEW s \in Seq(Files \cup {B!Folder}) PROVE ListOk(s)
  <2>1. s \in Seq({ s[i] : i \in DOMAIN s })
    <3>1. DOMAIN s = 1 .. Len(s) /\ Len(s) \in Nat /\ s = [i \in 1 .. Len(s) |-> s[i]]
      OBVIOUS
    <3> DEFINE Els == { s[i] : i \in DOMAIN s }
    <3>2. s \in [1 .. Len(s) -> Els]
      BY <3>1
    <3> HIDE DEF Els
    <3>3. s \in Seq(Els)
      BY <3>1, <3>2
    <3> QED
      BY <3>3 DEF Els
  <2>2. \A i \in DOMAIN s : s[i] \in Files \cup {B!Folder}
    OBVIOUS
  <2> QED
    BY <1>3, <2>1, <2>2 DEF ListOk
<1>6. B!ItemsOf(c, d) \in {<<B!Folder>>, <<B!Folder>> \o files, files}
  BY DEF B!ItemsOf, files
<1>7. /\ <<B!Folder>> \in Seq(Files \cup {B!Folder}) /\ files \in Seq(Files \cup {B!Folder})
      /\ <<B!Folder>> \o files \in Seq(Files \cup {B!Folder})
  BY <1>4
<1> QED
  BY <1>5, <1>6, <1>7

LEMMA PutIs ==
    ASSUME NEW c, CardOk(c), NEW d, NEW n, NEW x
    PROVE  /\ CardOk(B!Put(c, d, n, x))
           /\ \A e \in B!Dir, m \in B!Name : B!Put(c, d, n, x)[e][m] = IF e = d /\ m = n THEN x ELSE c[e][m]
<1> DEFINE row == [c[d] EXCEPT ![n] = x]
           put == [c EXCEPT ![d] = row]
<1>1. B!Put(c, d, n, x) = put
  BY DEF B!Put
<1>2. c \in [B!Dir -> [B!Name -> B!OnCard(c)]]
  BY DEF CardOk
<1>3. d \in B!Dir => row = [m \in B!Name |-> IF m = n THEN x ELSE c[d][m]]
  BY <1>2
<1> HIDE DEF row
<1>4. put = [e \in B!Dir |-> IF e = d THEN row ELSE c[e]]
  BY <1>2
<1> HIDE DEF put
<1>5. \A e \in B!Dir, m \in B!Name : put[e][m] = IF e = d /\ m = n THEN x ELSE c[e][m]
  BY <1>3, <1>4
<1>6. put \in [B!Dir -> [B!Name -> B!OnCard(put)]]
  <2>1. \A e \in B!Dir, m \in B!Name : put[e][m] \in B!OnCard(put)
    BY DEF B!OnCard
  <2>2. \A e \in B!Dir : put[e] = [m \in B!Name |-> put[e][m]]
    BY <1>2, <1>3, <1>4
  <2>3. \A e \in B!Dir : put[e] \in [B!Name -> B!OnCard(put)]
    BY <2>1, <2>2
  <2> QED
    BY <1>4, <2>3
<1> QED
  BY <1>1, <1>5, <1>6 DEF CardOk

LEMMA BrowserInit == ASSUME IsFiniteSet(B!Name), B!Init PROVE BrowserInv
<1>1. path = "dev" /\ items = B!ItemsOf(card, "dev") /\ found = {} /\ mode = "list" /\ depth = 0 /\ refused = 0
  BY DEF B!Init
<1>2. ListOk(items)
  BY <1>1, BuiltList
<1>3. CardOk(card)
  <2>1. \A d \in B!Dir, n \in B!Name : card[d][n] \in B!OnCard(card)
    BY DEF B!OnCard
  <2>2. DOMAIN card = B!Dir /\ card = [d \in B!Dir |-> [n \in B!Name |-> card[d][n]]]
    <3> DEFINE first(d, n) == IF \E x \in DOMAIN Place : Place[x] = <<d, n>>
                              THEN CHOOSE x \in DOMAIN Place : Place[x] = <<d, n>> ELSE None
    <3>1. card = [d \in B!Dir |-> [n \in B!Name |-> first(d, n)]]
      BY DEF B!Init
    <3> HIDE DEF first
    <3> QED
      BY <3>1
  <2>3. \A d \in B!Dir : card[d] \in [B!Name -> B!OnCard(card)]
    BY <2>1, <2>2
  <2> QED
    BY <2>2, <2>3 DEF CardOk
<1> QED
  BY <1>1, <1>2, <1>3 DEF BrowserInv, FoundFiles, AskedFor, Levels, B!LevelsHaveOwners

\* The list is built anew.
LEMMA PathSet ==
    ASSUME IsFiniteSet(B!Name), NEW c, NEW d \in {"root", "dev", "sub"}, B!SetCurrentPath(c, d)
    PROVE  ListOk(items') /\ path' = d /\ found' = {}
BY BuiltList DEF B!SetCurrentPath

LEMMA Entered ==
    ASSUME IsFiniteSet(B!Name), BrowserInv, NEW d \in {"root", "dev", "sub"}, B!Enter(d)
    PROVE  ListOk(items') /\ path' \in {"root", "dev", "sub"} /\ found' = {}
<1>1. CASE B!SetCurrentPath(card, d)
  BY <1>1, PathSet
<1>2. CASE B!CannotOpen
  <2>1. ListOk(<<>>)
    BY DEF ListOk
  <2> QED
    BY <1>2, <2>1 DEF B!CannotOpen, BrowserInv
<1> QED
  BY <1>1, <1>2 DEF B!Enter

\* The keys of the list.
LEMMA BrowserKeys ==
    ASSUME IsFiniteSet(B!Name), BrowserInv, B!Move \/ B!OnActive \/ B!OnKeyCross \/ B!OnKeySquare
    PROVE  BrowserInv' /\ card' = card
<1>1. mode = "list" /\ depth = 0 /\ card' = card /\ mode' = mode /\ depth' = depth /\ refused' = refused
  BY DEF B!Move, B!OnActive, B!OnKeyCross, B!OnKeySquare, B!Keys, B!Browses
<1>2. SUFFICES ListOk(items') /\ path' \in {"root", "dev", "sub"} /\ FoundFiles(found', items')
  BY <1>1 DEF BrowserInv, AskedFor, Levels, B!LevelsHaveOwners
<1>3. UNCHANGED B!listing => ListOk(items') /\ path' \in {"root", "dev", "sub"} /\ FoundFiles(found', items')
  BY DEF B!listing, BrowserInv
<1>4. CASE B!Move
  <2>1. /\ items' = B!Update(items, card, path, index', tested)
        /\ path' = path /\ found' = found
    BY <1>4 DEF B!Move
  <2>2. /\ ListOk(items') /\ Len(items') = Len(items)
        /\ \A r \in 0 .. Len(items) - 1 : items'[r + 1].dir = items[r + 1].dir
    BY <2>1, UpdatedList DEF BrowserInv
  <2> QED
    BY <2>1, <2>2 DEF BrowserInv, FoundFiles
<1>5. CASE B!OnActive
  <2>1. CASE B!At(items, index).dir
    <3>1. B!Enter(IF path = "root" THEN "dev" ELSE "sub")
      BY <1>5, <2>1 DEF B!OnActive
    <3> QED
      BY <3>1, Entered DEF FoundFiles
  <2>2. CASE ~B!At(items, index).dir
    BY <1>3, <1>5, <2>2 DEF B!OnActive
  <2> QED
    BY <2>1, <2>2
<1>6. CASE B!OnKeyCross
  <2>1. B!Enter(IF path = "sub" THEN "dev" ELSE "root")
    BY <1>6 DEF B!OnKeyCross
  <2> QED
    BY <2>1, Entered DEF FoundFiles
<1>7. CASE B!OnKeySquare
  BY <1>3, <1>7 DEF B!OnKeySquare
<1> QED
  BY <1>4, <1>5, <1>6, <1>7

\* What opens over the list, or closes, and leaves the list alone.
LEMMA BrowserOpens ==
    ASSUME BrowserInv,
           B!OnKeySelect \/ B!OnKeyTriangle \/ B!OnCancel \/ B!DownloadEnds \/ B!NoText
    PROVE  BrowserInv' /\ card' = card
<1>1. UNCHANGED <<card, path, items, found>>
  BY DEF B!OnKeySelect, B!OnKeyTriangle, B!OnCancel, B!DownloadEnds, B!NoText, B!Stays, B!listing
<1>2. mode' # "confirm" /\ Levels'
  <2>1. CASE B!OnKeySelect \/ B!OnKeyTriangle
    <3>1. mode = "list" /\ depth = 0 /\ refused = 0
      BY <2>1 DEF B!OnKeySelect, B!OnKeyTriangle, B!Keys, BrowserInv, Levels, B!LevelsHaveOwners
    <3> QED
      BY <2>1, <3>1 DEF B!OnKeySelect, B!OnKeyTriangle, B!Open, B!TextDialog, Levels, B!LevelsHaveOwners
  <2>2. CASE B!OnCancel \/ B!DownloadEnds \/ B!NoText
    BY <2>2 DEF B!OnCancel, B!DownloadEnds, B!NoText, B!Close, BrowserInv, Levels, B!LevelsHaveOwners
  <2> QED
    BY <2>1, <2>2
<1> QED
  BY <1>1, <1>2 DEF BrowserInv, AskedFor

\* A paste closes what called it, or asks first; it costs but the file it asked for.
LEMMA PastedIs ==
    ASSUME BrowserInv, clip.dir # path, NEW new, new = B!Pasted(<<path, clip.name>>)
    PROVE  /\ CardOk(new)
           /\ \A d \in B!Dir, n \in B!Name : card[d][n] \notin B!OnCard(new) =>
                 path # "root" /\ d = path /\ n = clip.name
<1> DEFINE from == card[clip.dir][clip.name]
           a == B!Put(card, path, clip.name, from)
           b == B!Put(a, clip.dir, clip.name, None)
<1>1. CardOk(card)
  BY DEF BrowserInv
<1>2. ASSUME NEW c, CardOk(c), NEW d \in B!Dir, NEW n \in B!Name PROVE c[d][n] \in B!OnCard(c)
  BY DEF B!OnCard
<1>3. CASE path = "root"
  BY <1>1, <1>2, <1>3 DEF B!Pasted
<1>4. ASSUME NEW x, new = B!Put(card, path, clip.name, x), path # "root"
      PROVE  /\ CardOk(new)
             /\ \A d \in B!Dir, n \in B!Name : card[d][n] \notin B!OnCard(new) => d = path /\ n = clip.name
  <2> DEFINE put == B!Put(card, path, clip.name, x)
  <2>1. /\ CardOk(put)
        /\ \A e \in B!Dir, m \in B!Name : put[e][m] = IF e = path /\ m = clip.name THEN x ELSE card[e][m]
    BY <1>1, PutIs
  <2>2. new = put
    BY <1>4
  <2> HIDE DEF put
  <2> QED
    BY <1>2, <2>1, <2>2
<1>5. ASSUME new = b, path # "root"
      PROVE  /\ CardOk(new)
             /\ \A d \in B!Dir, n \in B!Name : card[d][n] \notin B!OnCard(new) => d = path /\ n = clip.name
  <2>1. /\ CardOk(a)
        /\ \A e \in B!Dir, m \in B!Name : a[e][m] = IF e = path /\ m = clip.name THEN from ELSE card[e][m]
    BY <1>1, PutIs
  <2>2. /\ CardOk(b)
        /\ \A e \in B!Dir, m \in B!Name : b[e][m] = IF e = clip.dir /\ m = clip.name THEN None ELSE a[e][m]
    BY <2>1, PutIs
  <2>3. path \in B!Dir
    BY <1>5 DEF BrowserInv, B!Dir
  <2> HIDE DEF a, b
  <2>4. ASSUME NEW d \in B!Dir, NEW n \in B!Name, card[d][n] \notin B!OnCard(b)
        PROVE  d = path /\ n = clip.name
    <3>1. CASE d = clip.dir /\ n = clip.name
      <4>1. b[path][n] = card[d][n]
        BY <2>1, <2>2, <2>3, <3>1 DEF from
      <4> QED
        BY <1>2, <2>2, <2>3, <2>4, <4>1
    <3>2. CASE ~(d = clip.dir /\ n = clip.name) /\ ~(d = path /\ n = clip.name)
      <4>1. b[d][n] = card[d][n]
        BY <2>1, <2>2, <3>2
      <4> QED
        BY <1>2, <2>2, <2>4, <4>1
    <3> QED
      BY <3>1, <3>2
  <2> QED
    BY <1>5, <2>2, <2>4
<1>6. CASE path # "root"
  <2>1. new = b \/ \E x : new = B!Put(card, path, clip.name, x)
    BY <1>6 DEF B!Pasted
  <2> HIDE DEF b
  <2> QED
    BY <1>4, <1>5, <1>6, <2>1
<1> QED
  BY <1>3, <1>6

LEMMA PasteFileIs ==
    ASSUME IsFiniteSet(B!Name), BrowserInv, mode # "list", cmd' = B!PASTE,
           NEW overwrite \in BOOLEAN, B!PasteFile(overwrite)
    PROVE  /\ BrowserInv'
           /\ \A d \in B!Dir, n \in B!Name : card[d][n] \notin B!OnCard(card') \cup {None} =>
                 overwrite /\ d = path /\ n = clip.name
<1>2. \A d \in B!Dir, n \in B!Name : card[d][n] \in B!OnCard(card)
  BY DEF B!OnCard
<1>3. depth = 1 /\ refused = 0
  BY DEF BrowserInv, Levels, B!LevelsHaveOwners
<1>4. CASE B!Close /\ UNCHANGED <<card, B!listing, index, clip, changes>>
  BY <1>2, <1>3, <1>4 DEF B!Close, B!listing, BrowserInv, AskedFor, Levels, B!LevelsHaveOwners
<1>5. CASE /\ B!Instead("confirm") /\ asked' = <<path, clip.name>>
           /\ UNCHANGED <<card, B!listing, index, clip, changes>>
  BY <1>2, <1>3, <1>5 DEF B!Instead, B!listing, BrowserInv, AskedFor, Levels, B!LevelsHaveOwners, B!PASTE, B!DELETE
<1>6. ASSUME B!Paste, clip.dir # path, path = "root" \/ card[path][clip.name] = None \/ overwrite
      PROVE  /\ BrowserInv'
             /\ \A d \in B!Dir, n \in B!Name : card[d][n] \notin B!OnCard(card') \cup {None} =>
                   overwrite /\ d = path /\ n = clip.name
  <2>1. card' = B!Pasted(<<path, clip.name>>) /\ B!SetCurrentPath(card', path) /\ B!Close
    BY <1>6 DEF B!Paste
  <2>2. /\ CardOk(card')
        /\ \A d \in B!Dir, n \in B!Name : card[d][n] \notin B!OnCard(card') =>
              path # "root" /\ d = path /\ n = clip.name
    BY <1>6, <2>1, PastedIs
  <2>3. ListOk(items') /\ path' = path /\ found' = {}
    BY <2>1, PathSet DEF BrowserInv
  <2>4. mode' = "list" /\ depth' = 0 /\ refused' = 0
    BY <1>3, <2>1 DEF B!Close
  <2>5. BrowserInv'
    BY <2>2, <2>3, <2>4 DEF BrowserInv, FoundFiles, AskedFor, Levels, B!LevelsHaveOwners
  <2> QED
    BY <1>6, <2>2, <2>5
<1>7. /\ clip.dir = path => B!Close /\ UNCHANGED <<card, B!listing, index, clip, changes>>
      /\ clip.dir # path /\ path # "root" /\ card[path][clip.name] # None /\ ~overwrite =>
            /\ B!Instead("confirm") /\ asked' = <<path, clip.name>>
            /\ UNCHANGED <<card, B!listing, index, clip, changes>>
      /\ clip.dir # path /\ ~(path # "root" /\ card[path][clip.name] # None /\ ~overwrite) => B!Paste
  BY DEF B!PasteFile
<1> QED
  BY <1>4, <1>5, <1>6, <1>7

\* An answer of the menu dialog.
LEMMA BrowserDialog ==
    ASSUME IsFiniteSet(B!Name), BrowserInv, NEW k, B!OnDialog(k)
    PROVE  /\ BrowserInv'
           /\ \A d \in B!Dir, n \in B!Name : card[d][n] \in B!OnCard(card') \cup {None}
<1>1. \A d \in B!Dir, n \in B!Name : card[d][n] \in B!OnCard(card)
  BY DEF B!OnCard
<1>2. mode = "menu" /\ depth = 1 /\ refused = 0
  BY DEF B!OnDialog, BrowserInv, Levels, B!LevelsHaveOwners
<1>3. PICK it \in B!Item(items, index) :
         LET c == B!Command(k, it)
             file == B!CurrentFullPath(it)
         IN /\ cmd' = c
            /\ \/ c = B!PASTE /\ B!PasteFile(FALSE)
               \/ /\ c \in {B!COPY, B!CUT} /\ B!Close /\ B!Stays
                  /\ clip' = IF file = None THEN None
                             ELSE [dir |-> file[1], name |-> file[2], cut |-> c = B!CUT]
               \/ /\ c = B!DELETE /\ B!Instead("confirm") /\ asked' = file
                  /\ B!Stays /\ UNCHANGED clip
               \/ /\ c = B!RENAME
                  /\ IF index < Len(items) THEN B!TextDialog("rename", depth) /\ UNCHANGED asked ELSE B!Close
                  /\ B!Stays /\ UNCHANGED clip
               \/ /\ c = B!THUMBS /\ B!Instead("download")
                  /\ B!Stays /\ UNCHANGED <<clip, asked>>
               \/ /\ c > B!THUMBS /\ c # B!PASTE /\ B!Close /\ B!Stays /\ UNCHANGED clip
  BY Zenon DEF B!OnDialog
<1> DEFINE c == B!Command(k, it)
           file == B!CurrentFullPath(it)
<1>4. /\ cmd' = c
      /\ \/ c = B!PASTE /\ B!PasteFile(FALSE)
         \/ B!Close /\ B!Stays
         \/ c = B!DELETE /\ B!Instead("confirm") /\ asked' = file /\ B!Stays
         \/ (B!TextDialog("rename", depth) \/ B!Instead("download")) /\ B!Stays
  BY <1>3, Zenon
<1> HIDE DEF c
<1>5. CASE c = B!PASTE /\ B!PasteFile(FALSE)
  BY <1>2, <1>4, <1>5, PasteFileIs
<1>6. CASE B!Close /\ B!Stays
  BY <1>1, <1>2, <1>6 DEF B!Close, B!Stays, B!listing, BrowserInv, AskedFor, Levels, B!LevelsHaveOwners
<1>7. CASE c = B!DELETE /\ B!Instead("confirm") /\ asked' = file /\ B!Stays
  <2>1. index < Len(items) => it = items[index + 1]
    BY DEF B!Item, B!At
  <2>2. index < Len(items) /\ ~items[index + 1].dir => file = <<path, items[index + 1].name>>
    BY <2>1 DEF B!CurrentFullPath
  <2>3. cmd' # B!PASTE
    BY <1>4, <1>7 DEF B!PASTE, B!DELETE
  <2> QED
    BY <1>1, <1>2, <1>7, <2>2, <2>3
    DEF B!Instead, B!Stays, B!listing, BrowserInv, AskedFor, Levels, B!LevelsHaveOwners
<1>8. CASE (B!TextDialog("rename", depth) \/ B!Instead("download")) /\ B!Stays
  BY <1>1, <1>2, <1>8 DEF B!TextDialog, B!Instead, B!Stays, B!listing, BrowserInv, AskedFor, Levels, B!LevelsHaveOwners
<1> QED
  BY <1>4, <1>5, <1>6, <1>7, <1>8

\* A yes costs the file that was named.
LEMMA BrowserConfirm ==
    ASSUME IsFiniteSet(B!Name), BrowserInv, B!OnConfirmDialog
    PROVE  /\ BrowserInv'
           /\ \A d \in B!Dir, n \in B!Name : card[d][n] \notin B!OnCard(card') \cup {None} =>
                 mode = "confirm" /\ asked = <<d, n>>
<1>1. \A d \in B!Dir, n \in B!Name : card[d][n] \in B!OnCard(card)
  BY DEF B!OnCard
<1>2. mode = "confirm" /\ depth = 1 /\ refused = 0 /\ cmd' = cmd /\ AskedFor
  BY DEF B!OnConfirmDialog, BrowserInv, Levels, B!LevelsHaveOwners
<1>3. CASE cmd = B!PASTE /\ B!PasteFile(TRUE)
  BY <1>2, <1>3, PasteFileIs DEF AskedFor
<1>4. CASE cmd = B!DELETE /\ B!Close /\ card' = card /\ UNCHANGED B!listing
  BY <1>1, <1>2, <1>4 DEF B!Close, B!listing, BrowserInv, AskedFor, Levels, B!LevelsHaveOwners
<1>5. ASSUME cmd = B!DELETE, B!Close, NEW it \in B!Item(items, index), NEW f, f = B!CurrentFullPath(it), f # None,
             card' = B!Put(card, f[1], f[2], None), B!SetCurrentPath(card', path)
      PROVE  /\ BrowserInv'
             /\ \A d \in B!Dir, n \in B!Name : card[d][n] \notin B!OnCard(card') \cup {None} => asked = <<d, n>>
  <2>1. index < Len(items) /\ ~it.dir /\ f = <<path, it.name>>
    BY <1>5 DEF B!CurrentFullPath
  <2>2. it = items[index + 1]
    BY <2>1 DEF B!Item, B!At
  <2>3. asked = f
    BY <1>2, <1>5, <2>1, <2>2 DEF AskedFor
  <2>4. /\ CardOk(card')
        /\ \A e \in B!Dir, m \in B!Name : card'[e][m] = IF e = f[1] /\ m = f[2] THEN None ELSE card[e][m]
    BY <1>5, PutIs DEF BrowserInv
  <2>5. \A d \in B!Dir, n \in B!Name : card'[d][n] \in B!OnCard(card')
    BY DEF B!OnCard
  <2>6. ListOk(items') /\ path' = path /\ found' = {}
    BY <1>5, PathSet DEF BrowserInv
  <2>7. mode' = "list" /\ depth' = 0 /\ refused' = 0
    BY <1>2, <1>5 DEF B!Close
  <2>8. BrowserInv'
    BY <2>4, <2>6, <2>7 DEF BrowserInv, FoundFiles, AskedFor, Levels, B!LevelsHaveOwners
  <2>9. ASSUME NEW d \in B!Dir, NEW n \in B!Name, card[d][n] \notin B!OnCard(card') PROVE asked = <<d, n>>
    <3>1. d = f[1] /\ n = f[2]
      BY <2>4, <2>5, <2>9
    <3> QED
      BY <2>1, <2>3, <3>1
  <2> QED
    BY <2>8, <2>9
<1>6. \/ cmd = B!PASTE /\ B!PasteFile(TRUE)
      \/ /\ cmd = B!DELETE /\ B!Close
         /\ \E it \in B!Item(items, index) : \E f : f = B!CurrentFullPath(it) /\
               \/ card' = card /\ UNCHANGED B!listing
               \/ f # None /\ card' = B!Put(card, f[1], f[2], None) /\ B!SetCurrentPath(card', path)
  BY DEF B!OnConfirmDialog
<1> QED
  BY <1>2, <1>3, <1>4, <1>5, <1>6

\* A text renames, to a name that was free, or searches, and costs nothing.
LEMMA BrowserText ==
    ASSUME IsFiniteSet(B!Name), BrowserInv, NEW n \in B!Name, NEW f \in SUBSET B!FileAt, B!TextInput(n, f)
    PROVE  /\ BrowserInv'
           /\ \A d \in B!Dir, m \in B!Name : card[d][m] \in B!OnCard(card') \cup {None}
<1>1. \A d \in B!Dir, m \in B!Name : card[d][m] \in B!OnCard(card)
  BY DEF B!OnCard
<1>2. mode' = "list" /\ depth' = 0 /\ refused' = 0
  BY DEF B!TextInput, B!Close, BrowserInv, Levels, B!LevelsHaveOwners
<1>3. CASE cmd = B!RENAME
  <2>1. /\ B!SetCurrentPath(card', path)
        /\ card' = card \/ card' \in B!Renamed(n)
    BY <1>3 DEF B!TextInput
  <2>2. ListOk(items') /\ path' = path /\ found' = {}
    BY <2>1, PathSet DEF BrowserInv
  <2>3. CardOk(card') /\ \A d \in B!Dir, m \in B!Name : card[d][m] \in B!OnCard(card') \cup {None}
    <3>1. CASE card' = card
      BY <1>1, <3>1 DEF BrowserInv
    <3>2. CASE card' # card
      <4>1. PICK g : /\ g = B!CurrentFullPath(B!At(items, index)) /\ g # None
                     /\ card[g[1]][g[2]] # None /\ card[path][n] = None
                     /\ card' = B!Put(B!Put(card, path, n, card[g[1]][g[2]]), g[1], g[2], None)
        BY <2>1, <3>2 DEF B!Renamed
      <4>2. g[1] = path
        BY <4>1 DEF B!CurrentFullPath
      <4> DEFINE from == card[path][g[2]]
                 a == B!Put(card, path, n, from)
      <4>3. /\ CardOk(a)
            /\ \A e \in B!Dir, m \in B!Name : a[e][m] = IF e = path /\ m = n THEN from ELSE card[e][m]
        BY PutIs DEF BrowserInv
      <4>4. card' = B!Put(a, path, g[2], None)
        BY <4>1, <4>2
      <4> HIDE DEF a
      <4>5. /\ CardOk(card')
            /\ \A e \in B!Dir, m \in B!Name :
                  card'[e][m] = IF e = path /\ m = g[2] THEN None ELSE a[e][m]
        BY <4>3, <4>4, PutIs
      <4>6. \A d \in B!Dir, m \in B!Name : card'[d][m] \in B!OnCard(card')
        BY DEF B!OnCard
      <4>7. g[2] # n /\ card[path][n] = None
        BY <4>1, <4>2
      <4>8. ASSUME NEW d \in B!Dir, NEW m \in B!Name PROVE card[d][m] \in B!OnCard(card') \cup {None}
        <5>1. CASE d = path /\ m = g[2]
          <6>1. card'[path][n] = from /\ card[d][m] = from
            BY <4>3, <4>5, <4>7, <5>1
          <6> QED
            BY <4>6, <5>1, <6>1
        <5>2. CASE d = path /\ m = n
          BY <4>7, <5>2
        <5>3. CASE ~(d = path /\ m = g[2]) /\ ~(d = path /\ m = n)
          <6>1. card'[d][m] = card[d][m]
            BY <4>3, <4>5, <5>3
          <6> QED
            BY <4>6, <6>1
        <5> QED
          BY <5>1, <5>2, <5>3
      <4> QED
        BY <4>5, <4>8
    <3> QED
      BY <3>1, <3>2
  <2> QED
    BY <1>2, <2>2, <2>3 DEF BrowserInv, FoundFiles, AskedFor, Levels, B!LevelsHaveOwners
<1>4. CASE cmd # B!RENAME
  <2>1. /\ items' = B!Update(items, card, path, index', tested)
        /\ card' = card /\ path' = path /\ found' = f
    BY <1>4 DEF B!TextInput
  <2>2. /\ ListOk(items') /\ Len(items') = Len(items)
        /\ \A r \in 0 .. Len(items) - 1 : items'[r + 1].dir = items[r + 1].dir
    BY <2>1, UpdatedList DEF BrowserInv
  <2>3. \A r \in f : r \in 0 .. Len(items) - 1 /\ ~items[r + 1].dir
    BY DEF B!FileAt, B!End, B!At
  <2>4. FoundFiles(found', items')
    BY <2>1, <2>2, <2>3 DEF FoundFiles
  <2> QED
    BY <1>1, <1>2, <2>1, <2>2, <2>4 DEF BrowserInv, AskedFor, Levels, B!LevelsHaveOwners
<1> QED
  BY <1>3, <1>4

\* Every step keeps the invariant and costs what a yes was said to.
LEMMA BrowserStep ==
    ASSUME IsFiniteSet(B!Name), BrowserInv, [B!Next]_(B!vars)
    PROVE  /\ BrowserInv'
           /\ \A d \in B!Dir, n \in B!Name : card[d][n] \notin B!OnCard(card') \cup {None} =>
                 mode = "confirm" /\ asked = <<d, n>>
<1>1. \A d \in B!Dir, n \in B!Name : card[d][n] \in B!OnCard(card)
  BY DEF B!OnCard
<1>2. CASE UNCHANGED B!vars
  BY <1>1, <1>2 DEF B!vars, BrowserInv, AskedFor, Levels, B!LevelsHaveOwners
<1>3. CASE B!Move \/ B!OnActive \/ B!OnKeyCross \/ B!OnKeySquare
  BY <1>1, <1>3, BrowserKeys
<1>4. CASE B!OnKeySelect \/ B!OnKeyTriangle \/ B!OnCancel \/ B!DownloadEnds \/ B!NoText
  BY <1>1, <1>4, BrowserOpens
<1>5. CASE B!OnConfirmDialog
  BY <1>5, BrowserConfirm
<1>6. ASSUME NEW k, B!OnDialog(k)
      PROVE  /\ BrowserInv'
             /\ \A d \in B!Dir, n \in B!Name : card[d][n] \in B!OnCard(card') \cup {None}
  BY <1>6, BrowserDialog
<1>7. ASSUME NEW n \in B!Name, NEW f \in SUBSET B!FileAt, B!TextInput(n, f)
      PROVE  /\ BrowserInv'
             /\ \A d \in B!Dir, m \in B!Name : card[d][m] \in B!OnCard(card') \cup {None}
  BY <1>7, BrowserText
<1>8. CASE B!Restart
  <2>1. /\ ListOk(items') /\ path' = "dev" /\ found' = {}
    BY <1>8, PathSet DEF B!Restart
  <2> QED
    BY <1>1, <1>8, <2>1 DEF B!Restart, BrowserInv, FoundFiles, AskedFor, Levels, B!LevelsHaveOwners
<1> QED
  BY <1>2, <1>3, <1>4, <1>5, <1>6, <1>7, <1>8 DEF B!Next

LEMMA FiniteNames == IsFiniteSet(B!Name)
BY BrowserAssumption DEF B!Name

LEMMA SpecBrowserInv == BrowserSpec => []BrowserInv
<1> USE FiniteNames
<1>1. B!Init => BrowserInv
  BY BrowserInit
<1>2. BrowserInv /\ [B!Next]_(B!vars) => BrowserInv'
  BY BrowserStep
<1> QED
  BY <1>1, <1>2, PTL DEF BrowserSpec, B!Spec

(* Callbacks are pushed while something is open that will pop them, and only  *)
(* then, for any card, names and sizes and whatever is cancelled or asked     *)
(* again; but for those of a text dialog the system did not open, which stay  *)
(* (TabBrowser::_OnDialog, _PasteFile, OnKeyTriangle, InputTextDialog::Open). *)
THEOREM CallbacksHaveOwners == BrowserSpec => []LevelsHaveOwners
<1>1. BrowserInv => LevelsHaveOwners
  BY DEF BrowserInv, Levels, LevelsHaveOwners
<1> QED
  BY <1>1, SpecBrowserInv, PTL

(* What the next-key jumps to is a file of the list that is shown, for any    *)
(* card, however the list is built anew (Directory::Search, SetCurrentPath).  *)
THEOREM SearchFindsFiles == BrowserSpec => []FoundInList
<1>1. BrowserInv => FoundInList
  BY DEF BrowserInv, FoundFiles, ListOk, FoundInList, B!FoundInList, B!At
<1> QED
  BY <1>1, SpecBrowserInv, PTL

(* A file's contents go from the card only when the confirm dialog named that *)
(* file and was answered with yes, for any files, names and bounds: a paste   *)
(* over a file asks for it, a rename takes a free name, and what was named is *)
(* still under the cursor (_PasteFile, _OnConfirmDialog, _TextInputCallback). *)
THEOREM NothingLostUnasked == BrowserSpec => ConfirmedOnly
<1> USE FiniteNames
<1>1. BrowserInv /\ [B!Next]_(B!vars) =>
        [\A d \in B!Dir, n \in B!Name :
            card[d][n] \notin B!OnCard(card') \cup {None, B!Empty} => mode = "confirm" /\ asked = <<d, n>>]_(B!vars)
  BY BrowserStep
<1> QED
  BY <1>1, SpecBrowserInv, PTL DEF BrowserSpec, B!Spec, ConfirmedOnly, B!ConfirmedOnly
=============================================================================
