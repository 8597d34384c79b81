--------------------------- MODULE VideoFrame_proofs ---------------------------
(***************************************************************************)
(* Proofs about VideoFrame: the texture the draw thread holds is live, and  *)
(* the core does not write into it.                                        *)
(*                                                                         *)
(* The invariant says who holds the video lock (LockInv), that a game is   *)
(* loaded only while no frame is made (AppInv), that a frame or a ring      *)
(* that was begun has its number within the bounds (RoomInv), and what is   *)
(* true while a picture is drawn (DrawInv): the status is one of a game,    *)
(* which nobody can change without the lock, the ring is there, and the     *)
(* core is ahead frames past the texture that is held.                      *)
(***************************************************************************)
EXTENDS VideoFrame, TLAPS

\* TypeOK, in a form the provers take.
Types ==
    /\ status \in {"ui", "run", "rewind", "menu", "exit"} /\ seen \in {"ui", "run", "rewind", "menu", "exit"}
    /\ lock \in {"none", "core", "draw"} /\ sema \in 0 .. 1
    /\ changed \in BOOLEAN
    /\ ring \in {"null", "live", "gone"} /\ gen \in 0 .. MaxGens /\ size \in Size
    /\ index \in 0 .. Count - 1 /\ tex \in [0 .. Count - 1 -> 0 .. MaxFrames]
    /\ last \in [gen : 0 .. MaxGens, at : 0 .. Count - 1]
    /\ held \in [gen : 0 .. MaxGens, at : 0 .. Count - 1]
    /\ cpc \in {"idle", "core", "setup", "create", "copy", "signal"}
    /\ want \in [size : Size, then : {"idle", "copy"}]
    /\ made \in 0 .. MaxFrames /\ shown \in 0 .. MaxFrames /\ ahead \in 0 .. MaxAhead
    /\ app \in {"idle", "leaving", "loading", "loaded"}
    /\ dpc \in {"top", "look", "compare", "wait", "lock", "show", "drawing", "swap", "off"}

LockInv ==
    /\ lock = "core" <=> cpc = "create"
    /\ lock = "draw" <=> dpc \in {"show", "drawing", "swap"}
    /\ ring = "gone" => cpc = "create"

AppInv ==
    /\ app \in {"loading", "loaded"} => cpc = "idle"
    /\ app \in {"leaving", "loading"} => status = "ui"

RoomInv ==
    /\ cpc \in {"setup", "create"} => gen < MaxGens
    /\ cpc = "copy" \/ (cpc \in {"setup", "create"} /\ want.then = "copy") => made < MaxFrames

DrawInv == dpc = "drawing" =>
    /\ status \in InGame /\ ring = "live"
    /\ held.gen = gen /\ (~Preempted => last = held)
    /\ index = held.at + ahead \/ index = held.at + ahead - Count

IInv == Types /\ LockInv /\ AppInv /\ RoomInv /\ DrawInv

USE DEF textures, draw, InGame, Current, None, NoWant
-----------------------------------------------------------------------------
LEMMA Bounds ==
    /\ Count \in Nat /\ MaxAhead \in Nat /\ MaxAhead + 2 <= Count
    /\ MaxFrames \in Nat \ {0} /\ MaxGens \in Nat \ {0} /\ Preempted \in BOOLEAN
    /\ AnySize \in Size
BY VideoAssumption DEF VideoAssumption, AnySize

\* The texture after the newest, without the remainder.
LEMMA NextAtIs ==
    ASSUME index \in 0 .. Count - 1
    PROVE  /\ NextAt \in 0 .. Count - 1
           /\ NextAt = IF index = Count - 1 THEN 0 ELSE index + 1
BY Bounds DEF NextAt


LEMMA BeginFrameKeeps == ASSUME IInv, BeginFrame PROVE IInv'
<1> USE DEF IInv, BeginFrame
<1>1. Types'
  BY DEF Types
<1>2. LockInv'
  BY DEF LockInv
<1>3. AppInv'
  BY DEF AppInv
<1>4. RoomInv'
  BY DEF RoomInv
<1>5. DrawInv'
  BY DEF DrawInv
<1> QED
  BY <1>1, <1>2, <1>3, <1>4, <1>5

LEMMA ConfigChangesKeeps == ASSUME IInv, ConfigChanges PROVE IInv'
<1> USE DEF IInv, ConfigChanges
<1>1. Types'
  BY DEF Types
<1>2. LockInv'
  BY DEF LockInv
<1>3. AppInv'
  BY DEF AppInv
<1>4. RoomInv'
  BY DEF RoomInv
<1>5. DrawInv'
  BY DEF DrawInv
<1> QED
  BY <1>1, <1>2, <1>3, <1>4, <1>5

LEMMA GetCurrentSoftwareFramebufferKeeps == ASSUME IInv, NEW s \in Size, GetCurrentSoftwareFramebuffer(s) PROVE IInv'
<1> USE DEF IInv, GetCurrentSoftwareFramebuffer
<1>1. Types'
  BY DEF Types
<1>2. LockInv'
  BY DEF LockInv
<1>3. AppInv'
  BY DEF AppInv
<1>4. RoomInv'
  BY DEF RoomInv
<1>5. DrawInv'
  BY DEF DrawInv
<1> QED
  BY <1>1, <1>2, <1>3, <1>4, <1>5

LEMMA RefreshKeeps == ASSUME IInv, NEW s \in Size, NEW data \in BOOLEAN, Refresh(s, data) PROVE IInv'
<1> USE DEF IInv, Refresh
<1>1. Types'
  BY DEF Types
<1>2. LockInv'
  BY DEF LockInv
<1>3. AppInv'
  BY DEF AppInv
<1>4. RoomInv'
  BY DEF RoomInv
<1>5. DrawInv'
  BY DEF DrawInv
<1> QED
  BY <1>1, <1>2, <1>3, <1>4, <1>5

LEMMA RefreshNothingKeeps == ASSUME IInv, RefreshNothing PROVE IInv'
<1> USE DEF IInv, RefreshNothing
<1>1. Types'
  BY DEF Types
<1>2. LockInv'
  BY DEF LockInv
<1>3. AppInv'
  BY DEF AppInv
<1>4. RoomInv'
  BY DEF RoomInv
<1>5. DrawInv'
  BY DEF DrawInv
<1> QED
  BY <1>1, <1>2, <1>3, <1>4, <1>5

LEMMA DeleteRingKeeps == ASSUME IInv, DeleteRing PROVE IInv'
<1> USE DEF IInv, DeleteRing
<1>1. Types'
  BY DEF Types
<1>2. LockInv'
  BY DEF LockInv
<1>3. AppInv'
  BY DEF AppInv
<1>4. RoomInv'
  BY DEF RoomInv
<1>5. DrawInv'
  BY DEF LockInv, DrawInv
<1> QED
  BY <1>1, <1>2, <1>3, <1>4, <1>5

LEMMA CreateRingKeeps == ASSUME IInv, CreateRing PROVE IInv'
<1> USE DEF IInv, CreateRing
<1>1. tex' \in [0 .. Count - 1 -> 0 .. MaxFrames]
  BY Bounds DEF Blank
<1>2. /\ last' \in [gen : 0 .. MaxGens, at : 0 .. Count - 1]
      /\ want' \in [size : Size, then : {"idle", "copy"}]
  BY Bounds
<1>3. gen' \in 0 .. MaxGens /\ size' \in Size /\ cpc' \in {"idle", "copy"}
  BY Bounds DEF Types, RoomInv
<1>4. Types'
  BY Bounds, <1>1, <1>2, <1>3 DEF Types, LockInv, AppInv, RoomInv, DrawInv
<1>5. LockInv'
  BY DEF Types, LockInv
<1>6. AppInv'
  BY DEF AppInv
<1>7. RoomInv'
  BY DEF Types, RoomInv
<1>8. DrawInv'
  BY DEF LockInv, DrawInv
<1> QED
  BY <1>4, <1>5, <1>6, <1>7, <1>8

LEMMA NextEndKeeps == ASSUME IInv, NextEnd PROVE IInv'
<1> USE DEF IInv, NextEnd
<1>1. tex' \in [0 .. Count - 1 -> 0 .. MaxFrames]
  BY Bounds, NextAtIs DEF Types, RoomInv
<1>2. index' = IF index = Count - 1 THEN 0 ELSE index + 1
  BY NextAtIs DEF Types
<1>3. held' = held /\ held.at \in 0 .. Count - 1 /\ ahead \in Nat /\ index \in 0 .. Count - 1
  BY DEF Types
<1>4. Types'
  BY Bounds, <1>1 DEF Types
<1>5. LockInv'
  BY DEF LockInv
<1>6. AppInv'
  BY DEF AppInv
<1>7. RoomInv'
  BY DEF RoomInv
<1>8. DrawInv'
  BY Bounds, <1>2, <1>3 DEF DrawInv
<1> QED
  BY <1>4, <1>5, <1>6, <1>7, <1>8

LEMMA SignalDrawKeeps == ASSUME IInv, SignalDraw PROVE IInv'
<1> USE DEF IInv, SignalDraw
<1>1. Types'
  BY DEF Types
<1>2. LockInv'
  BY DEF LockInv
<1>3. AppInv'
  BY DEF AppInv
<1>4. RoomInv'
  BY DEF RoomInv
<1>5. DrawInv'
  BY DEF DrawInv
<1> QED
  BY <1>1, <1>2, <1>3, <1>4, <1>5

LEMMA ChangeStatusKeeps == ASSUME IInv, ChangeStatus PROVE IInv'
<1> USE DEF IInv, ChangeStatus
<1>1. Types'
  BY DEF Set, Types
<1>2. LockInv'
  BY DEF LockInv
<1>3. AppInv'
  BY DEF AppInv
<1>4. RoomInv'
  BY DEF RoomInv
<1>5. DrawInv'
  BY DEF Set, DrawInv
<1> QED
  BY <1>1, <1>2, <1>3, <1>4, <1>5

LEMMA LeaveKeeps == ASSUME IInv, Leave PROVE IInv'
<1> USE DEF IInv, Leave
<1>1. Types'
  BY DEF Set, Types
<1>2. LockInv'
  BY DEF LockInv
<1>3. AppInv'
  BY DEF Set, AppInv
<1>4. RoomInv'
  BY DEF RoomInv
<1>5. DrawInv'
  BY DEF Set, LockInv, DrawInv
<1> QED
  BY <1>1, <1>2, <1>3, <1>4, <1>5

LEMMA ForgetLeftKeeps == ASSUME IInv, ForgetLeft PROVE IInv'
<1> USE DEF IInv, ForgetLeft
<1>1. Types'
  BY Bounds DEF Types
<1>2. LockInv'
  BY DEF LockInv
<1>3. AppInv'
  BY DEF AppInv
<1>4. RoomInv'
  BY DEF RoomInv
<1>5. DrawInv'
  BY DEF AppInv, DrawInv
<1> QED
  BY <1>1, <1>2, <1>3, <1>4, <1>5

LEMMA LoadKeeps == ASSUME IInv, Load PROVE IInv'
<1> USE DEF IInv, Load
<1>1. tex' \in [0 .. Count - 1 -> 0 .. MaxFrames]
  BY Bounds DEF Types, Blank
<1>2. Types'
  BY <1>1 DEF Types
<1>3. LockInv'
  BY DEF LockInv
<1>4. AppInv'
  BY DEF AppInv
<1>5. RoomInv'
  BY DEF RoomInv
<1>6. DrawInv'
  BY DEF DrawInv
<1> QED
  BY <1>2, <1>3, <1>4, <1>5, <1>6

LEMMA LoadedKeeps == ASSUME IInv, Loaded PROVE IInv'
<1> USE DEF IInv, Loaded
<1>1. Types'
  BY DEF Set, Types
<1>2. LockInv'
  BY DEF LockInv
<1>3. AppInv'
  BY DEF AppInv
<1>4. RoomInv'
  BY DEF RoomInv
<1>5. DrawInv'
  BY DEF AppInv, DrawInv
<1> QED
  BY <1>1, <1>2, <1>3, <1>4, <1>5

LEMMA ForgetLoadedKeeps == ASSUME IInv, ForgetLoaded PROVE IInv'
<1> USE DEF IInv, ForgetLoaded
<1>1. Types'
  BY Bounds DEF Types
<1>2. LockInv'
  BY DEF LockInv
<1>3. AppInv'
  BY DEF AppInv
<1>4. RoomInv'
  BY DEF RoomInv
<1>5. DrawInv'
  BY DEF DrawInv
<1> QED
  BY <1>1, <1>2, <1>3, <1>4, <1>5

LEMMA ExitKeeps == ASSUME IInv, Exit PROVE IInv'
<1> USE DEF IInv, Exit
<1>1. Types'
  BY DEF Set, Types
<1>2. LockInv'
  BY DEF LockInv
<1>3. AppInv'
  BY DEF AppInv
<1>4. RoomInv'
  BY DEF RoomInv
<1>5. DrawInv'
  BY DEF DrawInv
<1> QED
  BY <1>1, <1>2, <1>3, <1>4, <1>5

LEMMA ReadStatusKeeps == ASSUME IInv, ReadStatus PROVE IInv'
<1> USE DEF IInv, ReadStatus
<1>1. Types'
  BY DEF Types
<1>2. LockInv'
  BY DEF LockInv
<1>3. AppInv'
  BY DEF AppInv
<1>4. RoomInv'
  BY DEF RoomInv
<1>5. DrawInv'
  BY DEF DrawInv
<1> QED
  BY <1>1, <1>2, <1>3, <1>4, <1>5

LEMMA NeedRenderKeeps == ASSUME IInv, NeedRender PROVE IInv'
<1> USE DEF IInv, NeedRender
<1>1. Types'
  BY Bounds DEF Types
<1>2. LockInv'
  BY DEF LockInv
<1>3. AppInv'
  BY DEF AppInv
<1>4. RoomInv'
  BY DEF RoomInv
<1>5. DrawInv'
  BY DEF DrawInv
<1> QED
  BY <1>1, <1>2, <1>3, <1>4, <1>5

LEMMA CompareKeeps == ASSUME IInv, Compare PROVE IInv'
<1> USE DEF IInv, Compare
<1>1. Types'
  BY Bounds DEF Types
<1>2. LockInv'
  BY DEF LockInv
<1>3. AppInv'
  BY DEF AppInv
<1>4. RoomInv'
  BY DEF RoomInv
<1>5. DrawInv'
  BY DEF DrawInv
<1> QED
  BY <1>1, <1>2, <1>3, <1>4, <1>5

LEMMA WaitKeeps == ASSUME IInv, Wait PROVE IInv'
<1> USE DEF IInv, Wait
<1>1. Types'
  BY DEF Types
<1>2. LockInv'
  BY DEF LockInv
<1>3. AppInv'
  BY DEF AppInv
<1>4. RoomInv'
  BY DEF RoomInv
<1>5. DrawInv'
  BY DEF DrawInv
<1> QED
  BY <1>1, <1>2, <1>3, <1>4, <1>5

LEMMA LockToDrawKeeps == ASSUME IInv, LockToDraw PROVE IInv'
<1> USE DEF IInv, LockToDraw
<1>1. Types'
  BY DEF Types
<1>2. LockInv'
  BY DEF LockInv
<1>3. AppInv'
  BY DEF AppInv
<1>4. RoomInv'
  BY DEF RoomInv
<1>5. DrawInv'
  BY DEF DrawInv
<1> QED
  BY <1>1, <1>2, <1>3, <1>4, <1>5

LEMMA ShowKeeps == ASSUME IInv, Show PROVE IInv'
<1> USE DEF IInv, Show
<1>1. Types'
  BY Bounds, SMTT(20) DEF Types, LockInv, RoomInv, DrawInv
<1>2. LockInv'
  BY DEF LockInv
<1>3. AppInv'
  BY DEF AppInv
<1>4. RoomInv'
  BY DEF RoomInv
<1>5. DrawInv'
  BY DEF Types, LockInv, DrawInv
<1> QED
  BY <1>1, <1>2, <1>3, <1>4, <1>5

LEMMA DrawnKeeps == ASSUME IInv, Drawn PROVE IInv'
<1> USE DEF IInv, Drawn
<1>1. Types'
  BY Bounds DEF Types
<1>2. LockInv'
  BY DEF LockInv
<1>3. AppInv'
  BY DEF AppInv
<1>4. RoomInv'
  BY DEF RoomInv
<1>5. DrawInv'
  BY DEF DrawInv
<1> QED
  BY <1>1, <1>2, <1>3, <1>4, <1>5

LEMMA SwapKeeps == ASSUME IInv, Swap PROVE IInv'
<1> USE DEF IInv, Swap
<1>1. Types'
  BY DEF Types
<1>2. LockInv'
  BY DEF LockInv
<1>3. AppInv'
  BY DEF AppInv
<1>4. RoomInv'
  BY DEF RoomInv
<1>5. DrawInv'
  BY DEF DrawInv
<1> QED
  BY <1>1, <1>2, <1>3, <1>4, <1>5

-----------------------------------------------------------------------------
LEMMA InitIInv == ASSUME Init PROVE IInv
<1>1. tex \in [0 .. Count - 1 -> 0 .. MaxFrames]
  BY Bounds DEF Init, Blank
<1>2. /\ None \in [gen : 0 .. MaxGens, at : 0 .. Count - 1]
      /\ NoWant \in [size : Size, then : {"idle", "copy"}]
  BY Bounds
<1>3. /\ 0 \in 0 .. MaxGens /\ 0 \in 0 .. Count - 1 /\ 0 \in 0 .. MaxFrames
      /\ 0 \in 0 .. MaxAhead /\ 0 \in 0 .. 1
  BY Bounds
<1>4. changed \in BOOLEAN
  BY DEF Init
<1>5. Types
  BY <1>1, <1>2, <1>3, <1>4, Bounds DEF Init, Types
<1> QED
  BY <1>5 DEF Init, IInv, LockInv, AppInv, RoomInv, DrawInv

LEMMA NextIInv == ASSUME IInv, [Next]_vars PROVE IInv'
<1>1. ASSUME Core PROVE IInv'
  BY <1>1, BeginFrameKeeps, ConfigChangesKeeps, RefreshNothingKeeps, DeleteRingKeeps,
     CreateRingKeeps, NextEndKeeps, SignalDrawKeeps, GetCurrentSoftwareFramebufferKeeps,
     RefreshKeeps
     DEF Core
<1>2. ASSUME App PROVE IInv'
  BY <1>2, ChangeStatusKeeps, LeaveKeeps, ForgetLeftKeeps, LoadKeeps, LoadedKeeps,
     ForgetLoadedKeeps, ExitKeeps
     DEF App
<1>3. ASSUME DrawThread PROVE IInv'
  BY <1>3, ReadStatusKeeps, NeedRenderKeeps, CompareKeeps, WaitKeeps, LockToDrawKeeps,
     ShowKeeps, DrawnKeeps, SwapKeeps
     DEF DrawThread
<1>4. ASSUME UNCHANGED vars PROVE IInv'
  BY <1>4 DEF vars, IInv, Types, LockInv, AppInv, RoomInv, DrawInv
<1> QED
  BY <1>1, <1>2, <1>3, <1>4 DEF Next

LEMMA AlwaysIInv == Spec => []IInv
BY InitIInv, NextIInv, PTL DEF Spec

\* Every variable keeps its type; the counters their bounds.
THEOREM TypeCorrect == Spec => []TypeOK
<1>1. ASSUME IInv PROVE TypeOK
  BY <1>1 DEF IInv, Types, TypeOK
<1> QED
  BY <1>1, AlwaysIInv, PTL

\* The texture the draw thread is drawing belongs to the ring that is there,
\* and _last_texture still points to it: the ring is only replaced under the
\* video lock or in a status the draw thread draws nothing in.  Preempted is
\* where LoadRom forgets _last_texture beside a drawing that began meanwhile.
THEOREM DrawnTextureIsLive ==
    ASSUME ~Preempted
    PROVE  Spec => []DrawsLiveTexture
<1>1. ASSUME IInv PROVE DrawsLiveTexture
  BY <1>1 DEF IInv, DrawInv, DrawsLiveTexture
<1> QED
  BY <1>1, AlwaysIInv, PTL

\* The core does not copy a frame into the texture that is being drawn, for any
\* number of textures, as long as it is not more than Count - 2 frames faster.
THEOREM NoPictureTears == Spec => []NoTearing
<1>1. ASSUME IInv PROVE NoTearing
  <2>1. SUFFICES ASSUME dpc = "drawing", cpc = "copy" PROVE held.at # NextAt
    BY DEF NoTearing
  <2>2. held.at \in 0 .. Count - 1 /\ ahead \in 0 .. MaxAhead /\ index \in 0 .. Count - 1
    BY <1>1 DEF IInv, Types
  <2>3. index = held.at + ahead \/ index = held.at + ahead - Count
    BY <1>1, <2>1 DEF IInv, DrawInv
  <2> QED
    BY <2>2, <2>3, Bounds, NextAtIs
<1> QED
  BY <1>1, AlwaysIInv, PTL

================================================================================

