---------------------------- MODULE GameLoop_proofs ----------------------------
(***************************************************************************)
(* Proofs about GameLoop, for any number of rewind threads created one     *)
(* after the other, and for a user and a scheduler that take their time    *)
(* (habits = {}): the user acts when the threads have seen what he did     *)
(* last, and a delay is longer than what the others were doing.  Without   *)
(* that the properties do not hold; the code relies on its delays.         *)
(*                                                                         *)
(* What the invariant is about: the core is used without the emulator lock *)
(* by the menu (LoadState, Reset) and by LoadRom, and the rewind buffers   *)
(* are deleted without any lock.  So it has to say where the others are    *)
(* while the main thread does that, which is known from the status         *)
(* (StatusInv), from what the main thread saw of it (SeenInv), from who is *)
(* unloading (LeavingInv) and from the rewind thread's fields (StoreInv).  *)
(***************************************************************************)
EXTENDS GameLoop, TLAPS

InGameStatus == Playing \cup {"SHOW_UI_IN_GAME"}
Free == {"top", "ui", "run", "wait", "lock", "core"}

\* a is within UnloadGame; the rewind threads sleep or are gone.
Leaving(a) == \/ pc[a] \in {"waiting", "tounload", "unload"}
              \/ pc[a] \in {"stop", "stopping"} /\ job[a] \in Unloading
Calm == \A r \in RewindThreads : pc[r] = "off" \/ (pc[r] = "wait" /\ sema = 0)

\* Where each thread can be.  A rewind thread that is not over is the one whose
\* id is kept, and while a hotkey is served the main thread is in its loop.
PlacesInv ==
    /\ pc["main"] \in Free \cup {"alone", "load", "loaded", "alone1", "done", "create",
                                "waiting", "tounload", "unload", "stop", "stopping"}
    /\ pc["input"] \in {"off", "idle", "saving", "autosave", "lock", "core",
                        "waiting", "tounload", "unload", "stop", "stopping"}
    /\ \A r \in RewindThreads :
        /\ pc[r] \in {"off", "warm", "loop", "rewind", "lock", "core", "compare", "signal", "wait"}
        /\ pc[r] # "off" => r = thread
    /\ pc["input"] \notin {"off", "idle"} => pc["main"] \in Free \ {"wait"}

\* What a thread does at the points that several jobs share.
JobInv ==
    /\ pc["input"] \in {"waiting", "tounload", "unload", "stop", "stopping"} => job["input"] = "exit"
    /\ pc["main"] \in {"waiting", "tounload", "unload"} => job["main"] \in Unloading
    /\ pc["main"] \in {"stop", "stopping"} => job["main"] \in Unloading \cup {"toggle", "load"}
    /\ pc["main"] = "create" => job["main"] \in {"toggle", "load"}
    /\ pc["main"] \in {"load", "loaded", "alone1"} => job["main"] = "load"

\* The emulator lock is held by the thread that runs the core under it, and by
\* UnloadGame until the core is unloaded.
Holds(t) == \/ pc[t] = "core"
            \/ t \in Actors /\ job[t] \in Unloading /\ pc[t] \in {"stop", "stopping", "unload"}
LockInv == \A t \in Threads : owner = t <=> Holds(t)

\* What the main thread saw of the status is still good enough: on its way to a
\* frame the game is there, or is being left by the hotkey, which waits.  When it
\* waits for the rewind thread, that one is at work or the token is there.
SeenInv ==
    /\ pc["main"] = "ui" => seen \in Menus \cup {"BOOT"} /\ (seen = "BOOT" => status = "BOOT")
    /\ pc["main"] \in {"run", "wait", "lock", "core"} =>
        /\ seen \in Playing
        /\ status \in InGameStatus \/ pc["input"] = "waiting"
    /\ pc["main"] = "wait" =>
        /\ seen = "REWIND_GAME" /\ (status = "REWIND_GAME" \/ (status = "RUN_GAME" /\ sema = 1))
        /\ \A r \in RewindThreads : pc[r] \notin {"wait", "warm"}

\* What the status says: there is a game in the playing statuses, and a rewind
\* thread or the input thread only while there is one or it is being left.
StatusInv ==
    /\ status \in InGameStatus => loaded
    /\ pc["main"] = "load" => status = "BOOT"
    /\ pc["main"] \in {"loaded", "alone1"} => status = "RUN_GAME" /\ thread = "none"
    /\ pc["main"] = "alone" => loaded /\ Calm /\ status \in {"SHOW_UI_IN_GAME", "BOOT"}
    /\ pc["main"] \in {"stop", "stopping", "create"} /\ ~Leaving("main") =>
        \/ job["main"] = "toggle" /\ status = "SHOW_UI_IN_GAME"
        \/ job["main"] = "load" /\ status = "RUN_GAME" /\ thread = "none"
    /\ pc["main"] = "done" => status = "EXIT"
    /\ pc["input"] \in {"saving", "autosave", "lock", "core"} =>
        status \in {"RUN_GAME", "SHOW_UI_IN_GAME"}
    /\ thread # "none" \/ polling =>
        \/ status \in InGameStatus
        \/ status = "BOOT" /\ pc["main"] = "alone"
        \/ \E a \in Actors : Leaving(a) /\ was[a] \in InGame

\* While a thread unloads the game, nobody plays it: past its first delay the
\* rewind thread rests, and the main thread is in its loop, if it is not the one.
LeavingInv == \A a \in Actors : Leaving(a) =>
    /\ status = "SHOW_UI" 
    /\ was[a] \in InGame => loaded
    /\ \A r \in RewindThreads : pc[r] # "warm"
    /\ a = "main" \/ pc[a] # "waiting" => pc[a] = "stopping" \/ Calm
    /\ a = "input" =>
        /\ was[a] \in InGame
        /\ pc[a] # "waiting" => pc["main"] \in {"top", "ui"} /\ seen = "SHOW_UI"

\* The rewind thread's fields: the buffers are there as long as its id is; it is
\* told to end only by the thread that then waits for it in Deinit.
StoreInv ==
    /\ bufs <=> thread # "none"
    /\ thread # "none" => rewindCfg \/ (pc["main"] \in {"stop", "stopping"} /\ job["main"] = "toggle")
    /\ pc["main"] \in {"create", "unload"} => thread = "none"
    /\ pc["main"] = "create" => rewindCfg
    /\ pc["input"] = "unload" => thread = "none"
    /\ pc["main"] = "stop" => Calm
    /\ \A a \in Actors : pc[a] = "stopping" =>
        /\ thread # "none" /\ ~keep
        /\ \A r \in RewindThreads : pc[r] \in {"off", "loop"} \/ (pc[r] = "wait" /\ sema = 1)
    /\ thread # "none" /\ ~keep => \E a \in Actors : pc[a] = "stopping"

\* While rewinding, the key is down, and of frames let go and token in the
\* semaphore there is at most one.
RewindInv ==
    /\ status = "REWIND_GAME" => held /\ rewindCfg /\ stale + sema <= 1
    /\ held =>
        /\ pc["input"] = "idle" /\ polling
        /\ pc["main"] \in Free \ {"ui"}
        /\ IF rewindCfg THEN status = "REWIND_GAME" ELSE status = "RUN_GAME"
        /\ \A r \in RewindThreads : pc[r] \notin {"warm", "wait"}

\* TypeOK, each flag for itself.
Types ==
    /\ status \in Status /\ seen \in Status
    /\ pc \in [Threads -> Points] /\ job \in [Threads -> Jobs]
    /\ was \in [Actors -> Status]
    /\ owner \in Threads \cup {"none"} /\ sema \in {0, 1}
    /\ keep \in BOOLEAN /\ bufs \in BOOLEAN /\ polling \in BOOLEAN /\ held \in BOOLEAN
    /\ rewindCfg \in BOOLEAN /\ loaded \in BOOLEAN /\ loadedOnce \in BOOLEAN
    /\ unsaved \in BOOLEAN
    /\ thread \in RewindThreads \cup {"none"}
    /\ frames \in 0 .. WarmFrames /\ stale \in 0 .. MaxStale

IInv == /\ habits = {} /\ Types /\ PlacesInv /\ JobInv /\ LockInv /\ SeenInv /\ StatusInv
        /\ LeavingInv /\ StoreInv /\ RewindInv

USE DEF At, Goto, Start, Menus, Playing, InGame, InGameStatus, Unloading, Actors, Threads,
        Free, game, rewinder, user, Status, Points, Jobs
-----------------------------------------------------------------------------
LEMMA ThreadsDiffer ==
    /\ \A r \in RewindThreads : r \notin {"main", "input", "none"}
    /\ WarmFrames \in Nat /\ MaxStale \in Nat \ {0}
BY LoopAssumption DEF LoopAssumption


LEMMA TopKeeps == ASSUME IInv, Top PROVE IInv'
<1> USE DEF IInv
<1>1. CASE status \in Menus \cup {"BOOT"}
  <2>1. /\ pc["main"] = "top"
        /\ seen' = status
        /\ Goto("main", "ui")
        /\ UNCHANGED <<status, job, was, owner, sema, rewinder, user, game>>
    BY <1>1 DEF Top
  <2>2. Types'
    BY <2>1 DEF Types
  <2>3. PlacesInv'
    BY <2>1 DEF PlacesInv
  <2>4. JobInv'
    BY <2>1 DEF JobInv
  <2>5. LockInv'
    BY <2>1 DEF LockInv, Holds
  <2>6. SeenInv'
    BY <1>1, <2>1 DEF SeenInv
  <2>7. StatusInv'
    BY <2>1 DEF StatusInv, Leaving
  <2>8. LeavingInv'
    BY <2>1 DEF LeavingInv, Leaving, Calm
  <2>9. StoreInv'
    BY <2>1 DEF StoreInv
  <2>10. RewindInv'
    BY <1>1, <2>1 DEF RewindInv
  <2>11. habits' = {}
    BY <2>1
  <2> QED
    BY <2>2, <2>3, <2>4, <2>5, <2>6, <2>7, <2>8, <2>9, <2>10, <2>11
<1>2. CASE status \in Playing
  <2>1. /\ pc["main"] = "top"
        /\ seen' = status
        /\ Goto("main", "run")
        /\ UNCHANGED <<status, job, was, owner, sema, rewinder, user, game>>
    BY <1>2 DEF Top
  <2>2. Types'
    BY <2>1 DEF Types
  <2>3. PlacesInv'
    BY <2>1 DEF PlacesInv
  <2>4. JobInv'
    BY <2>1 DEF JobInv
  <2>5. LockInv'
    BY <2>1 DEF LockInv, Holds
  <2>6. SeenInv'
    BY <1>2, <2>1 DEF SeenInv
  <2>7. StatusInv'
    BY <2>1 DEF StatusInv, Leaving
  <2>8. LeavingInv'
    BY <1>2, <2>1 DEF LeavingInv, Leaving
  <2>9. StoreInv'
    BY <2>1 DEF StoreInv
  <2>10. RewindInv'
    BY <2>1 DEF RewindInv
  <2>11. habits' = {}
    BY <2>1
  <2> QED
    BY <2>2, <2>3, <2>4, <2>5, <2>6, <2>7, <2>8, <2>9, <2>10, <2>11
<1>3. CASE status \in {"RETURN_ARCH", "REBOOT_WITH_LOADING"}
  <2>1. /\ pc["main"] = "top"
        /\ seen' = status
        /\ status' = "EXIT"
        /\ UNCHANGED <<pc, job, was, owner, sema, rewinder, user, game>>
    BY <1>3 DEF Top
  <2>2. Types'
    BY <2>1 DEF Types
  <2>3. PlacesInv'
    BY <2>1 DEF PlacesInv
  <2>4. JobInv'
    BY <2>1 DEF JobInv
  <2>5. LockInv'
    BY <2>1 DEF LockInv, Holds
  <2>6. SeenInv'
    BY <2>1 DEF SeenInv
  <2>7. StatusInv'
    BY <1>3, <2>1 DEF StatusInv, Leaving
  <2>8. LeavingInv'
    BY <1>3, <2>1 DEF LeavingInv, Leaving
  <2>9. StoreInv'
    BY <2>1 DEF StoreInv
  <2>10. RewindInv'
    BY <1>3, <2>1 DEF RewindInv
  <2>11. habits' = {}
    BY <2>1
  <2> QED
    BY <2>2, <2>3, <2>4, <2>5, <2>6, <2>7, <2>8, <2>9, <2>10, <2>11
<1>4. CASE status = "EXIT"
  <2>1. /\ pc["main"] = "top"
        /\ seen' = status
        /\ Goto("main", "done")
        /\ UNCHANGED <<status, job, was, owner, sema, rewinder, user, game>>
    BY <1>4 DEF Top
  <2>2. Types'
    BY <2>1 DEF Types
  <2>3. PlacesInv'
    BY <1>4, <2>1 DEF PlacesInv, JobInv, StatusInv, LeavingInv, Leaving
  <2>4. JobInv'
    BY <2>1 DEF JobInv
  <2>5. LockInv'
    BY <2>1 DEF LockInv, Holds
  <2>6. SeenInv'
    BY <2>1 DEF SeenInv
  <2>7. StatusInv'
    BY <1>4, <2>1 DEF StatusInv, Leaving
  <2>8. LeavingInv'
    BY <1>4, <2>1 DEF LeavingInv, Leaving
  <2>9. StoreInv'
    BY <2>1 DEF StoreInv
  <2>10. RewindInv'
    BY <1>4, <2>1 DEF RewindInv
  <2>11. habits' = {}
    BY <2>1
  <2> QED
    BY <2>2, <2>3, <2>4, <2>5, <2>6, <2>7, <2>8, <2>9, <2>10, <2>11
<1> QED
  BY <1>1, <1>2, <1>3, <1>4 DEF Top

LEMMA UiPassKeeps == ASSUME IInv, UiPass PROVE IInv'
<1> USE DEF IInv
<1>1. Types'
  BY DEF Types, UiPass
<1>2. PlacesInv'
  BY DEF PlacesInv, UiPass
<1>3. JobInv'
  BY DEF JobInv, UiPass
<1>4. LockInv'
  BY DEF LockInv, Holds, UiPass
<1>5. SeenInv'
  BY DEF Types, SeenInv, UiPass
<1>6. StatusInv'
  BY DEF SeenInv, StatusInv, Leaving, UiPass
<1>7. LeavingInv'
  BY DEF LeavingInv, Leaving, Calm, UiPass
<1>8. StoreInv'
  BY DEF StoreInv, UiPass
<1>9. RewindInv'
  BY DEF RewindInv, UiPass
<1>10. habits' = {}
  BY DEF UiPass
<1> QED
  BY <1>1, <1>2, <1>3, <1>4, <1>5, <1>6, <1>7, <1>8, <1>9, <1>10

LEMMA ResumeKeeps == ASSUME IInv, Resume PROVE IInv'
<1> USE DEF IInv
<1>1. Types'
  BY DEF Types, Resume
<1>2. PlacesInv'
  BY DEF PlacesInv, Resume, Chosen
<1>3. JobInv'
  BY DEF JobInv, Resume
<1>4. LockInv'
  BY DEF LockInv, Holds, Resume, Chosen
<1>5. SeenInv'
  BY DEF SeenInv, Resume, Chosen
<1>6. StatusInv'
  BY DEF StatusInv, UserActs, Resume, Chosen
<1>7. LeavingInv'
  BY DEF LeavingInv, Leaving, UserActs, Resume, Chosen
<1>8. StoreInv'
  BY DEF StoreInv, Resume, Chosen
<1>9. RewindInv'
  BY DEF RewindInv, Resume, Chosen
<1>10. habits' = {}
  BY DEF Resume
<1> QED
  BY <1>1, <1>2, <1>3, <1>4, <1>5, <1>6, <1>7, <1>8, <1>9, <1>10

LEMMA LoadStateKeeps == ASSUME IInv, LoadState PROVE IInv'
<1> USE DEF IInv
<1>1. Types'
  BY DEF Types, LoadState
<1>2. PlacesInv'
  BY DEF PlacesInv, UserActs, LoadState, Chosen
<1>3. JobInv'
  BY DEF JobInv, LoadState, Chosen
<1>4. LockInv'
  BY DEF LockInv, Holds, LoadState, Chosen
<1>5. SeenInv'
  BY DEF SeenInv, LoadState
<1>6. StatusInv'
  BY DEF StatusInv, Calm, UserActs, SeenByRewind, LoadState, Chosen
<1>7. LeavingInv'
  BY DEF LeavingInv, Leaving, LoadState, Chosen
<1>8. StoreInv'
  BY DEF StoreInv, LoadState, Chosen
<1>9. RewindInv'
  BY DEF RewindInv, LoadState, Chosen
<1>10. habits' = {}
  BY DEF LoadState
<1> QED
  BY <1>1, <1>2, <1>3, <1>4, <1>5, <1>6, <1>7, <1>8, <1>9, <1>10

LEMMA ResetKeeps == ASSUME IInv, Reset PROVE IInv'
<1> USE DEF IInv
<1>1. Types'
  BY DEF Types, Reset
<1>2. PlacesInv'
  BY DEF PlacesInv, UserActs, Reset, Chosen
<1>3. JobInv'
  BY DEF JobInv, Reset, Chosen
<1>4. LockInv'
  BY DEF LockInv, Holds, Reset, Chosen
<1>5. SeenInv'
  BY DEF SeenInv, Reset, Chosen
<1>6. StatusInv'
  BY DEF Types, StatusInv, Calm, UserActs, SeenByRewind, Reset, Chosen
<1>7. LeavingInv'
  BY DEF LeavingInv, Leaving, Reset
<1>8. StoreInv'
  BY DEF StoreInv, Reset, Chosen
<1>9. RewindInv'
  BY DEF RewindInv, Reset, Chosen
<1>10. habits' = {}
  BY DEF Reset
<1> QED
  BY <1>1, <1>2, <1>3, <1>4, <1>5, <1>6, <1>7, <1>8, <1>9, <1>10

LEMMA AloneEndsKeeps == ASSUME IInv, AloneEnds PROVE IInv'
<1> USE DEF IInv
<1>1. Types'
  BY DEF Types, AloneEnds
<1>2. PlacesInv'
  BY DEF PlacesInv, AloneEnds
<1>3. JobInv'
  BY DEF JobInv, AloneEnds
<1>4. LockInv'
  BY DEF LockInv, Holds, AloneEnds
<1>5. SeenInv'
  BY DEF SeenInv, AloneEnds
<1>6. StatusInv'
  BY DEF Types, StatusInv, AloneEnds
<1>7. LeavingInv'
  BY DEF PlacesInv, LeavingInv, Leaving, AloneEnds
<1>8. StoreInv'
  BY DEF StoreInv, AloneEnds
<1>9. RewindInv'
  BY DEF RewindInv, AloneEnds
<1>10. habits' = {}
  BY DEF AloneEnds
<1> QED
  BY <1>1, <1>2, <1>3, <1>4, <1>5, <1>6, <1>7, <1>8, <1>9, <1>10

LEMMA ToggleRewindKeeps == ASSUME IInv, ToggleRewind PROVE IInv'
<1> USE DEF IInv
<1>1. CASE status \in InGame
  <2>1. /\ Chosen("toggle", Menus)
        /\ rewindCfg' = ~rewindCfg
        /\ Start("main", "toggle", "stop")
        /\ UNCHANGED <<status, seen, was, owner, sema, rewinder, polling, held, habits, game>>
    BY <1>1 DEF ToggleRewind
  <2>2. Types'
    BY <2>1 DEF Types
  <2>3. PlacesInv'
    BY <2>1 DEF Chosen, PlacesInv, UserActs
  <2>4. JobInv'
    BY <2>1 DEF Types, JobInv
  <2>5. LockInv'
    BY <2>1 DEF Chosen, Types, LockInv, Holds
  <2>6. SeenInv'
    BY <2>1 DEF SeenInv
  <2>7. StatusInv'
    BY <1>1, <2>1 DEF Chosen, Types, StatusInv, UserActs
  <2>8. LeavingInv'
    BY <1>1, <2>1 DEF Types, LeavingInv, Leaving
  <2>9. StoreInv'
    BY <2>1 DEF Chosen, Types, StoreInv, Calm, UserActs, SeenByRewind
  <2>10. RewindInv'
    BY <2>1 DEF Chosen, RewindInv
  <2>11. habits' = {}
    BY <2>1
  <2> QED
    BY <2>2, <2>3, <2>4, <2>5, <2>6, <2>7, <2>8, <2>9, <2>10, <2>11
<1>2. CASE status \notin InGame
  <2>1. /\ Chosen("toggle", Menus)
        /\ rewindCfg' = ~rewindCfg
        /\ Goto("main", "top")
        /\ UNCHANGED <<job, status, seen, was, owner, sema, rewinder, polling, held, habits, game>>
    BY <1>2 DEF ToggleRewind
  <2>2. Types'
    BY <2>1 DEF Types
  <2>3. PlacesInv'
    BY <2>1 DEF Chosen, PlacesInv
  <2>4. JobInv'
    BY <2>1 DEF JobInv
  <2>5. LockInv'
    BY <2>1 DEF Chosen, LockInv, Holds
  <2>6. SeenInv'
    BY <2>1 DEF SeenInv
  <2>7. StatusInv'
    BY <2>1 DEF Chosen, StatusInv, Leaving
  <2>8. LeavingInv'
    BY <2>1 DEF LeavingInv, Leaving, Calm
  <2>9. StoreInv'
    BY <1>2, <2>1 DEF Chosen, StatusInv, StoreInv, Leaving, UserActs
  <2>10. RewindInv'
    BY <2>1 DEF Chosen, RewindInv
  <2>11. habits' = {}
    BY <2>1
  <2> QED
    BY <2>2, <2>3, <2>4, <2>5, <2>6, <2>7, <2>8, <2>9, <2>10, <2>11
<1> QED
  BY <1>1, <1>2

LEMMA RunKeeps == ASSUME IInv, Run PROVE IInv'
<1> USE DEF IInv
<1>1. CASE status = "REWIND_GAME"
  <2>1. /\ pc["main"] = "run"
        /\ seen' = status
        /\ Goto("main", "wait")
        /\ UNCHANGED <<status, job, was, owner, sema, rewinder, user, game>>
    BY <1>1 DEF Run, RewindInv
  <2>2. Types'
    BY <2>1 DEF Types
  <2>3. PlacesInv'
    BY <1>1, <2>1 DEF PlacesInv, RewindInv
  <2>4. JobInv'
    BY <2>1 DEF JobInv
  <2>5. LockInv'
    BY <2>1 DEF LockInv, Holds
  <2>6. SeenInv'
    BY <1>1, <2>1 DEF PlacesInv, SeenInv, RewindInv
  <2>7. StatusInv'
    BY <2>1 DEF StatusInv, Leaving
  <2>8. LeavingInv'
    BY <2>1 DEF LeavingInv, Leaving
  <2>9. StoreInv'
    BY <2>1 DEF StoreInv
  <2>10. RewindInv'
    BY ThreadsDiffer, <2>1 DEF RewindInv
  <2>11. habits' = {}
    BY <2>1
  <2> QED
    BY <2>2, <2>3, <2>4, <2>5, <2>6, <2>7, <2>8, <2>9, <2>10, <2>11
<1>2. CASE status = "RUN_GAME"
  <2>1. /\ pc["main"] = "run"
        /\ seen' = status
        /\ Goto("main", "lock")
        /\ sema' = (IF rewindCfg THEN 1 ELSE sema)
        /\ UNCHANGED <<status, job, was, owner, rewinder, user, game>>
    BY <1>2 DEF Run
  <2>2. Types'
    BY <2>1 DEF Types
  <2>3. PlacesInv'
    BY <2>1 DEF PlacesInv
  <2>4. JobInv'
    BY <2>1 DEF JobInv
  <2>5. LockInv'
    BY <2>1 DEF LockInv, Holds
  <2>6. SeenInv'
    BY <1>2, <2>1 DEF SeenInv
  <2>7. StatusInv'
    BY <2>1 DEF StatusInv, Leaving
  <2>8. LeavingInv'
    BY <2>1 DEF LeavingInv, Leaving
  <2>9. StoreInv'
    BY <2>1 DEF StoreInv
  <2>10. RewindInv'
    BY <1>2, <2>1 DEF RewindInv
  <2>11. habits' = {}
    BY <2>1
  <2> QED
    BY <2>2, <2>3, <2>4, <2>5, <2>6, <2>7, <2>8, <2>9, <2>10, <2>11
<1>3. CASE status \notin Playing
  <2>1. /\ pc["main"] = "run"
        /\ seen' = status
        /\ Goto("main", "top")
        /\ UNCHANGED <<status, job, was, owner, sema, rewinder, user, game>>
    BY <1>3 DEF Run
  <2>2. Types'
    BY <2>1 DEF Types
  <2>3. PlacesInv'
    BY <2>1 DEF PlacesInv
  <2>4. JobInv'
    BY <2>1 DEF JobInv
  <2>5. LockInv'
    BY <2>1 DEF LockInv, Holds
  <2>6. SeenInv'
    BY <2>1 DEF Types, SeenInv
  <2>7. StatusInv'
    BY <2>1 DEF StatusInv, Leaving
  <2>8. LeavingInv'
    BY <2>1 DEF LeavingInv, Leaving
  <2>9. StoreInv'
    BY <2>1 DEF StoreInv
  <2>10. RewindInv'
    BY <2>1 DEF RewindInv
  <2>11. habits' = {}
    BY <2>1
  <2> QED
    BY <2>2, <2>3, <2>4, <2>5, <2>6, <2>7, <2>8, <2>9, <2>10, <2>11
<1> QED
  BY <1>1, <1>2, <1>3

LEMMA RunFrameKeeps == ASSUME IInv, RunFrame PROVE IInv'
<1> USE DEF IInv
<1>1. unsaved' \in BOOLEAN
  BY DEF RunFrame, Types
<1>2. Types'
  BY ThreadsDiffer, <1>1 DEF Types, RunFrame
<1>3. PlacesInv'
  BY ThreadsDiffer DEF PlacesInv, RunFrame
<1>4. JobInv'
  BY DEF JobInv, RunFrame
<1>5. LockInv'
  BY ThreadsDiffer DEF Types, LockInv, Holds, RunFrame
<1>6. SeenInv'
  BY DEF SeenInv, RunFrame
<1>7. StatusInv'
  BY DEF StatusInv, Leaving, RunFrame
<1>8. LeavingInv'
  BY DEF LeavingInv, Leaving, RunFrame
<1>9. StoreInv'
  BY DEF StoreInv, RunFrame
<1>10. RewindInv'
  BY DEF RewindInv, RunFrame
<1>11. habits' = {}
  BY DEF RunFrame
<1> QED
  BY <1>2, <1>3, <1>4, <1>5, <1>6, <1>7, <1>8, <1>9, <1>10, <1>11

LEMMA LoadRomKeeps == ASSUME IInv, LoadRom PROVE IInv'
<1> USE DEF IInv
<1>1. CASE RebootLoads /\ loadedOnce
  <2>1. /\ Chosen("load", {"SHOW_UI"})
        /\ status' = "REBOOT_WITH_LOADING"
        /\ Goto("main", "top")
        /\ UNCHANGED <<job, seen, was, owner, sema, rewinder, user, game>>
    BY <1>1 DEF LoadRom
  <2>2. Types'
    BY <2>1 DEF Types
  <2>3. PlacesInv'
    BY <2>1 DEF Chosen, PlacesInv
  <2>4. JobInv'
    BY <2>1 DEF JobInv
  <2>5. LockInv'
    BY <2>1 DEF Chosen, LockInv, Holds
  <2>6. SeenInv'
    BY <2>1 DEF Chosen, SeenInv
  <2>7. StatusInv'
    BY <2>1 DEF Chosen, StatusInv, Leaving, UserActs
  <2>8. LeavingInv'
    BY <2>1 DEF Chosen, LeavingInv, Leaving, UserActs
  <2>9. StoreInv'
    BY <2>1 DEF Chosen, StoreInv
  <2>10. RewindInv'
    BY <2>1 DEF Chosen, RewindInv
  <2>11. habits' = {}
    BY <2>1
  <2> QED
    BY <2>2, <2>3, <2>4, <2>5, <2>6, <2>7, <2>8, <2>9, <2>10, <2>11
<1>2. CASE ~(RebootLoads /\ loadedOnce)
  <2>1. /\ Chosen("load", {"SHOW_UI"})
        /\ status' = "BOOT"
        /\ Start("main", "load", "load")
        /\ UNCHANGED <<seen, was, owner, sema, rewinder, user, game>>
    BY <1>2 DEF LoadRom
  <2>2. Types'
    BY <2>1 DEF Types
  <2>3. PlacesInv'
    BY <2>1 DEF Chosen, PlacesInv, UserActs
  <2>4. JobInv'
    BY <2>1 DEF Types, JobInv
  <2>5. LockInv'
    BY <2>1 DEF Chosen, LockInv, Holds
  <2>6. SeenInv'
    BY <2>1 DEF Chosen, SeenInv
  <2>7. StatusInv'
    BY <2>1 DEF Chosen, StatusInv, Leaving, UserActs
  <2>8. LeavingInv'
    BY <2>1 DEF Chosen, LeavingInv, Leaving, UserActs
  <2>9. StoreInv'
    BY <2>1 DEF Chosen, StoreInv
  <2>10. RewindInv'
    BY <2>1 DEF Chosen, RewindInv
  <2>11. habits' = {}
    BY <2>1
  <2> QED
    BY <2>2, <2>3, <2>4, <2>5, <2>6, <2>7, <2>8, <2>9, <2>10, <2>11
<1> QED
  BY <1>1, <1>2

LEMMA LoadGameKeeps == ASSUME IInv, LoadGame PROVE IInv'
<1> USE DEF IInv
<1>1. CASE status' = "RUN_GAME"
  <2>1. /\ pc["main"] = "load"
        /\ loaded' = TRUE
        /\ Goto("main", "loaded")
        /\ UNCHANGED <<job, seen, was, owner, sema, rewinder, user, loadedOnce, frames, unsaved, stale>>
    BY <1>1 DEF LoadGame, StatusInv
  <2>2. Types'
    BY <1>1, <2>1 DEF Types
  <2>3. PlacesInv'
    BY <2>1 DEF PlacesInv
  <2>4. JobInv'
    BY <2>1 DEF JobInv
  <2>5. LockInv'
    BY <2>1 DEF LockInv, Holds
  <2>6. SeenInv'
    BY <2>1 DEF SeenInv
  <2>7. StatusInv'
    BY <1>1, <2>1 DEF Types, PlacesInv, StatusInv, Leaving
  <2>8. LeavingInv'
    BY <2>1 DEF PlacesInv, LeavingInv, Leaving
  <2>9. StoreInv'
    BY <2>1 DEF StoreInv
  <2>10. RewindInv'
    BY <1>1, <2>1 DEF RewindInv
  <2>11. habits' = {}
    BY <2>1
  <2> QED
    BY <2>2, <2>3, <2>4, <2>5, <2>6, <2>7, <2>8, <2>9, <2>10, <2>11
<1>2. CASE status' # "RUN_GAME"
  <2>1. /\ pc["main"] = "load"
        /\ Goto("main", "top")
        /\ UNCHANGED <<loaded, status, job, seen, was, owner, sema, rewinder, user, loadedOnce, frames, unsaved, stale>>
    BY <1>2 DEF LoadGame
  <2>2. Types'
    BY <2>1 DEF Types
  <2>3. PlacesInv'
    BY <2>1 DEF PlacesInv
  <2>4. JobInv'
    BY <2>1 DEF JobInv
  <2>5. LockInv'
    BY <2>1 DEF LockInv, Holds
  <2>6. SeenInv'
    BY <2>1 DEF SeenInv
  <2>7. StatusInv'
    BY <2>1 DEF StatusInv, Leaving
  <2>8. LeavingInv'
    BY <2>1 DEF LeavingInv, Leaving
  <2>9. StoreInv'
    BY <2>1 DEF StoreInv
  <2>10. RewindInv'
    BY <2>1 DEF RewindInv
  <2>11. habits' = {}
    BY <2>1
  <2> QED
    BY <2>2, <2>3, <2>4, <2>5, <2>6, <2>7, <2>8, <2>9, <2>10, <2>11
<1> QED
  BY <1>1, <1>2

LEMMA StartInputKeeps == ASSUME IInv, StartInput PROVE IInv'
<1> USE DEF IInv
<1>1. CASE polling
  <2>1. /\ pc["main"] = "loaded"
        /\ Goto("main", "alone1")
        /\ polling' = TRUE
        /\ unsaved' = FALSE
        /\ UNCHANGED <<status, seen, job, was, owner, sema, rewinder, held, rewindCfg, habits, loaded, loadedOnce, frames, stale>>
    BY <1>1 DEF StartInput
  <2>2. polling' \in BOOLEAN /\ unsaved' \in BOOLEAN
    BY <2>1 DEF Types
  <2>3. Types'
    BY <2>1, <2>2 DEF Types
  <2>4. PlacesInv'
    BY <2>1 DEF PlacesInv
  <2>5. JobInv'
    BY <2>1 DEF JobInv
  <2>6. LockInv'
    BY <2>1 DEF LockInv, Holds
  <2>7. SeenInv'
    BY <2>1 DEF SeenInv
  <2>8. StatusInv'
    BY <2>1 DEF StatusInv
  <2>9. LeavingInv'
    BY <2>1 DEF LeavingInv, Leaving
  <2>10. StoreInv'
    BY <2>1 DEF StoreInv
  <2>11. RewindInv'
    BY <2>1 DEF RewindInv
  <2>12. habits' = {}
    BY <2>1
  <2> QED
    BY <2>3, <2>4, <2>5, <2>6, <2>7, <2>8, <2>9, <2>10, <2>11, <2>12
<1>2. CASE ~polling
  <2>1. /\ pc["main"] = "loaded"
        /\ pc["input"] = "off"
        /\ pc' = [pc EXCEPT !["main"] = "alone1", !["input"] = "idle"]
        /\ polling' = TRUE
        /\ unsaved' = FALSE
        /\ UNCHANGED <<status, seen, job, was, owner, sema, rewinder, held, rewindCfg, habits, loaded, loadedOnce, frames, stale>>
    BY <1>2 DEF StartInput
  <2>2. pc' \in [Threads -> Points] /\ job' \in [Threads -> Jobs]
    BY <2>1 DEF Types
  <2>3. polling' \in BOOLEAN /\ unsaved' \in BOOLEAN
    BY <2>1 DEF Types
  <2>4. Types'
    <3>1. UNCHANGED <<status, seen, was, owner, sema, keep, bufs, held, rewindCfg, loaded, loadedOnce, thread, frames, stale>>
      BY <2>1
    <3> QED
      BY <2>2, <2>3, <3>1 DEF Types
  <2>5. PlacesInv'
    BY ThreadsDiffer, <1>2, <2>1 DEF Types, PlacesInv, JobInv, LockInv, SeenInv, StatusInv,
       LeavingInv, StoreInv, RewindInv, Leaving, Calm, Holds, UserActs, SeenByRewind,
       AtRest, DelayOver
  <2>6. JobInv'
    BY <2>1 DEF Types, JobInv
  <2>7. LockInv'
    BY <2>1 DEF Types, LockInv, Holds
  <2>8. SeenInv'
    BY <2>1 DEF Types, SeenInv
  <2>9. StatusInv'
    BY <2>1 DEF Types, StatusInv
  <2>10. LeavingInv'
    BY <2>1 DEF Types, LeavingInv, Leaving
  <2>11. StoreInv'
    BY <2>1 DEF Types, StoreInv
  <2>12. RewindInv'
    BY <2>1 DEF RewindInv
  <2>13. habits' = {}
    BY <2>1
  <2> QED
    BY <2>4, <2>5, <2>6, <2>7, <2>8, <2>9, <2>10, <2>11, <2>12, <2>13
<1> QED
  BY <1>1, <1>2 DEF Types

LEMMA FirstFrameKeeps == ASSUME IInv, FirstFrame PROVE IInv'
<1> USE DEF IInv
<1>1. unsaved' \in BOOLEAN
  BY DEF FirstFrame, Types
<1>2. Types'
  BY ThreadsDiffer, <1>1 DEF Types, FirstFrame
<1>3. PlacesInv'
  BY DEF PlacesInv, FirstFrame
<1>4. JobInv'
  BY DEF JobInv, FirstFrame
<1>5. LockInv'
  BY DEF JobInv, LockInv, Holds, FirstFrame
<1>6. SeenInv'
  BY DEF SeenInv, FirstFrame
<1>7. StatusInv'
  BY DEF JobInv, StatusInv, FirstFrame
<1>8. LeavingInv'
  BY DEF JobInv, LeavingInv, Leaving, FirstFrame
<1>9. StoreInv'
  BY ThreadsDiffer DEF PlacesInv, StatusInv, StoreInv, Calm, FirstFrame
<1>10. RewindInv'
  BY DEF RewindInv, FirstFrame
<1>11. habits' = {}
  BY DEF FirstFrame
<1> QED
  BY <1>2, <1>3, <1>4, <1>5, <1>6, <1>7, <1>8, <1>9, <1>10, <1>11

LEMMA ExitKeeps == ASSUME IInv, NEW j \in Unloading, Exit(j) PROVE IInv'
<1> USE DEF IInv
<1>1. Types'
  BY DEF Types, Exit, UnloadGame
<1>2. PlacesInv'
  BY DEF PlacesInv, UserActs, Exit, UnloadGame, Chosen
<1>3. JobInv'
  BY DEF Types, JobInv, Exit, UnloadGame
<1>4. LockInv'
  BY DEF LockInv, Holds, Exit, UnloadGame, Chosen
<1>5. SeenInv'
  BY DEF SeenInv, Exit, UnloadGame, Chosen
<1>6. StatusInv'
  BY DEF Types, StatusInv, Leaving, UserActs, Exit, UnloadGame, Chosen
<1>7. LeavingInv'
  BY DEF Types, StatusInv, LeavingInv, Leaving, Calm, UserActs, SeenByRewind, Exit,
     UnloadGame, Chosen
<1>8. StoreInv'
  BY DEF StoreInv, Exit, UnloadGame, Chosen
<1>9. RewindInv'
  BY DEF RewindInv, Exit, UnloadGame, Chosen
<1>10. habits' = {}
  BY DEF Exit, UnloadGame
<1> QED
  BY <1>1, <1>2, <1>3, <1>4, <1>5, <1>6, <1>7, <1>8, <1>9, <1>10

LEMMA WaitedToUnloadKeeps == ASSUME IInv, NEW a \in Actors, WaitedToUnload(a) PROVE IInv'
<1> USE DEF IInv
<1>1. Types'
  BY DEF Types, WaitedToUnload, After
<1>2. PlacesInv'
  BY DEF Types, PlacesInv, WaitedToUnload, After
<1>3. JobInv'
  BY DEF Types, JobInv, WaitedToUnload, After
<1>4. LockInv'
  BY DEF Types, LockInv, Holds, WaitedToUnload, After
<1>5. SeenInv'
  BY DEF Types, LockInv, SeenInv, LeavingInv, Leaving, Holds, AtRest, DelayOver,
     WaitedToUnload, After
<1>6. StatusInv'
  BY DEF Types, StatusInv, LeavingInv, Leaving, WaitedToUnload, After
<1>7. LeavingInv'
  BY DEF Types, PlacesInv, LockInv, LeavingInv, Leaving, Calm, Holds, AtRest, DelayOver,
     WaitedToUnload, After
<1>8. StoreInv'
  BY DEF Types, StoreInv, Calm, WaitedToUnload, After
<1>9. RewindInv'
  BY DEF RewindInv, WaitedToUnload, After
<1>10. habits' = {}
  BY DEF WaitedToUnload
<1> QED
  BY <1>1, <1>2, <1>3, <1>4, <1>5, <1>6, <1>7, <1>8, <1>9, <1>10

LEMMA LockToUnloadKeeps == ASSUME IInv, NEW a \in Actors, LockToUnload(a) PROVE IInv'
<1> USE DEF IInv
<1>1. Types'
  BY DEF Types, LockToUnload
<1>2. PlacesInv'
  BY DEF PlacesInv, LockToUnload
<1>3. JobInv'
  BY DEF JobInv, LockToUnload
<1>4. LockInv'
  BY DEF Types, JobInv, LockInv, LeavingInv, Leaving, Calm, Holds, LockToUnload
<1>5. SeenInv'
  BY DEF SeenInv, LockToUnload
<1>6. StatusInv'
  BY DEF JobInv, StatusInv, Leaving, Calm, LockToUnload
<1>7. LeavingInv'
  BY DEF LeavingInv, Leaving, Calm, LockToUnload
<1>8. StoreInv'
  BY DEF LeavingInv, StoreInv, Leaving, Calm, LockToUnload
<1>9. RewindInv'
  BY DEF RewindInv, LockToUnload
<1>10. habits' = {}
  BY DEF LockToUnload
<1> QED
  BY <1>1, <1>2, <1>3, <1>4, <1>5, <1>6, <1>7, <1>8, <1>9, <1>10

LEMMA UnloadKeeps == ASSUME IInv, NEW a \in Actors, Unload(a) PROVE IInv'
<1> USE DEF IInv
<1>1. polling' \in BOOLEAN
  BY DEF Unload, After, Types
<1>2. Types'
  BY <1>1 DEF Types, Unload, After
<1>3. PlacesInv'
  BY DEF PlacesInv, Unload, After
<1>4. JobInv'
  BY DEF JobInv, Unload, After
<1>5. LockInv'
  BY ThreadsDiffer DEF Types, LockInv, Holds, AtRest, DelayOver, Unload, After
<1>6. SeenInv'
  BY DEF SeenInv, LeavingInv, Leaving, Unload, After
<1>7. StatusInv'
  BY DEF StatusInv, LeavingInv, StoreInv, Leaving, Unload, After
<1>8. LeavingInv'
  BY DEF Types, PlacesInv, LeavingInv, Leaving, Unload, After
<1>9. StoreInv'
  BY DEF StoreInv, Calm, Unload, After
<1>10. RewindInv'
  BY DEF RewindInv, Unload, After
<1>11. habits' = {}
  BY DEF Unload
<1> QED
  BY <1>2, <1>3, <1>4, <1>5, <1>6, <1>7, <1>8, <1>9, <1>10, <1>11

LEMMA StopKeeps == ASSUME IInv, NEW a \in Actors, Stop(a) PROVE IInv'
<1> USE DEF IInv
<1>1. CASE thread = "none"
  <2>1. /\ pc[a] = "stop"
        /\ bufs' = FALSE
        /\ Goto(a, NextJob(a))
        /\ UNCHANGED <<keep, sema, status, seen, job, was, owner, thread, user, game>>
    BY <1>1 DEF Stop
  <2>2. keep' \in BOOLEAN /\ bufs' \in BOOLEAN
    BY <2>1 DEF Types
  <2>3. Types'
    BY <2>1, <2>2 DEF NextJob, Types
  <2>4. PlacesInv'
    BY <2>1 DEF NextJob, PlacesInv, JobInv
  <2>5. JobInv'
    BY <2>1 DEF NextJob, JobInv
  <2>6. LockInv'
    BY <2>1 DEF NextJob, LockInv, Holds
  <2>7. SeenInv'
    BY <2>1 DEF NextJob, SeenInv
  <2>8. StatusInv'
    BY <2>1 DEF NextJob, PlacesInv, StatusInv, Leaving
  <2>9. LeavingInv'
    BY <2>1 DEF NextJob, LeavingInv, Leaving, Calm
  <2>10. StoreInv'
    BY <1>1, <2>1 DEF NextJob, StoreInv, Calm
  <2>11. RewindInv'
    BY <2>1 DEF RewindInv
  <2>12. habits' = {}
    BY <2>1
  <2> QED
    BY <2>3, <2>4, <2>5, <2>6, <2>7, <2>8, <2>9, <2>10, <2>11, <2>12
<1>2. CASE thread # "none"
  <2>1. /\ pc[a] = "stop"
        /\ keep' = FALSE
        /\ sema' = 1
        /\ Goto(a, "stopping")
        /\ UNCHANGED <<bufs, status, seen, job, was, owner, thread, user, game>>
    BY <1>2 DEF Stop
  <2>2. keep' \in BOOLEAN /\ bufs' \in BOOLEAN
    BY <2>1 DEF Types
  <2>3. Types'
    BY <2>1, <2>2 DEF Types
  <2>4. PlacesInv'
    BY <2>1 DEF PlacesInv
  <2>5. JobInv'
    BY <2>1 DEF JobInv
  <2>6. LockInv'
    BY <2>1 DEF LockInv, Holds
  <2>7. SeenInv'
    BY <2>1 DEF SeenInv
  <2>8. StatusInv'
    BY <2>1 DEF PlacesInv, StatusInv, Leaving
  <2>9. LeavingInv'
    BY <2>1 DEF Types, JobInv, LeavingInv, Leaving
  <2>10. StoreInv'
    BY <1>2, <2>1 DEF Types, JobInv, LeavingInv, StoreInv, Leaving, Calm
  <2>11. RewindInv'
    BY <2>1 DEF RewindInv
  <2>12. habits' = {}
    BY <2>1
  <2> QED
    BY <2>3, <2>4, <2>5, <2>6, <2>7, <2>8, <2>9, <2>10, <2>11, <2>12
<1> QED
  BY <1>1, <1>2

LEMMA StoppedKeeps == ASSUME IInv, NEW a \in Actors, Stopped(a) PROVE IInv'
<1> USE DEF IInv
<1>1. thread # "none" /\ \A r \in RewindThreads : pc[r] \in {"off", "loop"} \/ (pc[r] = "wait" /\ sema = 1)
  BY DEF StoreInv, Stopped
<1>2. \A r \in RewindThreads : AtRest(r)
  BY ThreadsDiffer DEF Stopped, DelayOver
<1>3. \A r \in RewindThreads : pc[r] = "off"
  <2>1. SUFFICES ASSUME NEW r \in RewindThreads PROVE pc[r] = "off"
    OBVIOUS
  <2>2. AtRest(r)
    BY <1>2
  <2> QED
    BY <1>1, <2>2 DEF AtRest
<1>4. bufs' \in BOOLEAN
  BY DEF Stopped, NextJob, Types
<1>5. Types'
  BY <1>4 DEF Types, Stopped, NextJob
<1>6. PlacesInv'
  BY <1>3 DEF PlacesInv, JobInv, Stopped, NextJob
<1>7. JobInv'
  BY DEF JobInv, Stopped, NextJob
<1>8. LockInv'
  BY DEF LockInv, Holds, Stopped, NextJob
<1>9. SeenInv'
  BY DEF SeenInv, Stopped, NextJob
<1>10. StatusInv'
  BY DEF PlacesInv, StatusInv, Leaving, Stopped, NextJob
<1>11. LeavingInv'
  BY <1>3 DEF LeavingInv, Leaving, Calm, Stopped, NextJob
<1>12. StoreInv'
  BY DEF Types, JobInv, LeavingInv, StoreInv, Leaving, Stopped, NextJob
<1>13. RewindInv'
  BY DEF RewindInv, Stopped
<1>14. habits' = {}
  BY DEF Stopped
<1> QED
  BY <1>5, <1>6, <1>7, <1>8, <1>9, <1>10, <1>11, <1>12, <1>13, <1>14

LEMMA CreateKeeps == ASSUME IInv, NEW a \in Actors, Create(a) PROVE IInv'
<1> USE DEF IInv
<1>1. a = "main" /\ thread = "none" /\ \A r \in RewindThreads : pc[r] = "off"
  BY ThreadsDiffer DEF PlacesInv, StoreInv, Create
<1>2. PICK r \in RewindThreads : thread' = r /\ pc' = [pc EXCEPT ![a] = "top", ![r] = "warm"]
  BY DEF Types, LeavingInv, StoreInv, Calm, Create
<1>3. Types'
  BY <1>1 DEF Types, Create
<1>4. PlacesInv'
  BY ThreadsDiffer, <1>1 DEF Types, PlacesInv, Create
<1>5. JobInv'
  BY DEF Types, JobInv, Create
<1>6. LockInv'
  BY DEF Types, LockInv, Holds, Create
<1>7. SeenInv'
  BY <1>1 DEF Types, SeenInv, Create
<1>8. StatusInv'
  BY <1>1 DEF Types, StatusInv, Leaving, Create
<1>9. LeavingInv'
  BY DEF Types, PlacesInv, LeavingInv, Leaving, Create
<1>10. StoreInv'
  <2>1. thread' # "none" /\ bufs' /\ keep'
    BY ThreadsDiffer DEF Create
  <2>2. rewindCfg'
    BY <1>1 DEF Create, StoreInv
  <2>3. pc'["main"] = "top" /\ pc'["input"] = pc["input"]
    BY ThreadsDiffer, <1>1, <1>2 DEF Types
  <2>4. pc["input"] \notin {"unload", "stopping"}
    BY DEF Create, PlacesInv
  <2> QED
    BY <2>1, <2>2, <2>3, <2>4 DEF StoreInv
<1>11. RewindInv'
  BY DEF RewindInv, Create
<1>12. habits' = {}
  BY DEF Create
<1> QED
  BY <1>3, <1>4, <1>5, <1>6, <1>7, <1>8, <1>9, <1>10, <1>11, <1>12

LEMMA WarmedKeeps == ASSUME IInv, NEW r \in RewindThreads, Warmed(r) PROVE IInv'
<1> USE DEF IInv
<1>1. Types'
  BY DEF Types, Warmed
<1>2. PlacesInv'
  BY DEF PlacesInv, Warmed
<1>3. JobInv'
  BY DEF JobInv, Warmed
<1>4. LockInv'
  BY DEF LockInv, Holds, Warmed
<1>5. SeenInv'
  BY ThreadsDiffer DEF SeenInv, Warmed
<1>6. StatusInv'
  BY DEF PlacesInv, StatusInv, Leaving, Calm, Warmed
<1>7. LeavingInv'
  BY DEF LeavingInv, Leaving, Warmed
<1>8. StoreInv'
  BY DEF StoreInv, Calm, Warmed
<1>9. RewindInv'
  BY DEF RewindInv, Warmed
<1>10. habits' = {}
  BY DEF Warmed
<1> QED
  BY <1>1, <1>2, <1>3, <1>4, <1>5, <1>6, <1>7, <1>8, <1>9, <1>10

LEMMA ServeKeeps == ASSUME IInv, NEW r \in RewindThreads, Serve(r) PROVE IInv'
<1> USE DEF IInv
<1>1. CASE ~keep
  <2>1. /\ pc[r] = "loop"
        /\ Goto(r, "off")
        /\ UNCHANGED job
        /\ UNCHANGED <<status, seen, was, owner, sema, rewinder, user, game>>
    BY <1>1 DEF Serve
  <2>2. Types'
    BY <2>1 DEF Types
  <2>3. PlacesInv'
    BY <2>1 DEF PlacesInv
  <2>4. JobInv'
    BY <2>1 DEF JobInv
  <2>5. LockInv'
    BY <2>1 DEF LockInv, Holds
  <2>6. SeenInv'
    BY <2>1 DEF SeenInv
  <2>7. StatusInv'
    BY <2>1 DEF StatusInv, Leaving, Calm
  <2>8. LeavingInv'
    BY <2>1 DEF LeavingInv, Leaving, Calm
  <2>9. StoreInv'
    BY <2>1 DEF StoreInv, Calm
  <2>10. RewindInv'
    BY <2>1 DEF RewindInv
  <2>11. habits' = {}
    BY <2>1
  <2> QED
    BY <2>2, <2>3, <2>4, <2>5, <2>6, <2>7, <2>8, <2>9, <2>10, <2>11
<1>2. CASE keep /\ status = "REWIND_GAME"
  <2>1. /\ pc[r] = "loop"
        /\ Start(r, "rewind", "rewind")
        /\ UNCHANGED <<status, seen, was, owner, sema, rewinder, user, game>>
    BY <1>2 DEF Serve
  <2>2. Types'
    BY <2>1 DEF Types
  <2>3. PlacesInv'
    BY <2>1 DEF PlacesInv
  <2>4. JobInv'
    BY <2>1 DEF JobInv
  <2>5. LockInv'
    BY <2>1 DEF LockInv, Holds
  <2>6. SeenInv'
    BY <2>1 DEF SeenInv
  <2>7. StatusInv'
    BY <1>2, <2>1 DEF StatusInv, Leaving
  <2>8. LeavingInv'
    BY <2>1 DEF LeavingInv, Leaving, Calm
  <2>9. StoreInv'
    BY <1>2, <2>1 DEF StoreInv, Calm
  <2>10. RewindInv'
    BY <2>1 DEF RewindInv
  <2>11. habits' = {}
    BY <2>1
  <2> QED
    BY <2>2, <2>3, <2>4, <2>5, <2>6, <2>7, <2>8, <2>9, <2>10, <2>11
<1>3. CASE keep /\ status = "RUN_GAME"
  <2>1. /\ pc[r] = "loop"
        /\ Start(r, "save", "lock")
        /\ UNCHANGED <<status, seen, was, owner, sema, rewinder, user, game>>
    BY <1>3 DEF Serve
  <2>2. Types'
    BY <2>1 DEF Types
  <2>3. PlacesInv'
    BY <2>1 DEF PlacesInv
  <2>4. JobInv'
    BY <2>1 DEF JobInv
  <2>5. LockInv'
    BY <2>1 DEF LockInv, Holds
  <2>6. SeenInv'
    BY ThreadsDiffer, <2>1 DEF SeenInv
  <2>7. StatusInv'
    BY <1>3, <2>1 DEF StatusInv, Leaving
  <2>8. LeavingInv'
    BY <2>1 DEF LeavingInv, Leaving, Calm
  <2>9. StoreInv'
    BY <1>3, <2>1 DEF StoreInv, Calm
  <2>10. RewindInv'
    BY <2>1 DEF RewindInv
  <2>11. habits' = {}
    BY <2>1
  <2> QED
    BY <2>2, <2>3, <2>4, <2>5, <2>6, <2>7, <2>8, <2>9, <2>10, <2>11
<1>4. CASE keep /\ status \notin Playing
  <2>1. /\ pc[r] = "loop"
        /\ Goto(r, "wait")
        /\ UNCHANGED job
        /\ UNCHANGED <<status, seen, was, owner, sema, rewinder, user, game>>
    BY <1>4 DEF Serve
  <2>2. Types'
    BY <2>1 DEF Types
  <2>3. PlacesInv'
    BY <2>1 DEF PlacesInv
  <2>4. JobInv'
    BY <2>1 DEF JobInv
  <2>5. LockInv'
    BY <2>1 DEF LockInv, Holds
  <2>6. SeenInv'
    BY ThreadsDiffer, <1>4, <2>1 DEF SeenInv
  <2>7. StatusInv'
    BY <2>1 DEF StatusInv, Leaving, Calm
  <2>8. LeavingInv'
    BY <2>1 DEF LeavingInv, Leaving, Calm
  <2>9. StoreInv'
    BY <1>4, <2>1 DEF StoreInv, Calm
  <2>10. RewindInv'
    BY <1>4, <2>1 DEF RewindInv
  <2>11. habits' = {}
    BY <2>1
  <2> QED
    BY <2>2, <2>3, <2>4, <2>5, <2>6, <2>7, <2>8, <2>9, <2>10, <2>11
<1> QED
  BY <1>1, <1>2, <1>3, <1>4

LEMMA RewindKeeps == ASSUME IInv, NEW r \in RewindThreads, Rewind(r) PROVE IInv'
<1> USE DEF IInv
<1>1. PICK p \in {"lock", "signal"} : Goto(r, p)
  BY DEF Rewind
<1>2. pc' \in [Threads -> Points] /\ job' \in [Threads -> Jobs]
  BY <1>1 DEF Rewind, Types
<1>3. Types'
  BY <1>2 DEF Types, Rewind
<1>4. PlacesInv'
  BY <1>1 DEF PlacesInv, Rewind
<1>5. JobInv'
  BY <1>1 DEF JobInv, Rewind
<1>6. LockInv'
  BY <1>1 DEF LockInv, Holds, Rewind
<1>7. SeenInv'
  BY ThreadsDiffer, <1>1 DEF SeenInv, Rewind
<1>8. StatusInv'
  BY DEF Types, PlacesInv, StatusInv, Leaving, Calm, Rewind
<1>9. LeavingInv'
  BY <1>1 DEF LeavingInv, Leaving, Calm, Rewind
<1>10. StoreInv'
  BY <1>1 DEF StoreInv, Calm, Rewind
<1>11. RewindInv'
  BY <1>1 DEF RewindInv, Rewind
<1>12. habits' = {}
  BY DEF Rewind
<1> QED
  BY <1>3, <1>4, <1>5, <1>6, <1>7, <1>8, <1>9, <1>10, <1>11, <1>12

LEMMA CoreDoneKeeps == ASSUME IInv, NEW r \in RewindThreads, CoreDone(r) PROVE IInv'
<1> USE DEF IInv
<1>1. PICK p \in {"loop", "compare", "signal"} : Goto(r, p)
  BY DEF CoreDone
<1>2. pc' \in [Threads -> Points] /\ job' \in [Threads -> Jobs]
  BY <1>1 DEF CoreDone, Types
<1>3. Types'
  BY <1>2 DEF Types, CoreDone
<1>4. PlacesInv'
  BY ThreadsDiffer, <1>1 DEF PlacesInv, CoreDone
<1>5. JobInv'
  BY <1>1 DEF JobInv, CoreDone
<1>6. LockInv'
  <2>1. SUFFICES ASSUME NEW t \in Threads PROVE (owner = t <=> Holds(t))'
    BY DEF LockInv
  <2>2. owner = r /\ r # "none"
    BY ThreadsDiffer DEF CoreDone, LockInv, Holds
  <2>3. CASE t = r
    BY <2>2, <2>3 DEF CoreDone, Holds, Types
  <2>4. CASE t # r
    BY ThreadsDiffer, <2>2 DEF CoreDone, LockInv, Holds, Types
  <2> QED
    BY <2>3, <2>4
<1>7. SeenInv'
  BY <1>1 DEF SeenInv, CoreDone
<1>8. StatusInv'
  BY DEF Types, StatusInv, Leaving, Calm, CoreDone
<1>9. LeavingInv'
  BY <1>1 DEF LeavingInv, Leaving, Calm, CoreDone
<1>10. StoreInv'
  BY <1>1 DEF StoreInv, Calm, CoreDone
<1>11. RewindInv'
  BY ThreadsDiffer, <1>1 DEF RewindInv, CoreDone
<1>12. habits' = {}
  BY DEF CoreDone
<1> QED
  BY <1>3, <1>4, <1>5, <1>6, <1>7, <1>8, <1>9, <1>10, <1>11, <1>12

LEMMA CompareKeeps == ASSUME IInv, NEW r \in RewindThreads, Compare(r) PROVE IInv'
<1> USE DEF IInv
<1>1. Types'
  BY DEF Types, Compare
<1>2. PlacesInv'
  BY DEF PlacesInv, Compare
<1>3. JobInv'
  BY DEF JobInv, Compare
<1>4. LockInv'
  BY DEF LockInv, Holds, Compare
<1>5. SeenInv'
  BY DEF SeenInv, Compare
<1>6. StatusInv'
  BY DEF StatusInv, Leaving, Calm, Compare
<1>7. LeavingInv'
  BY DEF LeavingInv, Leaving, Calm, Compare
<1>8. StoreInv'
  BY DEF StoreInv, Calm, Compare
<1>9. RewindInv'
  BY DEF RewindInv, Compare
<1>10. habits' = {}
  BY DEF Compare
<1> QED
  BY <1>1, <1>2, <1>3, <1>4, <1>5, <1>6, <1>7, <1>8, <1>9, <1>10

LEMMA SignalMainKeeps == ASSUME IInv, NEW r \in RewindThreads, SignalMain(r) PROVE IInv'
<1> USE DEF IInv
<1>1. Types'
  BY ThreadsDiffer DEF Types, SignalMain
<1>2. PlacesInv'
  BY DEF PlacesInv, SignalMain
<1>3. JobInv'
  BY DEF JobInv, SignalMain
<1>4. LockInv'
  BY DEF LockInv, Holds, SignalMain
<1>5. SeenInv'
  BY DEF SeenInv, SignalMain
<1>6. StatusInv'
  BY DEF StatusInv, Leaving, Calm, SignalMain
<1>7. LeavingInv'
  BY DEF LeavingInv, Leaving, Calm, SignalMain
<1>8. StoreInv'
  BY DEF StoreInv, Calm, SignalMain
<1>9. RewindInv'
  BY DEF RewindInv, SignalMain
<1>10. habits' = {}
  BY DEF SignalMain
<1> QED
  BY <1>1, <1>2, <1>3, <1>4, <1>5, <1>6, <1>7, <1>8, <1>9, <1>10

LEMMA TakeTokenKeeps == ASSUME IInv, NEW r \in RewindThreads, TakeToken(r) PROVE IInv'
<1> USE DEF IInv
<1>1. Types'
  BY ThreadsDiffer DEF Types, TakeToken
<1>2. PlacesInv'
  BY DEF PlacesInv, TakeToken
<1>3. JobInv'
  BY DEF JobInv, TakeToken
<1>4. LockInv'
  BY DEF LockInv, Holds, TakeToken
<1>5. SeenInv'
  BY DEF SeenInv, TakeToken
<1>6. StatusInv'
  BY DEF StatusInv, Leaving, Calm, TakeToken
<1>7. LeavingInv'
  BY DEF LeavingInv, Leaving, Calm, TakeToken
<1>8. StoreInv'
  BY DEF Types, PlacesInv, StoreInv, Calm, TakeToken
<1>9. RewindInv'
  BY DEF RewindInv, TakeToken
<1>10. habits' = {}
  BY DEF TakeToken
<1> QED
  BY <1>1, <1>2, <1>3, <1>4, <1>5, <1>6, <1>7, <1>8, <1>9, <1>10

LEMMA MainTakesTokenKeeps == ASSUME IInv, TakeToken("main") PROVE IInv'
<1> USE DEF IInv
<1>1. Types'
  BY ThreadsDiffer DEF Types, TakeToken
<1>2. PlacesInv'
  BY DEF PlacesInv, TakeToken
<1>3. JobInv'
  BY DEF JobInv, TakeToken
<1>4. LockInv'
  BY DEF LockInv, Holds, TakeToken
<1>5. SeenInv'
  BY DEF Types, SeenInv, TakeToken
<1>6. StatusInv'
  BY DEF StatusInv, Leaving, TakeToken
<1>7. LeavingInv'
  BY DEF LeavingInv, Leaving, TakeToken
<1>8. StoreInv'
  BY DEF JobInv, LeavingInv, StoreInv, Leaving, TakeToken
<1>9. RewindInv'
  BY DEF RewindInv, TakeToken
<1>10. habits' = {}
  BY DEF TakeToken
<1> QED
  BY <1>1, <1>2, <1>3, <1>4, <1>5, <1>6, <1>7, <1>8, <1>9, <1>10

LEMMA LockKeeps == ASSUME IInv, NEW t \in Threads, Lock(t) PROVE IInv'
<1> USE DEF IInv
<1>1. Types'
  BY DEF Types, Lock
<1>2. PlacesInv'
  BY DEF PlacesInv, Lock
<1>3. JobInv'
  BY DEF JobInv, Lock
<1>4. LockInv'
  BY ThreadsDiffer DEF Types, LockInv, Holds, Lock
<1>5. SeenInv'
  BY DEF SeenInv, Lock
<1>6. StatusInv'
  BY DEF StatusInv, Leaving, Calm, Lock
<1>7. LeavingInv'
  BY DEF LeavingInv, Leaving, Calm, Lock
<1>8. StoreInv'
  BY DEF StoreInv, Calm, Lock
<1>9. RewindInv'
  BY DEF RewindInv, Lock
<1>10. habits' = {}
  BY DEF Lock
<1> QED
  BY <1>1, <1>2, <1>3, <1>4, <1>5, <1>6, <1>7, <1>8, <1>9, <1>10

LEMMA MenuKeyKeeps == ASSUME IInv, MenuKey PROVE IInv'
<1> USE DEF IInv
<1>1. Types'
  BY DEF Types, MenuKey
<1>2. PlacesInv'
  BY DEF PlacesInv, SeenInv, RewindInv, UserActs, MenuKey, Pressed
<1>3. JobInv'
  BY DEF JobInv, MenuKey, Pressed
<1>4. LockInv'
  BY DEF LockInv, Holds, MenuKey, Pressed
<1>5. SeenInv'
  BY DEF SeenInv, RewindInv, UserActs, MenuKey, Pressed
<1>6. StatusInv'
  BY DEF StatusInv, UserActs, MenuKey, Pressed
<1>7. LeavingInv'
  BY DEF LeavingInv, Leaving, MenuKey
<1>8. StoreInv'
  BY DEF StoreInv, Calm, MenuKey, Pressed
<1>9. RewindInv'
  BY DEF RewindInv, UserActs, MenuKey, Pressed
<1>10. habits' = {}
  BY DEF MenuKey
<1> QED
  BY <1>1, <1>2, <1>3, <1>4, <1>5, <1>6, <1>7, <1>8, <1>9, <1>10

LEMMA SaveRamKeeps == ASSUME IInv, SaveRam PROVE IInv'
<1> USE DEF IInv
<1>1. unsaved' \in BOOLEAN
  BY DEF SaveRam, Types
<1>2. Types'
  BY <1>1 DEF Types, SaveRam
<1>3. PlacesInv'
  BY DEF PlacesInv, SaveRam
<1>4. JobInv'
  BY DEF JobInv, SaveRam
<1>5. LockInv'
  BY DEF LockInv, Holds, SaveRam
<1>6. SeenInv'
  BY DEF SeenInv, SaveRam
<1>7. StatusInv'
  BY DEF PlacesInv, StatusInv, SaveRam
<1>8. LeavingInv'
  BY DEF LeavingInv, Leaving, Calm, SaveRam
<1>9. StoreInv'
  BY DEF StoreInv, Calm, SaveRam
<1>10. RewindInv'
  BY DEF RewindInv, SaveRam
<1>11. habits' = {}
  BY DEF SaveRam
<1> QED
  BY <1>2, <1>3, <1>4, <1>5, <1>6, <1>7, <1>8, <1>9, <1>10, <1>11

LEMMA AutoSavedKeeps == ASSUME IInv, AutoSaved PROVE IInv'
<1> USE DEF IInv
<1>1. Types'
  BY DEF Types, AutoSaved
<1>2. PlacesInv'
  BY DEF PlacesInv, AutoSaved
<1>3. JobInv'
  BY DEF JobInv, AutoSaved
<1>4. LockInv'
  BY DEF LockInv, Holds, AutoSaved
<1>5. SeenInv'
  BY DEF SeenInv, AutoSaved
<1>6. StatusInv'
  BY DEF PlacesInv, StatusInv, AutoSaved
<1>7. LeavingInv'
  BY DEF LeavingInv, Leaving, Calm, AutoSaved
<1>8. StoreInv'
  BY DEF StoreInv, Calm, AutoSaved
<1>9. RewindInv'
  BY DEF RewindInv, AutoSaved
<1>10. habits' = {}
  BY DEF AutoSaved
<1> QED
  BY <1>1, <1>2, <1>3, <1>4, <1>5, <1>6, <1>7, <1>8, <1>9, <1>10

LEMMA StateKeyKeeps == ASSUME IInv, StateKey PROVE IInv'
<1> USE DEF IInv
<1>1. Types'
  BY DEF Types, StateKey
<1>2. PlacesInv'
  BY DEF PlacesInv, SeenInv, RewindInv, UserActs, StateKey, Pressed
<1>3. JobInv'
  BY DEF JobInv, StateKey, Pressed
<1>4. LockInv'
  BY DEF LockInv, Holds, StateKey, Pressed
<1>5. SeenInv'
  BY DEF SeenInv, StateKey, Pressed
<1>6. StatusInv'
  BY DEF StatusInv, RewindInv, Leaving, UserActs, StateKey, Pressed
<1>7. LeavingInv'
  BY DEF LeavingInv, Leaving, Calm, StateKey, Pressed
<1>8. StoreInv'
  BY DEF StoreInv, Calm, StateKey, Pressed
<1>9. RewindInv'
  BY DEF RewindInv, UserActs, StateKey, Pressed
<1>10. habits' = {}
  BY DEF StateKey
<1> QED
  BY <1>1, <1>2, <1>3, <1>4, <1>5, <1>6, <1>7, <1>8, <1>9, <1>10

LEMMA StateKeyDoneKeeps == ASSUME IInv, StateKeyDone PROVE IInv'
<1> USE DEF IInv
<1>1. unsaved' \in BOOLEAN
  BY DEF StateKeyDone, Types
<1>2. Types'
  BY <1>1 DEF Types, StateKeyDone
<1>3. PlacesInv'
  BY ThreadsDiffer DEF PlacesInv, StateKeyDone
<1>4. JobInv'
  BY DEF JobInv, StateKeyDone
<1>5. LockInv'
  BY ThreadsDiffer DEF Types, LockInv, Holds, StateKeyDone
<1>6. SeenInv'
  BY DEF SeenInv, StateKeyDone
<1>7. StatusInv'
  BY DEF PlacesInv, StatusInv, StateKeyDone
<1>8. LeavingInv'
  BY DEF LeavingInv, Leaving, Calm, StateKeyDone
<1>9. StoreInv'
  BY DEF StoreInv, Calm, StateKeyDone
<1>10. RewindInv'
  BY DEF RewindInv, StateKeyDone
<1>11. habits' = {}
  BY DEF StateKeyDone
<1> QED
  BY <1>2, <1>3, <1>4, <1>5, <1>6, <1>7, <1>8, <1>9, <1>10, <1>11

LEMMA RewindKeyKeeps == ASSUME IInv, RewindKey PROVE IInv'
<1> USE DEF IInv
<1>1. Types'
  BY ThreadsDiffer DEF Types, RewindKey
<1>2. PlacesInv'
  BY DEF PlacesInv, RewindKey
<1>3. JobInv'
  BY DEF JobInv, RewindKey
<1>4. LockInv'
  BY DEF LockInv, Holds, RewindKey
<1>5. SeenInv'
  BY DEF SeenInv, RewindKey
<1>6. StatusInv'
  BY DEF StatusInv, UserActs, RewindKey, Pressed
<1>7. LeavingInv'
  BY DEF LeavingInv, Leaving, RewindKey
<1>8. StoreInv'
  BY DEF StoreInv, Calm, RewindKey
<1>9. RewindInv'
  BY DEF Types, SeenInv, RewindInv, UserActs, SeenByRewind, RewindKey, Pressed
<1>10. habits' = {}
  BY DEF RewindKey
<1> QED
  BY <1>1, <1>2, <1>3, <1>4, <1>5, <1>6, <1>7, <1>8, <1>9, <1>10

LEMMA RewindKeyUpKeeps == ASSUME IInv, RewindKeyUp PROVE IInv'
<1> USE DEF IInv
<1>1. held' \in BOOLEAN
  BY DEF RewindKeyUp, Types
<1>2. Types'
  BY <1>1 DEF Types, RewindKeyUp
<1>3. PlacesInv'
  BY DEF PlacesInv, RewindKeyUp
<1>4. JobInv'
  BY DEF JobInv, RewindKeyUp
<1>5. LockInv'
  BY DEF LockInv, Holds, RewindKeyUp
<1>6. SeenInv'
  BY DEF SeenInv, RewindInv, RewindKeyUp
<1>7. StatusInv'
  BY DEF StatusInv, RewindInv, RewindKeyUp
<1>8. LeavingInv'
  BY DEF LeavingInv, RewindInv, Leaving, RewindKeyUp
<1>9. StoreInv'
  BY DEF StoreInv, RewindInv, RewindKeyUp
<1>10. RewindInv'
  BY DEF RewindInv, RewindKeyUp
<1>11. habits' = {}
  BY DEF RewindKeyUp
<1> QED
  BY <1>2, <1>3, <1>4, <1>5, <1>6, <1>7, <1>8, <1>9, <1>10, <1>11

LEMMA ExitKeyKeeps == ASSUME IInv, ExitKey PROVE IInv'
<1> USE DEF IInv
<1>1. Types'
  BY DEF Types, ExitKey, UnloadGame
<1>2. PlacesInv'
  BY DEF PlacesInv, SeenInv, RewindInv, UserActs, ExitKey, UnloadGame, Pressed
<1>3. JobInv'
  BY DEF Types, JobInv, ExitKey, UnloadGame
<1>4. LockInv'
  BY DEF LockInv, Holds, ExitKey, UnloadGame, Pressed
<1>5. SeenInv'
  BY DEF Types, SeenInv, StatusInv, RewindInv, Leaving, UserActs, ExitKey, UnloadGame,
     Pressed
<1>6. StatusInv'
  BY DEF Types, StatusInv, RewindInv, Leaving, UserActs, ExitKey, UnloadGame, Pressed
<1>7. LeavingInv'
  BY DEF Types, StatusInv, LeavingInv, RewindInv, Leaving, UserActs, SeenByRewind, ExitKey,
     UnloadGame, Pressed
<1>8. StoreInv'
  BY DEF StoreInv, Calm, ExitKey, UnloadGame, Pressed
<1>9. RewindInv'
  BY DEF RewindInv, UserActs, ExitKey, UnloadGame, Pressed
<1>10. habits' = {}
  BY DEF ExitKey, UnloadGame
<1> QED
  BY <1>1, <1>2, <1>3, <1>4, <1>5, <1>6, <1>7, <1>8, <1>9, <1>10

LEMMA StopPollingKeeps == ASSUME IInv, StopPolling PROVE IInv'
<1> USE DEF IInv
<1>1. held' \in BOOLEAN
  BY DEF StopPolling, Types
<1>2. Types'
  BY <1>1 DEF Types, StopPolling
<1>3. PlacesInv'
  BY DEF PlacesInv, StopPolling
<1>4. JobInv'
  BY DEF JobInv, StopPolling
<1>5. LockInv'
  BY DEF LockInv, Holds, StopPolling
<1>6. SeenInv'
  BY DEF SeenInv, StopPolling
<1>7. StatusInv'
  BY DEF StatusInv, Leaving, Calm, StopPolling
<1>8. LeavingInv'
  BY DEF LeavingInv, Leaving, Calm, StopPolling
<1>9. StoreInv'
  BY DEF StoreInv, Calm, StopPolling
<1>10. RewindInv'
  BY DEF RewindInv, StopPolling
<1>11. habits' = {}
  BY DEF StopPolling
<1> QED
  BY <1>2, <1>3, <1>4, <1>5, <1>6, <1>7, <1>8, <1>9, <1>10, <1>11

-----------------------------------------------------------------------------
(* The invariant holds, and the properties follow from it.                 *)

LEMMA InitIInv == ASSUME Init, habits = {} PROVE IInv
<1> USE DEF Init
<1>1. Types
  <2>1. pc \in [Threads -> Points] /\ job \in [Threads -> Jobs] /\ was \in [Actors -> Status]
    OBVIOUS
  <2>2. frames \in 0 .. WarmFrames /\ stale \in 0 .. MaxStale
    BY ThreadsDiffer
  <2> QED
    BY <2>1, <2>2 DEF Types
<1>2. PlacesInv
  BY ThreadsDiffer DEF PlacesInv
<1>3. JobInv
  BY DEF JobInv
<1>4. LockInv
  BY ThreadsDiffer DEF LockInv, Holds
<1>5. SeenInv
  BY DEF SeenInv
<1>6. StatusInv
  BY DEF StatusInv, Leaving
<1>7. LeavingInv
  BY DEF LeavingInv, Leaving
<1>8. StoreInv
  BY DEF StoreInv
<1>9. RewindInv
  BY DEF RewindInv
<1> QED
  BY <1>1, <1>2, <1>3, <1>4, <1>5, <1>6, <1>7, <1>8, <1>9 DEF IInv

LEMMA ActorKeeps == ASSUME IInv, NEW a \in Actors, Actor(a) PROVE IInv'
BY WaitedToUnloadKeeps, LockToUnloadKeeps, UnloadKeeps, StopKeeps, StoppedKeeps, CreateKeeps
   DEF Actor

LEMMA NextIInv == ASSUME IInv, [Next]_vars PROVE IInv'
<1>1. ASSUME MainStep PROVE IInv'
  BY <1>1, TopKeeps, UiPassKeeps, AloneEndsKeeps, RunKeeps, RunFrameKeeps, LoadGameKeeps,
     StartInputKeeps, FirstFrameKeeps, ActorKeeps
     DEF MainStep
<1>2. ASSUME MenuStep PROVE IInv'
  BY <1>2, ResumeKeeps, LoadStateKeeps, ResetKeeps, ToggleRewindKeeps, LoadRomKeeps, ExitKeeps
     DEF MenuStep
<1>3. ASSUME InputStep PROVE IInv'
  BY <1>3, SaveRamKeeps, AutoSavedKeeps, StateKeyDoneKeeps, StopPollingKeeps, ActorKeeps
     DEF InputStep
<1>4. ASSUME KeyStep PROVE IInv'
  BY <1>4, MenuKeyKeeps, StateKeyKeeps, RewindKeyKeeps, RewindKeyUpKeeps, ExitKeyKeeps
     DEF KeyStep
<1>5. ASSUME NEW r \in RewindThreads, RewindStep(r) PROVE IInv'
  BY <1>5, WarmedKeeps, ServeKeeps, RewindKeeps, CoreDoneKeeps, CompareKeeps, SignalMainKeeps
     DEF RewindStep
<1>6. ASSUME UNCHANGED vars PROVE IInv'
  BY <1>6 DEF vars, IInv, Types, PlacesInv, JobInv, LockInv, Holds, SeenInv, StatusInv,
              LeavingInv, Leaving, Calm, StoreInv, RewindInv
<1> QED
  BY <1>1, <1>2, <1>3, <1>4, <1>5, <1>6, TakeTokenKeeps, MainTakesTokenKeeps, LockKeeps
     DEF Next, Finished

LEMMA CarefulIInv == Spec /\ habits = {} => []IInv
BY InitIInv, NextIInv, PTL DEF Spec

\* With a user and a scheduler that take their time (habits = {}), the main
\* thread, the input thread and the rewind thread never use the core at once:
\* the menu, LoadRom and Reset, which do without the emulator lock, find the
\* rewind thread asleep and the input thread idle.
THEOREM TheCoreIsUsedAlone == Spec /\ habits = {} => []OneThreadInCore
<1>1. ASSUME IInv PROVE OneThreadInCore
  <2>1. SUFFICES ASSUME NEW t \in Threads, NEW u \in Threads, UsesCore(t), UsesCore(u), t # u
                 PROVE  FALSE
    BY DEF OneThreadInCore
  <2>2. ASSUME NEW v \in Threads \ {"main"} PROVE UsesCore(v) => owner = v
    BY <1>1 DEF UsesCore, IInv, PlacesInv, LockInv, Holds
  <2>3. UsesCore("main") => owner = "main" \/ pc["main"] \in {"alone", "alone1"}
    BY <1>1 DEF UsesCore, IInv, LockInv, Holds
  <2>4. ASSUME pc["main"] \in {"alone", "alone1"}, NEW v \in Threads \ {"main"}
        PROVE  ~UsesCore(v)
    BY <1>1, <2>4, ThreadsDiffer DEF UsesCore, IInv, PlacesInv, StatusInv, Calm
  <2> QED
    BY <2>1, <2>2, <2>3, <2>4
<1> QED
  BY <1>1, CarefulIInv, PTL

\* Nor do they use a core without a game, or the rewind buffers that are not
\* there: UnloadGame and RewindManager::Deinit meet nobody who still does.
THEOREM WhatIsUsedIsThere == Spec /\ habits = {} => []UsedIsThere
<1>1. ASSUME IInv PROVE UsedIsThere
  <2> USE <1>1 DEF IInv
  <2>1. status \in InGameStatus => loaded
    BY DEF StatusInv
  <2>2. ASSUME NEW a \in Actors, Leaving(a), was[a] \in InGame PROVE loaded
    BY <2>2 DEF LeavingInv
  <2>3. UsesCore("main") => loaded
    <3>1. pc["main"] = "core" => loaded
      BY <2>1, <2>2 DEF SeenInv, LeavingInv, Leaving
    <3> QED
      BY <2>1, <3>1 DEF UsesCore, StatusInv
  <2>4. UsesCore("input") => loaded
    BY <2>1 DEF UsesCore, PlacesInv, StatusInv
  <2>5. ASSUME NEW r \in RewindThreads, pc[r] # "off" PROVE thread # "none" /\ bufs /\ loaded
    <3>1. thread # "none"
      BY <2>5, ThreadsDiffer DEF PlacesInv
    <3> QED
      BY <2>1, <2>2, <3>1 DEF StatusInv, StoreInv
  <2>6. \A t \in Threads : UsesCore(t) => loaded
    BY <2>3, <2>4, <2>5 DEF UsesCore
  <2>7. \A r \in RewindThreads : UsesBufs(r) => bufs
    BY <2>5 DEF UsesBufs
  <2> QED
    BY <2>1, <2>6, <2>7 DEF UsedIsThere
<1> QED
  BY <1>1, CarefulIInv, PTL

\* While the rewind key is down at most one frame is shown that the rewind
\* thread did not prepare: the semaphore holds one old token, and the frame it
\* lets go is counted against it.
THEOREM OneStaleFrameAtMost == Spec /\ habits = {} => []AtMostOneStaleFrame
<1>1. ASSUME IInv PROVE AtMostOneStaleFrame
  BY <1>1 DEF IInv, Types, RewindInv, AtMostOneStaleFrame
<1> QED
  BY <1>1, CarefulIInv, PTL

================================================================================

