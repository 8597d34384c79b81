---------------------------- MODULE Network_proofs ----------------------------
(***************************************************************************)
(* Proofs about Network for any tasks, any threads that add them and any   *)
(* size of the pool: no task is lost to the semaphore, none has two        *)
(* owners, no callback is called twice, and no file is left half written.  *)
(***************************************************************************)
EXTENDS Network, FiniteSetTheorems, TLAPS

\* The task in the thread's hand is between the queue and curl ("open"), or
\* still in _active_tasks and about to be erased.
HandInv ==
    /\ pc = "open"  => \E t \in Task : hand = {t} /\ t \notin active
    /\ pc = "erase" => \E t \in Task : hand = {t} /\ t \in active \ done
    /\ pc \notin {"open", "erase"} => hand = {}

\* A callback was called for the task in hand, or for one that is gone.
CalledInv ==
    \A t \in Task : called[t] # 0 =>
        /\ called[t] = 1
        /\ t \notin Queued /\ (t \in active => hand = {t})
        /\ \/ pc = "erase" /\ hand = {t}
           \/ hand # {t} /\ t \in freed

\* Room for one more transfer, found by the thread that starts them all.
PoolInv ==
    /\ IsFiniteSet(active)
    /\ pc \in {"pop", "open"} => Cardinality(active) < MaxConcurrent
    /\ PoolBound

IInv == TypeOK /\ OneOwner /\ HandInv /\ CalledInv /\ PoolInv /\ NoLostWakeup
-----------------------------------------------------------------------------
\* A task added is new: it goes to the end of the queue and is nowhere else.
LEMMA AppendFacts ==
    ASSUME TypeOK, OneOwner, NEW n \in New, queue' = Append(queue, n)
    PROVE  /\ queue' \in Seq(Task) /\ queue' # <<>>
           /\ Queued' = Queued \cup {n}
           /\ n \notin Queued \cup active \cup hand \cup freed
           /\ \A i, j \in 1 .. Len(queue') : queue'[i] = queue'[j] => i = j
<1>1. n \in Task /\ n \notin Queued \cup active \cup hand \cup freed
  BY DEF New
<1>2. /\ queue' \in Seq(Task) /\ Len(queue') = Len(queue) + 1 /\ Len(queue) \in Nat
      /\ \A i \in 1 .. Len(queue) : queue'[i] = queue[i]
      /\ queue'[Len(queue) + 1] = n
  BY <1>1 DEF TypeOK
<1>3. queue' # <<>>
  BY <1>2
<1>4. Queued' = Queued \cup {n}
  BY <1>2 DEF Queued
<1>5. ASSUME NEW i \in 1 .. Len(queue'), NEW j \in 1 .. Len(queue'), queue'[i] = queue'[j]
      PROVE  i = j
  <2>1. CASE i \in 1 .. Len(queue) /\ j \in 1 .. Len(queue)
    BY <1>2, <1>5, <2>1 DEF OneOwner
  <2>2. CASE i = Len(queue) + 1 /\ j \in 1 .. Len(queue)
    BY <1>1, <1>2, <1>5, <2>2 DEF Queued
  <2>3. CASE i \in 1 .. Len(queue) /\ j = Len(queue) + 1
    BY <1>1, <1>2, <1>5, <2>3 DEF Queued
  <2>4. CASE i = Len(queue) + 1 /\ j = Len(queue) + 1
    BY <2>4
  <2> QED
    BY <1>2, <2>1, <2>2, <2>3, <2>4
<1> QED
  BY <1>1, <1>2, <1>3, <1>4, <1>5

\* The task popped is in the queue no more.
LEMMA PopFacts ==
    ASSUME TypeOK, OneOwner, queue # <<>>, queue' = Tail(queue)
    PROVE  /\ Head(queue) \in Task /\ Head(queue) \in Queued
           /\ queue' \in Seq(Task)
           /\ Queued' = Queued \ {Head(queue)}
           /\ \A i, j \in 1 .. Len(queue') : queue'[i] = queue'[j] => i = j
<1>1. /\ queue \in Seq(Task) /\ Len(queue) \in Nat /\ Len(queue) > 0
      /\ Head(queue) = queue[1] /\ Head(queue) \in Task
      /\ queue' \in Seq(Task) /\ Len(queue') = Len(queue) - 1
      /\ \A i \in 1 .. Len(queue') : queue'[i] = queue[i + 1]
  BY DEF TypeOK
<1>2. Head(queue) \in Queued
  BY <1>1 DEF Queued
<1>3. Queued' \subseteq Queued \ {Head(queue)}
  <2> SUFFICES ASSUME NEW i \in 1 .. Len(queue')
               PROVE  queue'[i] \in Queued \ {Head(queue)}
    BY DEF Queued
  <2>1. i + 1 \in 1 .. Len(queue) /\ 1 \in 1 .. Len(queue) /\ i + 1 # 1
    BY <1>1
  <2> QED
    BY <1>1, <2>1 DEF Queued, OneOwner
<1>4. Queued \ {Head(queue)} \subseteq Queued'
  <2> SUFFICES ASSUME NEW i \in 1 .. Len(queue), queue[i] # Head(queue)
               PROVE  queue[i] \in Queued'
    BY DEF Queued
  <2>1. i - 1 \in 1 .. Len(queue') /\ queue'[i - 1] = queue[i]
    BY <1>1
  <2> QED
    BY <2>1 DEF Queued
<1>5. ASSUME NEW i \in 1 .. Len(queue'), NEW j \in 1 .. Len(queue'), queue'[i] = queue'[j]
      PROVE  i = j
  <2>1. i + 1 \in 1 .. Len(queue) /\ j + 1 \in 1 .. Len(queue)
    BY <1>1
  <2> QED
    BY <1>1, <1>5, <2>1 DEF OneOwner
<1> QED
  BY <1>1, <1>2, <1>3, <1>4, <1>5
-----------------------------------------------------------------------------
LEMMA InitIInv == Init => IInv
<1> SUFFICES ASSUME Init PROVE IInv
  OBVIOUS
<1>1. Queued = {} /\ queue \in Seq(Task)
  BY DEF Init, Queued
<1>2. IsFiniteSet(active) /\ Cardinality(active) = 0
  BY FS_EmptySet DEF Init
<1>3. TypeOK
  <2>1. called \in [Task -> Nat] /\ file \in [Task -> {"none", "partial", "whole"}]
    BY DEF Init
  <2>2. apc \in [Adder -> {"idle", "pushed"}] /\ exiting \in BOOLEAN
    BY DEF Init
  <2> QED
    BY <1>1, <2>1, <2>2 DEF Init, TypeOK, Points
<1>4. OneOwner /\ HandInv /\ CalledInv /\ NoLostWakeup
  BY <1>1 DEF Init, OneOwner, HandInv, CalledInv, NoLostWakeup
<1>5. PoolInv
  BY <1>2, NetworkAssumption DEF Init, PoolInv, PoolBound
<1> QED
  BY <1>3, <1>4, <1>5 DEF IInv

\* Steps that leave the tasks where they are.
LEMMA NothingMoves ==
    ASSUME IInv,
           UNCHANGED <<queue, active, done, hand, freed, called, file>>,
           sema' \in 0 .. 1, pc' \in Points, apc' \in [Adder -> {"idle", "pushed"}],
           exiting' \in BOOLEAN, exiting => exiting',
           pc' # pc => pc \notin {"open", "erase"} /\ pc' \notin {"open", "erase"},
           pc' = "pop" => pc = "pop" \/ Cardinality(active) < MaxConcurrent,
           NoLostWakeup'
    PROVE  IInv'
<1>1. Queued' = Queued
  BY DEF Queued
<1>2. TypeOK'
  BY DEF IInv, TypeOK
<1>3. OneOwner'
  <2>1. pc' = "open" => pc = "open"
    OBVIOUS
  <2> QED
    BY <1>1, <2>1 DEF IInv, OneOwner
<1>4. HandInv' /\ PoolInv'
  BY DEF IInv, HandInv, PoolInv, PoolBound
<1>5. CalledInv'
  BY <1>1 DEF IInv, CalledInv, HandInv
<1> QED
  BY <1>2, <1>3, <1>4, <1>5 DEF IInv

LEMMA PushIInv == ASSUME IInv, NEW a \in Adder, Push(a) PROVE IInv'
<1>1. PICK n \in New : queue' = Append(queue, n)
  BY DEF Push
<1>2. /\ queue' \in Seq(Task) /\ Queued' = Queued \cup {n}
      /\ n \notin Queued \cup active \cup hand \cup freed
      /\ \A i, j \in 1 .. Len(queue') : queue'[i] = queue'[j] => i = j
  BY <1>1, AppendFacts DEF IInv
<1>3. UNCHANGED <<active, done, hand, sema, pc, freed, called, file, exiting>>
  BY DEF Push, results
<1>4. apc' \in [Adder -> {"idle", "pushed"}] /\ apc'[a] = "pushed"
  BY DEF Push, IInv, TypeOK
<1>5. TypeOK'
  BY <1>2, <1>3, <1>4 DEF IInv, TypeOK
<1>6. OneOwner'
  BY <1>2, <1>3 DEF IInv, OneOwner
<1>7. HandInv' /\ PoolInv'
  BY <1>3 DEF IInv, HandInv, PoolInv, PoolBound
<1>8. CalledInv'
  BY <1>2, <1>3 DEF IInv, CalledInv
<1>9. NoLostWakeup'
  BY <1>4 DEF NoLostWakeup
<1> QED
  BY <1>5, <1>6, <1>7, <1>8, <1>9 DEF IInv

\* Both ways to clean the queue; the second deletes what is with curl, too.
LEMMA CleanIInv == ASSUME IInv, CleanTaskQueue \/ CleanAllTasks PROVE IInv'
<1>1. /\ queue' = <<>> /\ sema' \in 0 .. 1
      /\ \/ freed' = freed \cup Queued
         \/ exiting /\ freed' = freed \cup Queued \cup active
      /\ UNCHANGED <<active, done, hand, pc, apc, called, file, exiting>>
  BY DEF CleanTaskQueue, CleanAllTasks, results, IInv, TypeOK
<1>2. Queued' = {} /\ queue' \in Seq(Task) /\ Queued \subseteq Task
  BY <1>1 DEF Queued, IInv, TypeOK
<1>3. TypeOK'
  BY <1>1, <1>2 DEF IInv, TypeOK
<1>4. OneOwner'
  <2>1. ~exiting' => freed' \cap (active' \cup hand') = {}
    BY <1>1 DEF IInv, OneOwner
  <2> QED
    BY <1>1, <1>2, <2>1 DEF IInv, OneOwner
<1>5. HandInv' /\ PoolInv'
  BY <1>1 DEF IInv, HandInv, PoolInv, PoolBound
<1>6. CalledInv'
  <2>1. freed \subseteq freed'
    BY <1>1
  <2> QED
    BY <1>1, <1>2, <2>1 DEF IInv, CalledInv
<1>7. NoLostWakeup'
  BY <1>1 DEF NoLostWakeup
<1> QED
  BY <1>3, <1>4, <1>5, <1>6, <1>7 DEF IInv

LEMMA PopIInv == ASSUME IInv, Pop PROVE IInv'
<1>1. CASE queue = <<>>
  <2>1. /\ pc = "pop" /\ pc' = "undefined"
        /\ UNCHANGED <<queue, active, done, hand, sema, apc, freed, called, file, exiting>>
    BY <1>1 DEF Pop, results
  <2> QED
    BY <2>1, NothingMoves DEF IInv, TypeOK, Points, NoLostWakeup
<1>2. CASE queue # <<>>
  <2>1. /\ pc = "pop" /\ pc' = "open" /\ queue' = Tail(queue)
        /\ hand' = {Head(queue)}
        /\ UNCHANGED <<active, done, sema, apc, freed, called, file, exiting>>
    BY <1>2 DEF Pop, results
  <2>2. /\ Head(queue) \in Task /\ Head(queue) \in Queued
        /\ queue' \in Seq(Task) /\ Queued' = Queued \ {Head(queue)}
        /\ \A i, j \in 1 .. Len(queue') : queue'[i] = queue'[j] => i = j
    BY <1>2, <2>1, PopFacts DEF IInv
  <2>3. TypeOK'
    BY <2>1, <2>2 DEF IInv, TypeOK, Points
  <2>4. OneOwner'
    BY <2>1, <2>2 DEF IInv, OneOwner
  <2>5. HandInv'
    <3>1. Head(queue) \notin active
      BY <2>2 DEF IInv, OneOwner
    <3> QED
      BY <2>1, <2>2, <3>1 DEF HandInv
  <2>6. PoolInv'
    BY <2>1 DEF IInv, PoolInv, PoolBound
  <2>7. CalledInv'
    <3> SUFFICES ASSUME NEW t \in Task, called'[t] # 0
                 PROVE  /\ called'[t] = 1
                        /\ t \notin Queued' /\ (t \in active' => hand' = {t})
                        /\ \/ pc' = "erase" /\ hand' = {t}
                           \/ hand' # {t} /\ t \in freed'
      BY DEF CalledInv
    <3>1. called[t] = 1 /\ t \notin Queued /\ t \in freed /\ t \notin active
      <4>1. hand = {}
        BY <2>1 DEF IInv, HandInv
      <4> QED
        BY <2>1, <4>1 DEF IInv, CalledInv
    <3>2. t # Head(queue)
      BY <2>2, <3>1
    <3> QED
      BY <2>1, <2>2, <3>1, <3>2
  <2>8. NoLostWakeup'
    BY <2>1 DEF NoLostWakeup
  <2> QED
    BY <2>3, <2>4, <2>5, <2>6, <2>7, <2>8 DEF IInv
<1> QED
  BY <1>1, <1>2

LEMMA SubmitFailsIInv == ASSUME IInv, SubmitFails PROVE IInv'
<1>1. PICK t \in Task : pc = "open" /\ hand = {t} /\ t \notin active
  BY DEF SubmitFails, IInv, HandInv
<1>2. /\ freed' = freed \cup {t} /\ hand' = {} /\ pc' = "submit"
      /\ Queued' = Queued
      /\ UNCHANGED <<queue, active, done, sema, apc, called, file, exiting>>
  BY <1>1 DEF SubmitFails, results, Queued
<1>3. TypeOK'
  BY <1>2 DEF IInv, TypeOK, Points
<1>4. OneOwner'
  BY <1>1, <1>2 DEF IInv, OneOwner
<1>5. HandInv' /\ PoolInv' /\ NoLostWakeup'
  BY <1>2 DEF IInv, HandInv, PoolInv, PoolBound, NoLostWakeup
<1>6. CalledInv'
  BY <1>1, <1>2 DEF IInv, CalledInv
<1> QED
  BY <1>3, <1>4, <1>5, <1>6 DEF IInv

LEMMA ActivateIInv == ASSUME IInv, Activate PROVE IInv'
<1>1. PICK t \in Task : pc = "open" /\ hand = {t} /\ t \notin active
  BY DEF Activate, IInv, HandInv
<1>2. /\ active' = active \cup {t} /\ hand' = {} /\ pc' = "submit"
      /\ Queued' = Queued
      /\ UNCHANGED <<queue, done, sema, apc, freed, called, exiting>>
  BY <1>1 DEF Activate, Queued
<1>3. TypeOK'
  <2>1. file' \in [Task -> {"none", "partial", "whole"}]
    BY DEF Activate, IInv, TypeOK
  <2> QED
    BY <1>2, <2>1 DEF IInv, TypeOK, Points
<1>4. OneOwner'
  BY <1>1, <1>2 DEF IInv, OneOwner
<1>5. HandInv' /\ NoLostWakeup'
  BY <1>2 DEF HandInv, NoLostWakeup
<1>6. PoolInv'
  <2>1. IsFiniteSet(active') /\ Cardinality(active') = Cardinality(active) + 1
    BY <1>1, <1>2, FS_AddElement DEF IInv, PoolInv
  <2>2. Cardinality(active) \in Nat /\ Cardinality(active) < MaxConcurrent
    BY <1>1, FS_CardinalityType DEF IInv, PoolInv
  <2> QED
    BY <1>2, <2>1, <2>2, NetworkAssumption DEF PoolInv, PoolBound
<1>7. CalledInv'
  BY <1>1, <1>2 DEF IInv, CalledInv
<1> QED
  BY <1>3, <1>4, <1>5, <1>6, <1>7 DEF IInv

LEMMA PerformIInv == ASSUME IInv, Perform PROVE IInv'
<1>1. /\ pc = "perform" /\ pc' = "results"
      /\ done' \subseteq active
      /\ Queued' = Queued
      /\ UNCHANGED <<queue, active, hand, sema, apc, freed, called, file, exiting>>
  BY DEF Perform, results, Queued, IInv, TypeOK
<1>2. TypeOK'
  BY <1>1 DEF IInv, TypeOK, Points
<1>3. OneOwner' /\ HandInv' /\ PoolInv' /\ NoLostWakeup'
  BY <1>1 DEF IInv, OneOwner, HandInv, PoolInv, PoolBound, NoLostWakeup
<1>4. CalledInv'
  BY <1>1 DEF IInv, CalledInv
<1> QED
  BY <1>2, <1>3, <1>4 DEF IInv

LEMMA DownloadEndsIInv == ASSUME IInv, NEW t \in Task, DownloadEnds(t) PROVE IInv'
<1>1. /\ pc = "results" /\ t \in done /\ t \in active /\ hand = {}
      /\ done' = done \ {t} /\ pc' = "erase" /\ hand' = {t}
      /\ Queued' = Queued
      /\ UNCHANGED <<queue, active, sema, apc, freed, called, exiting>>
  BY DEF DownloadEnds, Queued, IInv, TypeOK, HandInv
<1>2. TypeOK'
  <2>1. file' \in [Task -> {"none", "partial", "whole"}]
    BY DEF DownloadEnds, IInv, TypeOK
  <2> QED
    BY <1>1, <2>1 DEF IInv, TypeOK, Points
<1>3. OneOwner' /\ HandInv' /\ PoolInv' /\ NoLostWakeup'
  BY <1>1 DEF IInv, OneOwner, HandInv, PoolInv, PoolBound, NoLostWakeup
<1>4. CalledInv'
  BY <1>1 DEF IInv, CalledInv
<1> QED
  BY <1>2, <1>3, <1>4 DEF IInv

LEMMA CallbackEndsIInv == ASSUME IInv, NEW t \in Task, CallbackEnds(t) PROVE IInv'
<1>1. /\ pc = "results" /\ t \in done /\ t \in active /\ hand = {}
      /\ done' = done \ {t} /\ pc' = "erase" /\ hand' = {t}
      /\ called' = [called EXCEPT ![t] = @ + 1]
      /\ UNCHANGED <<active, apc, freed, file, exiting>>
  BY DEF CallbackEnds, IInv, TypeOK, HandInv
<1>2. /\ queue' \in Seq(Task) /\ sema' \in 0 .. 1
      /\ Queued \subseteq Queued'
      /\ Queued' \cap (active \cup freed) = {}
      /\ \A i, j \in 1 .. Len(queue') : queue'[i] = queue'[j] => i = j
  <2>1. CASE UNCHANGED <<queue, sema>>
    BY <2>1 DEF IInv, TypeOK, OneOwner, Queued
  <2>2. CASE \E n \in New : queue' = Append(queue, n) /\ sema' = 1
    <3>1. PICK n \in New : queue' = Append(queue, n) /\ sema' = 1
      BY <2>2
    <3> QED
      BY <3>1, AppendFacts DEF IInv, OneOwner
  <2> QED
    BY <2>1, <2>2 DEF CallbackEnds
<1>3. called[t] = 0
  BY <1>1 DEF IInv, CalledInv
<1>4. called' \in [Task -> Nat] /\ called'[t] = 1 /\ \A u \in Task \ {t} : called'[u] = called[u]
  BY <1>1, <1>3 DEF IInv, TypeOK
<1>5. TypeOK'
  BY <1>1, <1>2, <1>4 DEF IInv, TypeOK, Points
<1>6. OneOwner'
  BY <1>1, <1>2 DEF IInv, OneOwner
<1>7. HandInv' /\ PoolInv' /\ NoLostWakeup'
  BY <1>1 DEF IInv, HandInv, PoolInv, PoolBound, NoLostWakeup
<1>8. CalledInv'
  <2> SUFFICES ASSUME NEW u \in Task, called'[u] # 0
               PROVE  /\ called'[u] = 1
                      /\ u \notin Queued' /\ (u \in active' => hand' = {u})
                      /\ \/ pc' = "erase" /\ hand' = {u}
                         \/ hand' # {u} /\ u \in freed'
    BY DEF CalledInv
  <2>1. CASE u = t
    BY <1>1, <1>2, <1>4, <2>1
  <2>2. CASE u # t
    <3>1. called[u] = 1 /\ u \in freed /\ u \notin active
      BY <1>1, <1>4, <2>2 DEF IInv, CalledInv
    <3> QED
      BY <1>1, <1>2, <1>4, <2>2, <3>1
  <2> QED
    BY <2>1, <2>2
<1> QED
  BY <1>5, <1>6, <1>7, <1>8 DEF IInv

LEMMA EraseIInv == ASSUME IInv, Erase PROVE IInv'
<1>1. PICK t \in Task : pc = "erase" /\ hand = {t} /\ t \in active \ done
  BY DEF Erase, IInv, HandInv
<1>2. /\ freed' = freed \cup {t} /\ active' = active \ {t} /\ hand' = {}
      /\ pc' = "results" /\ Queued' = Queued
      /\ UNCHANGED <<queue, done, sema, apc, called, file, exiting>>
  BY <1>1 DEF Erase, results, Queued
<1>3. TypeOK'
  BY <1>1, <1>2 DEF IInv, TypeOK, Points
<1>4. OneOwner'
  BY <1>1, <1>2 DEF IInv, OneOwner
<1>5. HandInv' /\ NoLostWakeup'
  BY <1>2 DEF HandInv, NoLostWakeup
<1>6. PoolInv'
  <2>1. IsFiniteSet(active') /\ Cardinality(active') = Cardinality(active) - 1
    BY <1>1, <1>2, FS_RemoveElement DEF IInv, PoolInv
  <2>2. Cardinality(active) \in Nat /\ Cardinality(active) <= MaxConcurrent
    BY FS_CardinalityType DEF IInv, PoolInv, PoolBound
  <2> QED
    BY <1>2, <2>1, <2>2, NetworkAssumption DEF PoolInv, PoolBound
<1>7. CalledInv'
  BY <1>1, <1>2 DEF IInv, CalledInv
<1> QED
  BY <1>3, <1>4, <1>5, <1>6, <1>7 DEF IInv

LEMMA NextIInv == IInv /\ [Next]_vars => IInv'
<1> SUFFICES ASSUME IInv, [Next]_vars PROVE IInv'
  OBVIOUS
<1> USE DEF results
<1>1. ASSUME NEW a \in Adder, SignalAdded(a) PROVE IInv'
  <2>1. /\ UNCHANGED <<queue, active, done, hand, freed, called, file, pc, exiting>>
        /\ sema' = 1 /\ apc' \in [Adder -> {"idle", "pushed"}]
    BY <1>1 DEF SignalAdded, IInv, TypeOK
  <2>2. PoolInv
    BY DEF IInv
  <2> QED
    BY <2>1, <2>2, NothingMoves DEF IInv, TypeOK, NoLostWakeup
<1>2. CASE Exit
  <2>1. /\ UNCHANGED <<queue, active, done, hand, freed, called, file, pc, sema, apc>>
        /\ exiting' = TRUE
    BY <1>2 DEF Exit
  <2> QED
    BY <2>1, NothingMoves DEF IInv, TypeOK, NoLostWakeup
<1>3. CASE Top \/ Wait \/ Submit \/ NoResult
  <2>1. /\ UNCHANGED <<queue, active, done, hand, freed, called, file, apc, exiting>>
        /\ sema' \in 0 .. 1
        /\ pc \in {"top", "wait", "submit", "results"}
        /\ pc' \in {"top", "wait", "submit", "pop", "perform", "off"}
        /\ pc' = "pop" => Cardinality(active) < MaxConcurrent
        /\ pc' = "wait" => queue = <<>>
    BY <1>3 DEF Top, Wait, Submit, NoResult, AllCompleted, IInv, TypeOK
  <2>2. NoLostWakeup'
    BY <2>1 DEF NoLostWakeup
  <2> QED
    BY <2>1, <2>2, NothingMoves DEF IInv, TypeOK, Points
<1>4. CASE UNCHANGED vars
  <2>1. UNCHANGED <<queue, active, done, hand, sema, pc, apc, freed, called, file, exiting>>
    BY <1>4 DEF vars
  <2>2. NoLostWakeup'
    BY <2>1 DEF IInv, NoLostWakeup
  <2> QED
    BY <2>1, <2>2, NothingMoves DEF IInv, TypeOK
<1>5. CASE Others
  BY <1>1, <1>2, <1>5, PushIInv, CleanIInv DEF Others
<1>6. CASE NetworkThread
  <2>1. CASE Pop \/ SubmitFails \/ Activate \/ Perform \/ Erase
    BY <2>1, PopIInv, SubmitFailsIInv, ActivateIInv, PerformIInv, EraseIInv
  <2>2. CASE \E t \in Task : DownloadEnds(t) \/ CallbackEnds(t)
    BY <2>2, DownloadEndsIInv, CallbackEndsIInv
  <2> QED
    BY <1>3, <1>6, <2>1, <2>2 DEF NetworkThread
<1> QED
  BY <1>4, <1>5, <1>6 DEF Next

LEMMA SpecIInv == Spec => []IInv
BY InitIInv, NextIInv, PTL DEF Spec
-----------------------------------------------------------------------------
\* The network thread never sleeps on a task that some thread queued and has
\* signalled, although it looks at the queue without the lock.
THEOREM NoTaskIsLost == Spec => []NoLostWakeup
<1>1. IInv => NoLostWakeup
  BY DEF IInv
<1> QED
  BY <1>1, SpecIInv, PTL

\* A task has one owner from AddTask to delete.
THEOREM OneOwnerAtATime == Spec => []OneOwner
<1>1. IInv => OneOwner
  BY DEF IInv
<1> QED
  BY <1>1, SpecIInv, PTL

\* No callback is called twice, nor for a transfer that still runs.
THEOREM CallbacksAreCalledOnce == Spec => []CalledOnce
<1>1. IInv => CalledOnce
  <2> SUFFICES ASSUME IInv, NEW t \in Task
               PROVE  called[t] <= 1 /\ (called[t] = 1 => t \in freed \/ hand = {t})
    BY DEF CalledOnce
  <2>1. CASE called[t] = 0
    BY <2>1
  <2>2. CASE called[t] # 0
    BY <2>2 DEF IInv, CalledInv
  <2> QED
    BY <2>1, <2>2
<1> QED
  BY <1>1, SpecIInv, PTL

\* The pool is never overrun, though the thread checks its size without the lock.
THEOREM PoolIsBounded == Spec => []PoolBound
<1>1. IInv => PoolBound
  BY DEF IInv, PoolInv
<1> QED
  BY <1>1, SpecIInv, PTL
-----------------------------------------------------------------------------
\* A half file is that of a download with curl, until its result is taken.
FileInv ==
    \A t \in Task : file[t] = "partial" =>
        t \in active \cap Download /\ ~(pc = "erase" /\ hand = {t})

LEMMA InitFileInv == Init => FileInv
BY DEF Init, FileInv

LEMMA NextFileInv == IInv /\ FileInv /\ [Next]_vars => FileInv'
<1> SUFFICES ASSUME IInv, FileInv, [Next]_vars PROVE FileInv'
  OBVIOUS
<1>1. CASE Others \/ Top \/ Wait \/ Submit \/ NoResult \/ UNCHANGED vars
  <2>1. UNCHANGED <<active, hand, file>> /\ (pc' # "erase" \/ UNCHANGED pc)
    BY <1>1 DEF Others, Push, SignalAdded, CleanTaskQueue, Exit, CleanAllTasks,
                Top, Wait, Submit, NoResult, vars, results
  <2> QED
    BY <2>1 DEF FileInv
<1>2. CASE Pop \/ SubmitFails \/ Perform
  BY <1>2 DEF Pop, SubmitFails, Perform, results, FileInv
<1>3. CASE Activate
  <2>1. PICK t \in Task : pc = "open" /\ hand = {t}
    BY <1>3 DEF Activate, IInv, HandInv
  <2>2. /\ active' = active \cup {t} /\ pc' = "submit"
        /\ file' = [u \in Task |-> IF u \in {t} \cap Download THEN "partial" ELSE file[u]]
    BY <1>3, <2>1 DEF Activate
  <2> QED
    BY <2>2 DEF FileInv
<1>4. ASSUME NEW t \in Task, DownloadEnds(t) PROVE FileInv'
  <2>1. /\ UNCHANGED active /\ hand' = {t}
        /\ file' \in [Task -> {"none", "partial", "whole"}] /\ file'[t] # "partial"
        /\ \A u \in Task \ {t} : file'[u] = file[u]
    BY <1>4 DEF DownloadEnds, IInv, TypeOK
  <2> QED
    BY <2>1 DEF FileInv
<1>5. ASSUME NEW t \in Task, CallbackEnds(t) PROVE FileInv'
  BY <1>5 DEF CallbackEnds, FileInv
<1>6. CASE Erase
  BY <1>6 DEF Erase, results, IInv, HandInv, FileInv
<1> QED
  BY <1>1, <1>2, <1>3, <1>4, <1>5, <1>6 DEF Next, NetworkThread

\* The files of downloads that ended are whole or removed, for any tasks and
\* any pool, unless the application left in the middle of them (_ActiveTaskLoop,
\* CleanAllTasks).
THEOREM NoHalfFileIsLeft == Spec => []NoHalfFile
<1>1. Spec => []FileInv
  BY InitFileInv, NextFileInv, SpecIInv, PTL DEF Spec
<1>2. IInv /\ FileInv => NoHalfFile
  BY DEF IInv, TypeOK, OneOwner, FileInv, NoHalfFile
<1> QED
  BY <1>1, <1>2, SpecIInv, PTL
=============================================================================
