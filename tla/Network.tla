-------------------------------- MODULE Network --------------------------------
(***************************************************************************)
(* Network (network.cpp): the queue of downloads and of requests with a    *)
(* callback, and the thread that carries them out with curl.  Any thread   *)
(* adds tasks; the network thread sleeps on its binary semaphore while it  *)
(* has none.  Sections under the network lock are single steps; what the   *)
(* code reads or writes outside of the lock is a step of its own.          *)
(* The two counters of the progress hint are left out.                     *)
(***************************************************************************)
EXTENDS Naturals, Sequences, FiniteSets

CONSTANTS
    Task,           \* the tasks ever added
    Download,       \* those that write a file; the others have a callback
    Adder,          \* the threads that add tasks
    MaxConcurrent,  \* _max_concurrent
    Cancels,        \* the browser's download may be cancelled
    Exits           \* the application may exit

ASSUME NetworkAssumption ==
    /\ Download \subseteq Task
    /\ MaxConcurrent \in Nat \ {0}
    /\ {Cancels, Exits} \subseteq BOOLEAN

VARIABLES
    queue,      \* _task_queue
    active,     \* the tasks of _active_tasks
    done,       \* those curl has a CURLMSG_DONE for
    hand,       \* the task the network thread works on, in a set
    sema,       \* count of the semaphore
    pc,         \* the network thread
    apc,        \* each adder: between tasks, or between push and Signal
    freed,      \* the tasks deleted
    called,     \* how often a task's callback was called
    file,       \* a download's file
    exiting     \* gStatus is EXIT, RETURN_ARCH or REBOOT_WITH_LOADING

vars == <<queue, active, done, hand, sema, pc, apc, freed, called, file, exiting>>
results == <<called, file>>

Queued == { queue[i] : i \in 1 .. Len(queue) }
New == Task \ (Queued \cup active \cup hand \cup freed)
AllCompleted == queue = <<>> /\ active = {}

Init ==
    /\ queue = <<>> /\ active = {} /\ done = {} /\ hand = {}
    /\ sema = 0 /\ pc = "top"
    /\ apc = [a \in Adder |-> "idle"]
    /\ freed = {}
    /\ called = [t \in Task |-> 0]
    /\ file = [t \in Task |-> "none"]
    /\ exiting = FALSE
-----------------------------------------------------------------------------
(* The threads that add: the thumbnail download, RetroAchievements, App.   *)

Push(a) ==
    /\ apc[a] = "idle"
    /\ \E t \in New : queue' = Append(queue, t)
    /\ apc' = [apc EXCEPT ![a] = "pushed"]
    /\ UNCHANGED <<active, done, hand, sema, pc, freed, results, exiting>>

\* An operator named X_Bug is X as a plausible bug would have it; no definition
\* uses it, the checks are repeated with it to see that the properties notice.
SignalAdded_OnlyIfFirst(a) ==
    /\ apc[a] = "pushed"
    /\ sema' = IF Len(queue) = 1 THEN 1 ELSE sema
    /\ apc' = [apc EXCEPT ![a] = "idle"]
    /\ UNCHANGED <<queue, active, done, hand, pc, freed, results, exiting>>

SignalAdded(a) ==
    /\ apc[a] = "pushed"
    /\ sema' = 1
    /\ apc' = [apc EXCEPT ![a] = "idle"]
    /\ UNCHANGED <<queue, active, done, hand, pc, freed, results, exiting>>

CleanTaskQueue_KeepsHead ==
    /\ Cancels /\ queue # <<>>
    /\ queue' = <<Head(queue)>> /\ freed' = freed \cup Queued
    /\ UNCHANGED <<active, done, hand, sema, pc, apc, results, exiting>>

CleanTaskQueue ==
    /\ Cancels /\ queue # <<>>
    /\ queue' = <<>> /\ freed' = freed \cup Queued
    /\ UNCHANGED <<active, done, hand, sema, pc, apc, results, exiting>>

Exit ==
    /\ Exits /\ ~exiting
    /\ exiting' = TRUE
    /\ UNCHANGED <<queue, active, done, hand, sema, pc, apc, freed, results>>

CleanAllTasks_NoSignal ==
    /\ exiting
    /\ queue' = <<>>
    /\ freed' = freed \cup Queued \cup active
    /\ UNCHANGED <<active, done, hand, sema, pc, apc, results, exiting>>

\* CleanAllTasks and Stop, in ~Network.
CleanAllTasks ==
    /\ exiting
    /\ queue' = <<>>
    /\ freed' = freed \cup Queued \cup active
    /\ sema' = 1
    /\ UNCHANGED <<active, done, hand, pc, apc, results, exiting>>
-----------------------------------------------------------------------------
(* The network thread.                                                     *)

Top ==
    /\ pc = "top"
    /\ pc' = IF exiting THEN "off" ELSE IF AllCompleted THEN "wait" ELSE "submit"
    /\ UNCHANGED <<queue, active, done, hand, sema, apc, freed, results, exiting>>

Wait ==
    /\ pc = "wait" /\ sema = 1
    /\ sema' = 0 /\ pc' = "submit"
    /\ UNCHANGED <<queue, active, done, hand, apc, freed, results, exiting>>

\* The loop condition is read without the lock.
Submit ==
    /\ pc = "submit"
    /\ pc' = IF queue # <<>> /\ Cardinality(active) < MaxConcurrent THEN "pop" ELSE "perform"
    /\ UNCHANGED <<queue, active, done, hand, sema, apc, freed, results, exiting>>

\* front() of a queue that was cleaned in between is undefined behaviour.
Pop ==
    /\ pc = "pop"
    /\ IF queue = <<>>
       THEN pc' = "undefined" /\ UNCHANGED <<queue, hand>>
       ELSE hand' = {Head(queue)} /\ queue' = Tail(queue) /\ pc' = "open"
    /\ UNCHANGED <<active, done, sema, apc, freed, results, exiting>>

\* No curl handle, or no file: the task is deleted, its callback never called.
SubmitFails ==
    /\ pc = "open"
    /\ freed' = freed \cup hand /\ hand' = {}
    /\ pc' = "submit"
    /\ UNCHANGED <<queue, active, done, sema, apc, results, exiting>>

Activate ==
    /\ pc = "open"
    /\ active' = active \cup hand /\ hand' = {}
    /\ file' = [t \in Task |-> IF t \in hand \cap Download THEN "partial" ELSE file[t]]
    /\ pc' = "submit"
    /\ UNCHANGED <<queue, done, sema, apc, freed, called, exiting>>

\* curl_multi_perform and curl_multi_wait: any transfers may have ended.
Perform ==
    /\ pc = "perform"
    /\ done' \in { done \cup S : S \in SUBSET active }
    /\ pc' = "results"
    /\ UNCHANGED <<queue, active, hand, sema, apc, freed, results, exiting>>

NoResult ==
    /\ pc = "results" /\ done = {}
    /\ pc' = "top"
    /\ UNCHANGED <<queue, active, done, hand, sema, apc, freed, results, exiting>>

DownloadEnds_KeepsFile(t) ==
    /\ pc = "results" /\ t \in done \cap Download
    /\ \/ file' = [file EXCEPT ![t] = "whole"]
       \/ UNCHANGED file
    /\ done' = done \ {t} /\ pc' = "erase" /\ hand' = {t}
    /\ UNCHANGED <<queue, active, sema, apc, freed, called, exiting>>

\* A download that failed removes its file.
DownloadEnds(t) ==
    /\ pc = "results" /\ t \in done \cap Download
    /\ \/ file' = [file EXCEPT ![t] = "whole"]
       \/ file' = [file EXCEPT ![t] = "none"]
    /\ done' = done \ {t} /\ pc' = "erase" /\ hand' = {t}
    /\ UNCHANGED <<queue, active, sema, apc, freed, called, exiting>>

CallbackEnds_KeepsMessage(t) ==
    /\ pc = "results" /\ t \in done \ Download
    /\ called' = [called EXCEPT ![t] = @ + 1]
    /\ UNCHANGED <<queue, sema>>
    /\ hand' = {t}
    /\ UNCHANGED <<active, pc, done, apc, freed, file, exiting>>

\* The callback is called whether the transfer worked or not; it may add a
\* task (rc_client answers with its next request).
CallbackEnds(t) ==
    /\ pc = "results" /\ t \in done \ Download
    /\ called' = [called EXCEPT ![t] = @ + 1]
    /\ \/ UNCHANGED <<queue, sema>>
       \/ \E n \in New : queue' = Append(queue, n) /\ sema' = 1
    /\ done' = done \ {t} /\ pc' = "erase" /\ hand' = {t}
    /\ UNCHANGED <<active, apc, freed, file, exiting>>

Erase ==
    /\ pc = "erase"
    /\ freed' = freed \cup hand /\ active' = active \ hand /\ hand' = {}
    /\ pc' = "results"
    /\ UNCHANGED <<queue, done, sema, apc, results, exiting>>

NetworkThread ==
    \/ Top \/ Wait \/ Submit \/ Pop \/ SubmitFails \/ Activate \/ Perform
    \/ NoResult \/ Erase
    \/ \E t \in Task : DownloadEnds(t) \/ CallbackEnds(t)

Others ==
    \/ \E a \in Adder : Push(a) \/ SignalAdded(a)
    \/ CleanTaskQueue \/ Exit \/ CleanAllTasks

Next == NetworkThread \/ Others

Spec == Init /\ [][Next]_vars

\* The network thread runs, adders go on to Signal, and curl ends every
\* transfer sooner or later (CURLOPT_TIMEOUT is not set: this is the peer's).
Fairness ==
    /\ WF_vars(NetworkThread)
    /\ WF_vars(CleanAllTasks)
    /\ \A a \in Adder : WF_vars(SignalAdded(a))
    /\ \A t \in Task : SF_vars(Perform /\ t \in done')

FairSpec == Spec /\ Fairness
-----------------------------------------------------------------------------
Points == {"top", "wait", "submit", "pop", "open", "perform", "results", "erase",
           "off", "undefined"}

TypeOK ==
    /\ queue \in Seq(Task)
    /\ active \subseteq Task /\ done \subseteq active
    /\ hand \subseteq Task /\ freed \subseteq Task
    /\ sema \in 0 .. 1 /\ pc \in Points
    /\ apc \in [Adder -> {"idle", "pushed"}]
    /\ called \in [Task -> Nat]
    /\ file \in [Task -> {"none", "partial", "whole"}]
    /\ exiting \in BOOLEAN

\* The thread sleeps, with no token to wake it, only while nothing is queued
\* or while the thread that queued has yet to Signal: no AddTask is lost.
NoLostWakeup ==
    pc = "wait" /\ sema = 0 /\ queue # <<>> => \E a \in Adder : apc[a] = "pushed"

\* A task is in one place at a time, in the queue once, and what is in the
\* queue, in hand or with curl was not deleted.  Of what is with curl this only
\* holds until the application exits: CleanAllTasks deletes the active tasks and
\* leaves them in the map.
OneOwner ==
    /\ \A i, j \in 1 .. Len(queue) : queue[i] = queue[j] => i = j
    /\ Queued \cap (active \cup hand) = {}
    /\ pc = "open" => hand \cap active = {}
    /\ freed \cap Queued = {}
    /\ ~exiting => freed \cap (active \cup hand) = {}

\* A task ends once: no callback is called twice, and none is called for a
\* task whose transfer is still running.
CalledOnce ==
    \A t \in Task : called[t] <= 1 /\ (called[t] = 1 => t \in freed \/ hand = {t})

\* The files of downloads that ended are whole or gone, unless the application
\* left in the middle of them.
NoHalfFile ==
    ~exiting => \A t \in freed : file[t] # "partial"

\* Never more transfers than the pool allows.
PoolBound == Cardinality(active) <= MaxConcurrent

\* Every task that was queued is carried out, or dropped, and deleted.
EveryTaskEnds ==
    \A t \in Task : t \in Queued ~> t \in freed \/ exiting \/ pc = "undefined"

\* The network thread ends when the application does, asleep or not.
ThreadEnds == exiting ~> pc \in {"off", "undefined"}
================================================================================
