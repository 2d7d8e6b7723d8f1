------------------------------ MODULE MainSync ------------------------------
(***************************************************************************)
(* How main (mwget.cpp) and the download threads synchronise: two mutexes  *)
(* with a condition variable each and, in neither case, a predicate that   *)
(* is tested around the wait.                                              *)
(*                                                                         *)
(*  - main sleeps on first_connect until thread 0 has heard of the server, *)
(*    then reads g_first_connect_result and creates the other threads;     *)
(*  - main sleeps on all_finished and counts every wakeup as one thread    *)
(*    that has finished.                                                   *)
(*                                                                         *)
(* What a thread downloads is left out (module Download): here it runs,    *)
(* and then leaves in one of the ways retr_thread_func has.                *)
(***************************************************************************)
EXTENDS Integers, FiniteSets

CONSTANT N      \* g_thread_count

ASSUME NAssumption == N \in Nat \ {0}

Threads == 0 .. N - 1

Nobody == -1
MainId == -2

VARIABLES
    supported,      \* is the URL's scheme HTTP or FTP?
    spurious,       \* may pthread_cond_wait return without a signal?
    mpc,            \* where main is; "wait1" and "wait2" are the two wait sets
    created,        \* threads created so far are 0 .. created - 1
    completed,      \* g_completed_thread_count
    first,          \* g_first_connect_result: 1, then 0 or -1
    firstMutex,     \* holder of g_mutex_first_connect_finished
    allMutex,       \* holder of g_mutex_all_finished
    wpc,            \* where each thread is
    cycle,          \* cycle_no of thread 0
    verdict, next,  \* what a thread is to publish, and where it goes then
    missed, lost    \* history: was the first signal missed, farewells nobody heard

mainVars   == <<mpc, created, completed>>
mutexVars  == <<firstMutex, allMutex>>
threadVars == <<supported, spurious, wpc, cycle, verdict, next>>
history    == <<missed, lost>>
vars == <<mainVars, mutexVars, threadVars, history, first>>

MainLabels == {"start", "lock1", "enter1", "wait1", "woken1", "unlock1", "test",
               "create", "lock2", "loop", "wait2", "woken2", "unlock2", "gone"}
ThreadLabels == {"absent", "run", "lockF", "signalF", "unlockF",
                 "lockA", "signalA", "unlockA", "exited", "returned"}

Init ==
    /\ supported \in BOOLEAN
    /\ spurious \in BOOLEAN
    /\ mpc = "start"
    /\ created = 0
    /\ completed = 0
    /\ first = 1
    /\ firstMutex = Nobody
    /\ allMutex = Nobody
    /\ wpc = [t \in Threads |-> "absent"]
    /\ cycle = 0
    /\ verdict = [t \in Threads |-> 0]
    /\ next = [t \in Threads |-> "run"]
    /\ missed = FALSE
    /\ lost = 0

MainGo(from, to) == mpc = from /\ mpc' = to

\* Threads live as long as main has not returned.
ThreadGo(t, from, to) ==
    mpc # "gone" /\ wpc[t] = from /\ wpc' = [wpc EXCEPT ![t] = to]

-----------------------------------------------------------------------------
(* main: the first connection *)

CreateFirst ==
    /\ MainGo("start", "lock1")
    /\ created' = 1
    /\ wpc' = [wpc EXCEPT ![0] = "run"]
    /\ UNCHANGED <<completed, mutexVars, supported, spurious, cycle, verdict, next, history,
                   first>>

LockFirst ==
    /\ MainGo("lock1", "enter1")
    /\ firstMutex = Nobody /\ firstMutex' = MainId
    /\ UNCHANGED <<created, completed, allMutex, threadVars, history, first>>

\* Mutant: main does not wait for the signal.
WaitFirst_Forgotten ==
    /\ MainGo("enter1", "unlock1")
    /\ UNCHANGED <<created, completed, mutexVars, threadVars, history, first>>

WaitFirst ==
    /\ MainGo("enter1", "wait1")
    /\ firstMutex' = Nobody
    /\ UNCHANGED <<created, completed, allMutex, threadVars, history, first>>

\* pthread_cond_wait takes the mutex again before it returns.
WakeFirst ==
    /\ MainGo("woken1", "unlock1")
    /\ firstMutex = Nobody /\ firstMutex' = MainId
    /\ UNCHANGED <<created, completed, allMutex, threadVars, history, first>>

UnlockFirst ==
    /\ MainGo("unlock1", "test")
    /\ firstMutex' = Nobody
    /\ UNCHANGED <<created, completed, allMutex, threadVars, history, first>>

\* Mutant: takes "not heard yet" for success.
TestFirst_NotFailed ==
    /\ MainGo("test", IF first # -1 THEN "create" ELSE "gone")
    /\ UNCHANGED <<created, completed, mutexVars, threadVars, history, first>>

\* The result is read after the mutex has been released.
TestFirst ==
    /\ MainGo("test", IF first = 0 THEN "create" ELSE "gone")
    /\ UNCHANGED <<created, completed, mutexVars, threadVars, history, first>>

CreateNext ==
    /\ mpc = "create"
    /\ IF created < N
          THEN /\ wpc' = [wpc EXCEPT ![created] = "run"]
               /\ created' = created + 1
               /\ UNCHANGED mpc
          ELSE mpc' = "lock2" /\ UNCHANGED <<wpc, created>>
    /\ UNCHANGED <<completed, mutexVars, supported, spurious, cycle, verdict, next, history,
                   first>>

-----------------------------------------------------------------------------
(* main: waiting for all threads *)

LockAll ==
    /\ MainGo("lock2", "loop")
    /\ allMutex = Nobody /\ allMutex' = MainId
    /\ UNCHANGED <<created, completed, firstMutex, threadVars, history, first>>

WaitAll ==
    /\ completed < N
    /\ MainGo("loop", "wait2")
    /\ allMutex' = Nobody
    /\ UNCHANGED <<created, completed, firstMutex, threadVars, history, first>>

WakeAll ==
    /\ MainGo("woken2", "loop")
    /\ allMutex = Nobody /\ allMutex' = MainId
    /\ completed' = completed + 1
    /\ UNCHANGED <<created, firstMutex, threadVars, history, first>>

\* Mutant: does not wait for the last thread.
ReportCompleted_OneShort ==
    /\ completed >= N - 1
    /\ MainGo("loop", "unlock2")
    /\ UNCHANGED <<created, completed, mutexVars, threadVars, history, first>>

\* " task finished completed"
ReportCompleted ==
    /\ completed >= N
    /\ MainGo("loop", "unlock2")
    /\ UNCHANGED <<created, completed, mutexVars, threadVars, history, first>>

UnlockAll ==
    /\ MainGo("unlock2", "gone")
    /\ allMutex' = Nobody
    /\ UNCHANGED <<created, completed, firstMutex, threadVars, history, first>>

SpuriousWakeup ==
    /\ spurious
    /\ MainGo("wait1", "woken1") \/ MainGo("wait2", "woken2")
    /\ UNCHANGED <<created, completed, mutexVars, threadVars, history, first>>

-----------------------------------------------------------------------------
(* The threads *)

Unsupported(t) ==
    /\ ~ supported
    /\ ThreadGo(t, "run", "returned")
    /\ UNCHANGED <<mainVars, mutexVars, supported, spurious, cycle, verdict, next, history,
                   first>>

\* How thread t goes on to publish v as the result of the first connection.
Publish(t, v, then) ==
    /\ supported
    /\ ThreadGo(t, "run", "lockF")
    /\ verdict' = [verdict EXCEPT ![t] = v]
    /\ next' = [next EXCEPT ![t] = then]
    /\ UNCHANGED <<mainVars, mutexVars, supported, spurious, history, first>>

ProbeOk(t) ==
    /\ t = 0 /\ cycle = 0
    /\ Publish(t, 0, "run")
    /\ cycle' = 1

ConnectGivesUp(t) ==
    /\ t = 0 /\ cycle = 0
    /\ Publish(t, -1, "returned")
    /\ UNCHANGED cycle

\* Any thread, at any time, may meet ConnRetry refusals in a row.
ValidGivesUp(t) ==
    /\ Publish(t, -1, "lockA")
    /\ UNCHANGED cycle

\* Mutant: returns without a farewell.
Finish_Silently(t) ==
    /\ supported
    /\ t = 0 => cycle = 1
    /\ ThreadGo(t, "run", "exited")
    /\ UNCHANGED <<mainVars, mutexVars, supported, spurious, cycle, verdict, next, history,
                   first>>

Finish(t) ==
    /\ supported
    /\ t = 0 => cycle = 1
    /\ ThreadGo(t, "run", "lockA")
    /\ UNCHANGED <<mainVars, mutexVars, supported, spurious, cycle, verdict, next, history,
                   first>>

ThreadLocksFirst(t) ==
    /\ ThreadGo(t, "lockF", "signalF")
    /\ firstMutex = Nobody /\ firstMutex' = t
    /\ UNCHANGED <<mainVars, allMutex, supported, spurious, cycle, verdict, next, history,
                   first>>

\* A signal wakes main if it is in the wait set and is forgotten otherwise.
SignalFirst(t) ==
    /\ ThreadGo(t, "signalF", "unlockF")
    /\ first' = verdict[t]
    /\ mpc' = IF mpc = "wait1" THEN "woken1" ELSE mpc
    /\ missed' = (missed \/ mpc \in {"start", "lock1", "enter1"})
    /\ UNCHANGED <<created, completed, mutexVars, supported, spurious, cycle, verdict, next,
                   lost>>

\* Mutant: the early return keeps the mutex.
ThreadUnlocksFirst_UnlessReturning(t) ==
    /\ ThreadGo(t, "unlockF", next[t])
    /\ firstMutex' = IF next[t] = "returned" THEN firstMutex ELSE Nobody
    /\ UNCHANGED <<mainVars, allMutex, supported, spurious, cycle, verdict, next, history,
                   first>>

ThreadUnlocksFirst(t) ==
    /\ ThreadGo(t, "unlockF", next[t])
    /\ firstMutex' = Nobody
    /\ UNCHANGED <<mainVars, allMutex, supported, spurious, cycle, verdict, next, history,
                   first>>

ThreadLocksAll(t) ==
    /\ ThreadGo(t, "lockA", "signalA")
    /\ allMutex = Nobody /\ allMutex' = t
    /\ UNCHANGED <<mainVars, firstMutex, supported, spurious, cycle, verdict, next, history,
                   first>>

SignalAll(t) ==
    /\ ThreadGo(t, "signalA", "unlockA")
    /\ mpc' = IF mpc = "wait2" THEN "woken2" ELSE mpc
    /\ lost' = IF mpc = "wait2" THEN lost ELSE lost + 1
    /\ UNCHANGED <<created, completed, mutexVars, supported, spurious, cycle, verdict, next,
                   missed, first>>

ThreadUnlocksAll(t) ==
    /\ ThreadGo(t, "unlockA", "exited")
    /\ allMutex' = Nobody
    /\ UNCHANGED <<mainVars, firstMutex, supported, spurious, cycle, verdict, next, history,
                   first>>

-----------------------------------------------------------------------------
Main ==
    \/ CreateFirst \/ LockFirst \/ WaitFirst \/ WakeFirst \/ UnlockFirst
    \/ TestFirst \/ CreateNext
    \/ LockAll \/ WaitAll \/ WakeAll \/ ReportCompleted \/ UnlockAll

Thread(t) ==
    \/ Unsupported(t) \/ ProbeOk(t) \/ ConnectGivesUp(t) \/ ValidGivesUp(t)
    \/ Finish(t)
    \/ ThreadLocksFirst(t) \/ SignalFirst(t) \/ ThreadUnlocksFirst(t)
    \/ ThreadLocksAll(t) \/ SignalAll(t) \/ ThreadUnlocksAll(t)

Next == Main \/ SpuriousWakeup \/ \E t \in Threads : Thread(t)

Spec == Init /\ [][Next]_vars

\* Every thread of the process is scheduled and every download comes to an end
\* (module Download, Terminates).  A mutex is not handed over in any order, but
\* no thread takes one again and again.
FairSpec == Spec /\ WF_vars(Main) /\ \A t \in Threads : WF_vars(Thread(t))

-----------------------------------------------------------------------------
(* Properties *)

\* The variables have their types.
TypeOK ==
    /\ supported \in BOOLEAN
    /\ spurious \in BOOLEAN
    /\ mpc \in MainLabels
    /\ created \in 0 .. N
    /\ completed \in Nat
    /\ first \in {1, 0, -1}
    /\ firstMutex \in Threads \cup {Nobody, MainId}
    /\ allMutex \in Threads \cup {Nobody, MainId}
    /\ wpc \in [Threads -> ThreadLabels]
    /\ cycle \in {0, 1}
    /\ verdict \in [Threads -> {0, -1}]
    /\ next \in [Threads -> {"run", "returned", "lockA"}]
    /\ missed \in BOOLEAN
    /\ lost \in Nat

\* The threads that have signalled all_finished.
SaidFarewell == {t \in Threads : wpc[t] \in {"unlockA", "exited"}}

\* Without spurious wakeups every farewell was counted by main, is about to be
\* (main is awake but has not got the mutex back) or was lost: none counts twice
\* and main counts nothing else (mwget.cpp:219-224).
FarewellsAccounted ==
    ~ spurious =>
        Cardinality(SaidFarewell) =
            completed + lost + (IF mpc = "woken2" THEN 1 ELSE 0)

\* Without spurious wakeups main reports the task as completed only when every
\* thread has signalled that it is done.
CompletedMeansAllDone ==
    ~ spurious /\ mpc = "unlock2" => SaidFarewell = Threads

\* No second connection is opened before the first thread has heard from the
\* server, even if main is woken for no reason.
OthersWaitForFirst ==
    \A t \in Threads : t # 0 /\ wpc[t] # "absent" => cycle = 1

\* Main gives up only if some thread has given up (without spurious wakeups).
GivesUpForAReason ==
    ~ spurious /\ mpc = "gone" /\ completed < N => first = -1

\* For a supported scheme, the only thing that keeps main from ending is a signal
\* sent while it was not waiting.
OnlyLostSignalsHang == supported ~> (mpc = "gone" \/ missed \/ lost > 0)

\* The readme: "the first thread tests whether the server is available; if it
\* is, the other threads are started" (readme.txt:1).
AvailableStartsOthers == (first = 0 /\ ~ spurious) ~> (created > 1 \/ first = -1)

\* The readme: "2.26: corrected the faulty exit, in signal handling and thread
\* synchronisation" (readme.txt:12): when all threads are done, main ends.
AllDoneEnds ==
    (~ spurious /\ \A t \in Threads : wpc[t] = "exited") ~> (mpc = "gone")
=============================================================================
