--------------------------- MODULE MainSyncProofs ---------------------------
(***************************************************************************)
(* Theorems about the synchronisation of main with the threads, for every  *)
(* number of threads.                                                      *)
(*                                                                         *)
(*  - OthersWait holds even if pthread_cond_wait returns for no reason:    *)
(*    the test of g_first_connect_result after it protects the creation of *)
(*    the other threads.  Base is inductive.                               *)
(*  - Completion and Reason hold without spurious wakeups only, because    *)
(*    neither wait is in a loop that tests a predicate.  The invariant     *)
(*    CountInv balances the signals sent against those counted and lost;   *)
(*    with Base it bounds completed by the number of farewells, and N      *)
(*    farewells are all of them.                                           *)
(***************************************************************************)
EXTENDS MainSync, FiniteSetTheorems, TLAPS

\* Which threads exist, and what main and thread 0 know of the server.
ProbeInv ==
    /\ mpc = "start" => created = 0
    /\ \A t \in Threads : t >= created => wpc[t] = "absent"
    /\ mpc # "start" => created >= 1
    /\ mpc = "unlock2" => completed >= N
    /\ created > 1 \/ mpc = "create" => cycle = 1
    /\ first = 0 => cycle = 1
    /\ \A t \in Threads :
          wpc[t] \in {"lockF", "signalF"} /\ verdict[t] = 0 => cycle = 1

\* Types and ProbeInv together are inductive.
Base == TypeOK /\ ProbeInv

\* No step breaks Base, spurious wakeups included.
LEMMA BaseStep == Base /\ [Next]_vars => Base'
<1> SUFFICES ASSUME Base, [Next]_vars PROVE Base'
  OBVIOUS
<1>1. ASSUME CreateFirst PROVE Base'
  <2>1. /\ mpc' \in MainLabels
        /\ created' \in 0 .. N
        /\ wpc' \in [Threads -> ThreadLabels]
    BY <1>1, NAssumption DEF CreateFirst, MainGo, MainLabels, ThreadLabels, Base,
              TypeOK, ProbeInv, Threads
  <2>2. UNCHANGED <<supported, spurious, completed, first, firstMutex, allMutex, cycle, verdict,
            next, missed, lost>>
    BY <1>1 DEF CreateFirst, MainGo, mainVars, mutexVars, threadVars, history
  <2>3. ProbeInv'
    BY <1>1, <2>2, NAssumption DEF CreateFirst, MainGo, Base, TypeOK, ProbeInv, Threads
  <2> QED
    BY <2>1, <2>2, <2>3 DEF Base, TypeOK
<1>2. ASSUME LockFirst PROVE Base'
  <2>1. /\ mpc' \in MainLabels
        /\ firstMutex' \in Threads \cup {Nobody, MainId}
    BY <1>2, NAssumption DEF LockFirst, MainGo, MainLabels, Nobody, MainId, Base,
              TypeOK, ProbeInv, Threads
  <2>2. UNCHANGED <<supported, spurious, created, completed, first, allMutex, wpc, cycle,
            verdict, next, missed, lost>>
    BY <1>2 DEF LockFirst, MainGo, mainVars, mutexVars, threadVars, history
  <2>3. ProbeInv'
    BY <1>2, <2>2, NAssumption DEF LockFirst, MainGo, Base, TypeOK, ProbeInv, Threads
  <2> QED
    BY <2>1, <2>2, <2>3 DEF Base, TypeOK
<1>3. ASSUME WaitFirst PROVE Base'
  <2>1. /\ mpc' \in MainLabels
        /\ firstMutex' \in Threads \cup {Nobody, MainId}
    BY <1>3, NAssumption DEF WaitFirst, MainGo, MainLabels, Nobody, MainId, Base,
              TypeOK, ProbeInv, Threads
  <2>2. UNCHANGED <<supported, spurious, created, completed, first, allMutex, wpc, cycle,
            verdict, next, missed, lost>>
    BY <1>3 DEF WaitFirst, MainGo, mainVars, mutexVars, threadVars, history
  <2>3. ProbeInv'
    BY <1>3, <2>2, NAssumption DEF WaitFirst, MainGo, Base, TypeOK, ProbeInv, Threads
  <2> QED
    BY <2>1, <2>2, <2>3 DEF Base, TypeOK
<1>4. ASSUME WakeFirst PROVE Base'
  <2>1. /\ mpc' \in MainLabels
        /\ firstMutex' \in Threads \cup {Nobody, MainId}
    BY <1>4, NAssumption DEF WakeFirst, MainGo, MainLabels, Nobody, MainId, Base,
              TypeOK, ProbeInv, Threads
  <2>2. UNCHANGED <<supported, spurious, created, completed, first, allMutex, wpc, cycle,
            verdict, next, missed, lost>>
    BY <1>4 DEF WakeFirst, MainGo, mainVars, mutexVars, threadVars, history
  <2>3. ProbeInv'
    BY <1>4, <2>2, NAssumption DEF WakeFirst, MainGo, Base, TypeOK, ProbeInv, Threads
  <2> QED
    BY <2>1, <2>2, <2>3 DEF Base, TypeOK
<1>5. ASSUME UnlockFirst PROVE Base'
  <2>1. /\ mpc' \in MainLabels
        /\ firstMutex' \in Threads \cup {Nobody, MainId}
    BY <1>5, NAssumption DEF UnlockFirst, MainGo, MainLabels, Nobody, MainId, Base,
              TypeOK, ProbeInv, Threads
  <2>2. UNCHANGED <<supported, spurious, created, completed, first, allMutex, wpc, cycle,
            verdict, next, missed, lost>>
    BY <1>5 DEF UnlockFirst, MainGo, mainVars, mutexVars, threadVars, history
  <2>3. ProbeInv'
    BY <1>5, <2>2, NAssumption DEF UnlockFirst, MainGo, Base, TypeOK, ProbeInv, Threads
  <2> QED
    BY <2>1, <2>2, <2>3 DEF Base, TypeOK
<1>6. ASSUME TestFirst PROVE Base'
  <2>1. mpc' \in MainLabels
    BY <1>6, NAssumption DEF TestFirst, MainGo, MainLabels, Base, TypeOK, ProbeInv,
              Threads
  <2>2. UNCHANGED <<supported, spurious, created, completed, first, firstMutex, allMutex, wpc,
            cycle, verdict, next, missed, lost>>
    BY <1>6 DEF TestFirst, MainGo, mainVars, mutexVars, threadVars, history
  <2>3. ProbeInv'
    BY <1>6, <2>2, NAssumption DEF TestFirst, MainGo, Base, TypeOK, ProbeInv, Threads
  <2> QED
    BY <2>1, <2>2, <2>3 DEF Base, TypeOK
<1>7. ASSUME CreateNext PROVE Base'
  <2>1. /\ mpc' \in MainLabels
        /\ created' \in 0 .. N
        /\ wpc' \in [Threads -> ThreadLabels]
    BY <1>7, NAssumption DEF CreateNext, MainLabels, ThreadLabels, Base, TypeOK,
              ProbeInv, Threads
  <2>2. UNCHANGED <<supported, spurious, completed, first, firstMutex, allMutex, cycle, verdict,
            next, missed, lost>>
    BY <1>7 DEF CreateNext, mainVars, mutexVars, threadVars, history
  <2>3. ProbeInv'
    BY <1>7, <2>2, NAssumption DEF CreateNext, Base, TypeOK, ProbeInv, Threads
  <2> QED
    BY <2>1, <2>2, <2>3 DEF Base, TypeOK
<1>8. ASSUME LockAll PROVE Base'
  <2>1. /\ mpc' \in MainLabels
        /\ allMutex' \in Threads \cup {Nobody, MainId}
    BY <1>8, NAssumption DEF LockAll, MainGo, MainLabels, Nobody, MainId, Base, TypeOK,
              ProbeInv, Threads
  <2>2. UNCHANGED <<supported, spurious, created, completed, first, firstMutex, wpc, cycle,
            verdict, next, missed, lost>>
    BY <1>8 DEF LockAll, MainGo, mainVars, mutexVars, threadVars, history
  <2>3. ProbeInv'
    BY <1>8, <2>2, NAssumption DEF LockAll, MainGo, Base, TypeOK, ProbeInv, Threads
  <2> QED
    BY <2>1, <2>2, <2>3 DEF Base, TypeOK
<1>9. ASSUME WaitAll PROVE Base'
  <2>1. /\ mpc' \in MainLabels
        /\ allMutex' \in Threads \cup {Nobody, MainId}
    BY <1>9, NAssumption DEF WaitAll, MainGo, MainLabels, Nobody, MainId, Base, TypeOK,
              ProbeInv, Threads
  <2>2. UNCHANGED <<supported, spurious, created, completed, first, firstMutex, wpc, cycle,
            verdict, next, missed, lost>>
    BY <1>9 DEF WaitAll, MainGo, mainVars, mutexVars, threadVars, history
  <2>3. ProbeInv'
    BY <1>9, <2>2, NAssumption DEF WaitAll, MainGo, Base, TypeOK, ProbeInv, Threads
  <2> QED
    BY <2>1, <2>2, <2>3 DEF Base, TypeOK
<1>10. ASSUME WakeAll PROVE Base'
  <2>1. /\ mpc' \in MainLabels
        /\ allMutex' \in Threads \cup {Nobody, MainId}
        /\ completed' \in Nat
    BY <1>10, NAssumption DEF WakeAll, MainGo, MainLabels, Nobody, MainId, Base,
              TypeOK, ProbeInv, Threads
  <2>2. UNCHANGED <<supported, spurious, created, first, firstMutex, wpc, cycle, verdict, next,
            missed, lost>>
    BY <1>10 DEF WakeAll, MainGo, mainVars, mutexVars, threadVars, history
  <2>3. ProbeInv'
    BY <1>10, <2>2, NAssumption DEF WakeAll, MainGo, Base, TypeOK, ProbeInv, Threads
  <2> QED
    BY <2>1, <2>2, <2>3 DEF Base, TypeOK
<1>11. ASSUME ReportCompleted PROVE Base'
  <2>1. mpc' \in MainLabels
    BY <1>11, NAssumption DEF ReportCompleted, MainGo, MainLabels, Base, TypeOK,
              ProbeInv, Threads
  <2>2. UNCHANGED <<supported, spurious, created, completed, first, firstMutex, allMutex, wpc,
            cycle, verdict, next, missed, lost>>
    BY <1>11 DEF ReportCompleted, MainGo, mainVars, mutexVars, threadVars, history
  <2>3. ProbeInv'
    BY <1>11, <2>2, NAssumption DEF ReportCompleted, MainGo, Base, TypeOK, ProbeInv,
              Threads
  <2> QED
    BY <2>1, <2>2, <2>3 DEF Base, TypeOK
<1>12. ASSUME UnlockAll PROVE Base'
  <2>1. /\ mpc' \in MainLabels
        /\ allMutex' \in Threads \cup {Nobody, MainId}
    BY <1>12, NAssumption DEF UnlockAll, MainGo, MainLabels, Nobody, MainId, Base,
              TypeOK, ProbeInv, Threads
  <2>2. UNCHANGED <<supported, spurious, created, completed, first, firstMutex, wpc, cycle,
            verdict, next, missed, lost>>
    BY <1>12 DEF UnlockAll, MainGo, mainVars, mutexVars, threadVars, history
  <2>3. ProbeInv'
    BY <1>12, <2>2, NAssumption DEF UnlockAll, MainGo, Base, TypeOK, ProbeInv, Threads
  <2> QED
    BY <2>1, <2>2, <2>3 DEF Base, TypeOK
<1>13. ASSUME SpuriousWakeup PROVE Base'
  <2>1. mpc' \in MainLabels
    BY <1>13, NAssumption DEF SpuriousWakeup, MainGo, MainLabels, Base, TypeOK,
              ProbeInv, Threads
  <2>2. UNCHANGED <<supported, spurious, created, completed, first, firstMutex, allMutex, wpc,
            cycle, verdict, next, missed, lost>>
    BY <1>13 DEF SpuriousWakeup, MainGo, mainVars, mutexVars, threadVars, history
  <2>3. ProbeInv'
    BY <1>13, <2>2, NAssumption DEF SpuriousWakeup, MainGo, Base, TypeOK, ProbeInv,
              Threads
  <2> QED
    BY <2>1, <2>2, <2>3 DEF Base, TypeOK
<1>14. ASSUME NEW t \in Threads, Unsupported(t) PROVE Base'
  <2>1. wpc' \in [Threads -> ThreadLabels]
    BY <1>14, NAssumption DEF Unsupported, ThreadGo, ThreadLabels, Base, TypeOK,
              ProbeInv, Threads
  <2>2. UNCHANGED <<supported, spurious, mpc, created, completed, first, firstMutex, allMutex,
            cycle, verdict, next, missed, lost>>
    BY <1>14 DEF Unsupported, ThreadGo, mainVars, mutexVars, threadVars, history
  <2>3. ProbeInv'
    BY <1>14, <2>2, NAssumption DEF Unsupported, ThreadGo, Base, TypeOK, ProbeInv,
              Threads
  <2> QED
    BY <2>1, <2>2, <2>3 DEF Base, TypeOK
<1>15. ASSUME NEW t \in Threads, ProbeOk(t) PROVE Base'
  <2>1. /\ wpc' \in [Threads -> ThreadLabels]
        /\ verdict' \in [Threads -> {0, -1}]
        /\ next' \in [Threads -> {"run", "returned", "lockA"}]
        /\ cycle' \in {0, 1}
    BY <1>15, NAssumption DEF ProbeOk, ThreadGo, Publish, ThreadLabels, Base, TypeOK,
              ProbeInv, Threads
  <2>2. UNCHANGED <<supported, spurious, mpc, created, completed, first, firstMutex, allMutex,
            missed, lost>>
    BY <1>15 DEF ProbeOk, ThreadGo, Publish, mainVars, mutexVars, threadVars, history
  <2>3. ProbeInv'
    BY <1>15, <2>2, NAssumption DEF ProbeOk, ThreadGo, Publish, Base, TypeOK, ProbeInv,
              Threads
  <2> QED
    BY <2>1, <2>2, <2>3 DEF Base, TypeOK
<1>16. ASSUME NEW t \in Threads, ConnectGivesUp(t) PROVE Base'
  <2>1. /\ wpc' \in [Threads -> ThreadLabels]
        /\ verdict' \in [Threads -> {0, -1}]
        /\ next' \in [Threads -> {"run", "returned", "lockA"}]
    BY <1>16, NAssumption DEF ConnectGivesUp, ThreadGo, Publish, ThreadLabels, Base,
              TypeOK, ProbeInv, Threads
  <2>2. UNCHANGED <<supported, spurious, mpc, created, completed, first, firstMutex, allMutex,
            cycle, missed, lost>>
    BY <1>16 DEF ConnectGivesUp, ThreadGo, Publish, mainVars, mutexVars, threadVars,
              history
  <2>3. ProbeInv'
    BY <1>16, <2>2, NAssumption DEF ConnectGivesUp, ThreadGo, Publish, Base, TypeOK,
              ProbeInv, Threads
  <2> QED
    BY <2>1, <2>2, <2>3 DEF Base, TypeOK
<1>17. ASSUME NEW t \in Threads, ValidGivesUp(t) PROVE Base'
  <2>1. /\ wpc' \in [Threads -> ThreadLabels]
        /\ verdict' \in [Threads -> {0, -1}]
        /\ next' \in [Threads -> {"run", "returned", "lockA"}]
    BY <1>17, NAssumption DEF ValidGivesUp, ThreadGo, Publish, ThreadLabels, Base,
              TypeOK, ProbeInv, Threads
  <2>2. UNCHANGED <<supported, spurious, mpc, created, completed, first, firstMutex, allMutex,
            cycle, missed, lost>>
    BY <1>17 DEF ValidGivesUp, ThreadGo, Publish, mainVars, mutexVars, threadVars,
              history
  <2>3. ProbeInv'
    BY <1>17, <2>2, NAssumption DEF ValidGivesUp, ThreadGo, Publish, Base, TypeOK,
              ProbeInv, Threads
  <2> QED
    BY <2>1, <2>2, <2>3 DEF Base, TypeOK
<1>18. ASSUME NEW t \in Threads, Finish(t) PROVE Base'
  <2>1. wpc' \in [Threads -> ThreadLabels]
    BY <1>18, NAssumption DEF Finish, ThreadGo, ThreadLabels, Base, TypeOK, ProbeInv,
              Threads
  <2>2. UNCHANGED <<supported, spurious, mpc, created, completed, first, firstMutex, allMutex,
            cycle, verdict, next, missed, lost>>
    BY <1>18 DEF Finish, ThreadGo, mainVars, mutexVars, threadVars, history
  <2>3. ProbeInv'
    BY <1>18, <2>2, NAssumption DEF Finish, ThreadGo, Base, TypeOK, ProbeInv, Threads
  <2> QED
    BY <2>1, <2>2, <2>3 DEF Base, TypeOK
<1>19. ASSUME NEW t \in Threads, ThreadLocksFirst(t) PROVE Base'
  <2>1. /\ wpc' \in [Threads -> ThreadLabels]
        /\ firstMutex' \in Threads \cup {Nobody, MainId}
    BY <1>19, NAssumption DEF ThreadLocksFirst, ThreadGo, ThreadLabels, Nobody, MainId,
              Base, TypeOK, ProbeInv, Threads
  <2>2. UNCHANGED <<supported, spurious, mpc, created, completed, first, allMutex, cycle,
            verdict, next, missed, lost>>
    BY <1>19 DEF ThreadLocksFirst, ThreadGo, mainVars, mutexVars, threadVars, history
  <2>3. ProbeInv'
    BY <1>19, <2>2, NAssumption DEF ThreadLocksFirst, ThreadGo, Base, TypeOK, ProbeInv,
              Threads
  <2> QED
    BY <2>1, <2>2, <2>3 DEF Base, TypeOK
<1>20. ASSUME NEW t \in Threads, SignalFirst(t) PROVE Base'
  <2>1. /\ wpc' \in [Threads -> ThreadLabels]
        /\ first' \in {1, 0, -1}
        /\ mpc' \in MainLabels
        /\ missed' \in BOOLEAN
    BY <1>20, NAssumption DEF SignalFirst, ThreadGo, ThreadLabels, MainLabels, Base,
              TypeOK, ProbeInv, Threads
  <2>2. UNCHANGED <<supported, spurious, created, completed, firstMutex, allMutex, cycle,
            verdict, next, lost>>
    BY <1>20 DEF SignalFirst, ThreadGo, mainVars, mutexVars, threadVars, history
  <2>3. ProbeInv'
    BY <1>20, <2>2, NAssumption DEF SignalFirst, ThreadGo, Base, TypeOK, ProbeInv,
              Threads
  <2> QED
    BY <2>1, <2>2, <2>3 DEF Base, TypeOK
<1>21. ASSUME NEW t \in Threads, ThreadUnlocksFirst(t) PROVE Base'
  <2>1. /\ wpc' \in [Threads -> ThreadLabels]
        /\ firstMutex' \in Threads \cup {Nobody, MainId}
    BY <1>21, NAssumption DEF ThreadUnlocksFirst, ThreadGo, ThreadLabels, Nobody,
              MainId, Base, TypeOK, ProbeInv, Threads
  <2>2. UNCHANGED <<supported, spurious, mpc, created, completed, first, allMutex, cycle,
            verdict, next, missed, lost>>
    BY <1>21 DEF ThreadUnlocksFirst, ThreadGo, mainVars, mutexVars, threadVars, history
  <2>3. ProbeInv'
    BY <1>21, <2>2, NAssumption DEF ThreadUnlocksFirst, ThreadGo, Base, TypeOK,
              ProbeInv, Threads
  <2> QED
    BY <2>1, <2>2, <2>3 DEF Base, TypeOK
<1>22. ASSUME NEW t \in Threads, ThreadLocksAll(t) PROVE Base'
  <2>1. /\ wpc' \in [Threads -> ThreadLabels]
        /\ allMutex' \in Threads \cup {Nobody, MainId}
    BY <1>22, NAssumption DEF ThreadLocksAll, ThreadGo, ThreadLabels, Nobody, MainId,
              Base, TypeOK, ProbeInv, Threads
  <2>2. UNCHANGED <<supported, spurious, mpc, created, completed, first, firstMutex, cycle,
            verdict, next, missed, lost>>
    BY <1>22 DEF ThreadLocksAll, ThreadGo, mainVars, mutexVars, threadVars, history
  <2>3. ProbeInv'
    BY <1>22, <2>2, NAssumption DEF ThreadLocksAll, ThreadGo, Base, TypeOK, ProbeInv,
              Threads
  <2> QED
    BY <2>1, <2>2, <2>3 DEF Base, TypeOK
<1>23. ASSUME NEW t \in Threads, SignalAll(t) PROVE Base'
  <2>1. /\ wpc' \in [Threads -> ThreadLabels]
        /\ mpc' \in MainLabels
        /\ lost' \in Nat
    BY <1>23, NAssumption DEF SignalAll, ThreadGo, ThreadLabels, MainLabels, Base,
              TypeOK, ProbeInv, Threads
  <2>2. UNCHANGED <<supported, spurious, created, completed, first, firstMutex, allMutex, cycle,
            verdict, next, missed>>
    BY <1>23 DEF SignalAll, ThreadGo, mainVars, mutexVars, threadVars, history
  <2>3. ProbeInv'
    BY <1>23, <2>2, NAssumption DEF SignalAll, ThreadGo, Base, TypeOK, ProbeInv, Threads
  <2> QED
    BY <2>1, <2>2, <2>3 DEF Base, TypeOK
<1>24. ASSUME NEW t \in Threads, ThreadUnlocksAll(t) PROVE Base'
  <2>1. /\ wpc' \in [Threads -> ThreadLabels]
        /\ allMutex' \in Threads \cup {Nobody, MainId}
    BY <1>24, NAssumption DEF ThreadUnlocksAll, ThreadGo, ThreadLabels, Nobody, MainId,
              Base, TypeOK, ProbeInv, Threads
  <2>2. UNCHANGED <<supported, spurious, mpc, created, completed, first, firstMutex, cycle,
            verdict, next, missed, lost>>
    BY <1>24 DEF ThreadUnlocksAll, ThreadGo, mainVars, mutexVars, threadVars, history
  <2>3. ProbeInv'
    BY <1>24, <2>2, NAssumption DEF ThreadUnlocksAll, ThreadGo, Base, TypeOK, ProbeInv,
              Threads
  <2> QED
    BY <2>1, <2>2, <2>3 DEF Base, TypeOK
<1>25. CASE UNCHANGED vars
  BY <1>25 DEF Base, TypeOK, ProbeInv, vars, mainVars, mutexVars, threadVars, history
<1> QED
  BY <1>1, <1>2, <1>3, <1>4, <1>5, <1>6, <1>7, <1>8, <1>9, <1>10, <1>11, <1>12, <1>13,
            <1>14, <1>15, <1>16, <1>17, <1>18, <1>19, <1>20, <1>21, <1>22, <1>23,
            <1>24, <1>25 DEF Next, Main, Thread

\* Base holds at the start.
LEMMA BaseInit == Init => Base
<1> SUFFICES ASSUME Init PROVE Base
  OBVIOUS
<1>1. supported \in BOOLEAN /\ spurious \in BOOLEAN
  BY Zenon DEF Init
<1>2. mpc \in MainLabels /\ wpc \in [Threads -> ThreadLabels]
  BY DEF Init, MainLabels, ThreadLabels
<1>3. created \in 0 .. N /\ completed \in Nat /\ cycle \in {0, 1} /\ lost \in Nat
  BY NAssumption DEF Init
<1>4. verdict \in [Threads -> {0, -1}] /\ next \in [Threads -> {"run", "returned",
          "lockA"}]
  BY DEF Init
<1>5. first \in {1, 0, -1} /\ missed \in BOOLEAN
      /\ {firstMutex, allMutex} \subseteq Threads \cup {Nobody, MainId}
  BY DEF Init
<1>6. ProbeInv
  BY DEF Init, ProbeInv
<1> QED
  BY <1>1, <1>2, <1>3, <1>4, <1>5, <1>6 DEF Base, TypeOK

\* No second connection is opened before the first thread has heard from the
\* server (mwget.cpp:151-173), with or without spurious wakeups.
THEOREM OthersWait == Spec => []OthersWaitForFirst
<1>1. Init => Base
  BY BaseInit
<1>2. Base /\ [Next]_vars => Base'
  BY BaseStep
<1>3. Base => OthersWaitForFirst
  BY NAssumption DEF Base, TypeOK, ProbeInv, OthersWaitForFirst, Threads
<1> QED
  BY <1>1, <1>2, <1>3, PTL DEF Spec

\* The state of main and of the threads (mwget.cpp:96-226, 330-650) keeps its types,
\* whether or not a wait returns for no reason.
THEOREM SyncTypes == Spec => []TypeOK
<1>1. Base => TypeOK
  BY DEF Base
<1> QED
  BY <1>1, BaseInit, BaseStep, PTL DEF Spec

-----------------------------------------------------------------------------
\* A signal that has woken main and is not counted yet.
Awake == IF mpc = "woken2" THEN 1 ELSE 0

\* FarewellsAccounted with its condition taken out.
CountInv == Cardinality(SaidFarewell) = completed + lost + Awake

\* What main makes of the first result.
ReasonInv ==
    /\ mpc \in {"woken1", "unlock1", "test"} => first # 1
    /\ mpc = "gone" /\ completed < N => first = -1

\* There are N threads.
LEMMA ThreadsFinite == IsFiniteSet(Threads) /\ Cardinality(Threads) = N
  BY NAssumption, FS_Interval DEF Threads

\* The farewells can be counted.
LEMMA FarewellFinite == IsFiniteSet(SaidFarewell)
  BY ThreadsFinite, FS_Subset DEF SaidFarewell

\* Every signal is counted once, or lost (mwget.cpp:219-224, 644-646).
LEMMA CountStep == ~ spurious /\ Base /\ CountInv /\ [Next]_vars => CountInv'
<1> SUFFICES ASSUME ~ spurious, Base, CountInv, [Next]_vars PROVE CountInv'
  OBVIOUS
<1>1. ASSUME NEW t \in Threads, SignalAll(t) PROVE CountInv'
  <2>1. SaidFarewell' = SaidFarewell \cup {t} /\ t \notin SaidFarewell
    BY <1>1 DEF SignalAll, ThreadGo, SaidFarewell, Base, TypeOK
  <2>2. Cardinality(SaidFarewell') = Cardinality(SaidFarewell) + 1
    BY <2>1, FarewellFinite, FS_AddElement
  <2>3. completed' + lost' + Awake' = completed + lost + Awake + 1
    BY <1>1 DEF SignalAll, ThreadGo, Awake, Base, TypeOK
  <2> QED
    BY <2>2, <2>3 DEF CountInv
<1>2. ASSUME Main PROVE CountInv'
  <2>1. CASE CreateFirst
    <3>1. SaidFarewell' = SaidFarewell
      BY <2>1 DEF CreateFirst, MainGo, SaidFarewell, Base, TypeOK, ProbeInv, Threads
    <3>2. UNCHANGED <<completed, lost>> /\ Awake' = Awake
      BY <2>1 DEF CreateFirst, MainGo, Awake, history
    <3> QED
      BY <3>1, <3>2 DEF CountInv
  <2>2. CASE CreateNext
    <3>1. SaidFarewell' = SaidFarewell
      <4>1. CASE created < N
        <5>1. created \in Threads
          BY <4>1, NAssumption DEF Base, TypeOK, Threads
        <5>2. wpc[created] = "absent"
          BY <5>1 DEF Base, ProbeInv, TypeOK
        <5>3. wpc' = [wpc EXCEPT ![created] = "run"]
          BY <2>2, <4>1 DEF CreateNext
        <5> QED
          BY <5>1, <5>2, <5>3 DEF SaidFarewell, Base, TypeOK
      <4>2. CASE ~ (created < N)
        BY <2>2, <4>2 DEF CreateNext, SaidFarewell
      <4> QED
        BY <4>1, <4>2
    <3>2. UNCHANGED <<completed, lost>> /\ Awake' = Awake
      BY <2>2 DEF CreateNext, Awake, history
    <3> QED
      BY <3>1, <3>2 DEF CountInv
  <2>3. CASE WakeAll
    BY <2>3 DEF WakeAll, MainGo, CountInv, SaidFarewell, Awake, Base, TypeOK,
                threadVars, history
  <2>4. ASSUME LockFirst \/ WaitFirst \/ WakeFirst \/ UnlockFirst \/ TestFirst
               \/ LockAll \/ WaitAll \/ ReportCompleted \/ UnlockAll
        PROVE  CountInv'
    <3>1. UNCHANGED <<wpc, completed, lost>> /\ Awake' = Awake
      BY <2>4 DEF LockFirst, WaitFirst, WakeFirst, UnlockFirst, TestFirst, LockAll,
                  WaitAll, ReportCompleted, UnlockAll, MainGo, Awake, threadVars,
                  history
    <3> QED
      BY <3>1 DEF CountInv, SaidFarewell
  <2> QED
    BY <1>2, <2>1, <2>2, <2>3, <2>4 DEF Main
<1>3. ASSUME NEW t \in Threads, Thread(t), ~ SignalAll(t) PROVE CountInv'
  <2>1. SaidFarewell' = SaidFarewell
    BY <1>3 DEF Thread, Unsupported, ProbeOk, ConnectGivesUp, ValidGivesUp, Publish,
              Finish, ThreadLocksFirst, SignalFirst, ThreadUnlocksFirst,
              ThreadLocksAll, ThreadUnlocksAll, ThreadGo, SaidFarewell, Base, TypeOK
  <2>2. UNCHANGED <<completed,
            lost>> /\ (mpc' = mpc \/ (mpc = "wait1" /\ mpc' = "woken1"))
    BY <1>3 DEF Thread, Unsupported, ProbeOk, ConnectGivesUp, ValidGivesUp, Publish,
              Finish, ThreadLocksFirst, SignalFirst, ThreadUnlocksFirst,
              ThreadLocksAll, ThreadUnlocksAll, mainVars, history
  <2> QED
    BY <2>1, <2>2 DEF CountInv, Awake
<1>4. ASSUME UNCHANGED vars PROVE CountInv'
  BY <1>4 DEF CountInv, SaidFarewell, Awake, vars, mainVars, threadVars, history
<1>5. ~ SpuriousWakeup
  BY DEF SpuriousWakeup
<1> QED
  BY <1>1, <1>2, <1>3, <1>4, <1>5 DEF Next

\* Main leaves its first wait only for a published result (mwget.cpp:151-182).
LEMMA ReasonStep == ~ spurious /\ Base /\ ReasonInv /\ [Next]_vars => ReasonInv'
<1> SUFFICES ASSUME ~ spurious, Base, ReasonInv, [Next]_vars PROVE ReasonInv'
  OBVIOUS
<1>1. ASSUME Main PROVE ReasonInv'
  <2>1. UNCHANGED first
    BY <1>1 DEF Main, CreateFirst, LockFirst, WaitFirst, WakeFirst, UnlockFirst,
                TestFirst, CreateNext, LockAll, WaitAll, WakeAll, ReportCompleted,
                UnlockAll
  <2>2. CASE TestFirst
    <3>1. mpc = "test" /\ first # 1 /\ first \in {1, 0, -1}
      BY <2>2 DEF TestFirst, MainGo, ReasonInv, Base, TypeOK
    <3>2. CASE first = 0
      BY <2>2, <3>2 DEF TestFirst, MainGo, ReasonInv
    <3>3. CASE first = -1
      BY <2>1, <2>2, <3>3 DEF TestFirst, MainGo, ReasonInv
    <3> QED
      BY <3>1, <3>2, <3>3
  <2>3. CASE UnlockAll
    <3>1. completed >= N /\ completed' = completed /\ mpc' = "gone"
      BY <2>3 DEF UnlockAll, MainGo, Base, ProbeInv
    <3>2. ~ (completed' < N)
      BY <3>1, NAssumption DEF Base, TypeOK
    <3> QED
      BY <3>1, <3>2 DEF ReasonInv
  <2>4. CASE WakeFirst \/ UnlockFirst
    BY <2>1, <2>4 DEF WakeFirst, UnlockFirst, MainGo, ReasonInv
  <2>5. ASSUME CreateFirst \/ LockFirst \/ WaitFirst \/ CreateNext \/ LockAll
               \/ WaitAll \/ WakeAll \/ ReportCompleted
        PROVE  mpc' \notin {"woken1", "unlock1", "test", "gone"}
    BY <2>5 DEF CreateFirst, LockFirst, WaitFirst, CreateNext, LockAll, WaitAll,
                WakeAll, ReportCompleted, MainGo
  <2> QED
    BY <1>1, <2>2, <2>3, <2>4, <2>5 DEF Main, ReasonInv
<1>2. ASSUME NEW t \in Threads, Thread(t) PROVE ReasonInv'
  BY <1>2 DEF Thread, Unsupported, ProbeOk, ConnectGivesUp, ValidGivesUp, Publish,
            Finish, ThreadLocksFirst, SignalFirst, ThreadUnlocksFirst, ThreadLocksAll,
            SignalAll, ThreadUnlocksAll, ThreadGo, mainVars, ReasonInv, Base, TypeOK
<1>3. ASSUME UNCHANGED vars PROVE ReasonInv'
  BY <1>3 DEF ReasonInv, vars, mainVars
<1>4. ~ SpuriousWakeup
  BY DEF SpuriousWakeup
<1> QED
  BY <1>1, <1>2, <1>3, <1>4 DEF Next

\* Whether wakeups can be spurious does not change while the program runs.
LEMMA SpuriousFixed == [Next]_vars => spurious' = spurious
  BY DEF Next, Main, Thread, CreateFirst, LockFirst, WaitFirst, WakeFirst, UnlockFirst,
         TestFirst, CreateNext, LockAll, WaitAll, WakeAll, ReportCompleted, UnlockAll,
         SpuriousWakeup, Unsupported, ProbeOk, ConnectGivesUp, ValidGivesUp, Publish,
         Finish, ThreadLocksFirst, SignalFirst, ThreadUnlocksFirst, ThreadLocksAll,
         SignalAll, ThreadUnlocksAll, threadVars, vars

\* Without spurious wakeups, what main counts and what got lost are the threads
\* that said farewell, and "task finished completed" (mwget.cpp:226) is reported
\* only when all threads have.
THEOREM Completion == Spec => [](FarewellsAccounted /\ CompletedMeansAllDone)
<1>1. Init => Base /\ (~ spurious => CountInv)
  <2>1. Init => SaidFarewell = {}
    BY DEF Init, SaidFarewell
  <2>2. Init => CountInv
    BY <2>1, FS_EmptySet DEF Init, CountInv, Awake
  <2> QED
    BY <2>2, BaseInit
<1>2. Base /\ (~ spurious => CountInv) /\ [Next]_vars => (Base /\ (~ spurious => CountInv))'
  BY BaseStep, CountStep, SpuriousFixed
<1>3. Base /\ (~ spurious => CountInv) => FarewellsAccounted /\ CompletedMeansAllDone
  <2> SUFFICES ASSUME Base, ~ spurious, CountInv
               PROVE  FarewellsAccounted /\ CompletedMeansAllDone
    BY DEF FarewellsAccounted, CompletedMeansAllDone
  <2>1. FarewellsAccounted
    BY DEF FarewellsAccounted, CountInv, Awake
  <2>2. ASSUME mpc = "unlock2" PROVE SaidFarewell = Threads
    <3>1. SaidFarewell \in SUBSET Threads
      BY DEF SaidFarewell
    <3>2. Cardinality(SaidFarewell) >= N
      BY <2>2, NAssumption DEF CountInv, Awake, Base, TypeOK, ProbeInv
    <3>3. Cardinality(SaidFarewell) <= N /\ Cardinality(SaidFarewell) \in Nat
      BY <3>1, ThreadsFinite, FarewellFinite, FS_Subset, FS_CardinalityType
    <3> QED
      BY <3>1, <3>2, <3>3, ThreadsFinite, FS_Subset, NAssumption
  <2> QED
    BY <2>1, <2>2 DEF CompletedMeansAllDone
<1> QED
  BY <1>1, <1>2, <1>3, PTL DEF Spec

\* No farewell is counted twice, and none vanishes without being lost to a main
\* that was not waiting (mwget.cpp:219-224).
COROLLARY Farewells == Spec => []FarewellsAccounted
  BY Completion, PTL

\* Without spurious wakeups main gives up (mwget.cpp:174-182) only if some thread
\* has given up.
THEOREM Reason == Spec => []GivesUpForAReason
<1>1. Init => Base /\ (~ spurious => ReasonInv)
  BY BaseInit DEF Init, ReasonInv
<1>2. Base /\ (~ spurious => ReasonInv) /\ [Next]_vars => (Base /\ (~ spurious => ReasonInv))'
  BY BaseStep, ReasonStep, SpuriousFixed
<1>3. Base /\ (~ spurious => ReasonInv) => GivesUpForAReason
  BY DEF ReasonInv, GivesUpForAReason
<1> QED
  BY <1>1, <1>2, <1>3, PTL DEF Spec
=============================================================================
