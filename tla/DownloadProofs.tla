--------------------------- MODULE DownloadProofs ---------------------------
(***************************************************************************)
(* Theorems about the download threads, for every number of threads, every *)
(* size of document and of read, and every selection of faults:            *)
(*                                                                         *)
(*  - TypeCorrect: the variables keep their types.  The pointer to the     *)
(*    victim has to be followed through ReCaclTask for that (VictimOK).    *)
(*  - Placement: a thread writes where its entry says it is, and what it   *)
(*    writes is right.  An entry is changed by other threads while its     *)
(*    owner streams; the argument is that they change only its total and   *)
(*    its state, so the part of PlaceInv that is about a thread can be     *)
(*    disturbed by that thread alone (OthersPlaced, LooseStep).            *)
(*                                                                         *)
(*  - The unlocked segment table.  CaclTask cuts a task into segments that *)
(*    cover it and do not overlap (SharesCover, SharesDisjoint).  After    *)
(*    that a byte has a thread that is to fetch it (Fetches): the one in   *)
(*    whose entry it is pending, but for the part another thread has       *)
(*    already placed and not yet cut off.  The table is wrong in the       *)
(*    middle of every takeover; read so, it is not.  Every step keeps      *)
(*    every byte with a thread that counts (CoverInv) until two threads    *)
(*    take from one victim at once (NoByteLost, WholeAtTheEnd), and the    *)
(*    segments stay apart (ApartInv) until a thread comes between another  *)
(*    and its victim (TableApart).                                         *)
(***************************************************************************)
EXTENDS MCDownload, TLAPS

\* The part of ReCaclTask that uses the victim's entry (threadcacl.cpp:200-246).
Takeover == {"begin", "total", "got", "state", "load", "store", "mark"}

\* Where an entry is read or written through maxtc, maxtc is an entry.
VictimOK ==
    \A t \in Threads :
        /\ pc[t] \in {"load", "store", "mark"} => plan[t] # "none"
        /\ pc[t] \in Takeover /\ plan[t] # "none" => maxtc[t] \in Threads
        /\ pc[t] = "pick" => no[t] \in Threads
        /\ pc[t] = "minsplit" => maxtc[t] # NoVictim

\* TypeOK is not inductive: StoreVictim writes total[maxtc[t]].
TypeInv == TypeOK /\ VictimOK

\* The shares CaclTask computes are integers.
LEMMA CaclTaskType ==
    ASSUME NEW pTotal \in Nat
    PROVE  CaclBegin(pTotal) \in [Threads -> Int] /\ CaclTotal(pTotal) \in [Threads -> Int]
<1>1. SizePerThread(pTotal) \in Int
  BY NAssumption DEF SizePerThread
<1> QED
  BY <1>1, NAssumption DEF CaclBegin, CaclTotal, Threads

\* No step of main or of a thread breaks the typing.
LEMMA TypeStep == TypeInv /\ [Next]_vars => TypeInv'
<1> SUFFICES ASSUME TypeInv, [Next]_vars PROVE TypeInv'
  OBVIOUS
<1>1. ASSUME CreateThreads PROVE TypeInv'
  <2>1. /\ main' \in {"wait", "run", "end"}
        /\ pc' \in [Threads -> Labels]
    BY <1>1 DEF CreateThreads, TypeInv, TypeOK, Labels
  <2>2. UNCHANGED <<length, begin, got, total, state, taskSize, first, cycle, retry,
            errors, fsize, src, off, no, left, maxtc, plan, reg, good, bad>>
    BY <1>1 DEF CreateThreads, table, conn, recacl, shared, disk
  <2>3. VictimOK'
    BY <1>1, <2>2 DEF VictimOK, Takeover, TypeInv, TypeOK, CreateThreads
  <2> QED
    BY <2>1, <2>2, <2>3 DEF TypeInv, TypeOK
<1>2. ASSUME GiveUp PROVE TypeInv'
  <2>1. main' \in {"wait", "run", "end"}
    BY <1>2 DEF GiveUp, TypeInv, TypeOK
  <2>2. UNCHANGED <<length, begin, got, total, state, taskSize, first, pc, cycle,
            retry, errors, fsize, src, off, no, left, maxtc, plan, reg, good, bad>>
    BY <1>2 DEF GiveUp, table, conn, recacl, shared, disk
  <2>3. VictimOK'
    BY <1>2, <2>2 DEF VictimOK, Takeover, TypeInv, TypeOK, GiveUp
  <2> QED
    BY <2>1, <2>2, <2>3 DEF TypeInv, TypeOK
<1>3. ASSUME AllFinished PROVE TypeInv'
  <2>1. main' \in {"wait", "run", "end"}
    BY <1>3 DEF AllFinished, TypeInv, TypeOK
  <2>2. UNCHANGED <<length, begin, got, total, state, taskSize, first, pc, cycle,
            retry, errors, fsize, src, off, no, left, maxtc, plan, reg, good, bad>>
    BY <1>3 DEF AllFinished, table, conn, recacl, shared, disk
  <2>3. VictimOK'
    BY <1>3, <2>2 DEF VictimOK, Takeover, TypeInv, TypeOK, AllFinished
  <2> QED
    BY <2>1, <2>2, <2>3 DEF TypeInv, TypeOK
<1>4. ASSUME NEW t \in Threads, ConnectOk(t) PROVE TypeInv'
  <2>1. /\ fsize' \in [Threads -> Int]
        /\ retry' \in Nat
        /\ pc' \in [Threads -> Labels]
    BY <1>4 DEF ConnectOk, At, Goto, TypeInv, TypeOK, Labels
  <2>2. UNCHANGED <<length, begin, got, total, state, taskSize, main, first, cycle,
            errors, src, off, no, left, maxtc, plan, reg, good, bad>>
    BY <1>4 DEF ConnectOk, At, table, conn, recacl, shared, disk
  <2>3. VictimOK'
    BY <1>4, <2>2 DEF VictimOK, Takeover, TypeInv, TypeOK, ConnectOk, At, Goto
  <2> QED
    BY <2>1, <2>2, <2>3 DEF TypeInv, TypeOK
<1>5. ASSUME NEW t \in Threads, ConnectFails(t) PROVE TypeInv'
  <2>1. /\ retry' \in Nat
        /\ state' \in [Threads -> States]
    BY <1>5 DEF ConnectFails, At, Goto, TypeInv, TypeOK, States, SetState
  <2>2. UNCHANGED <<length, begin, got, total, taskSize, main, first, pc, cycle,
            errors, fsize, src, off, no, left, maxtc, plan, reg, good, bad>>
    BY <1>5 DEF ConnectFails, At, table, conn, recacl, shared, disk
  <2>3. VictimOK'
    BY <1>5, <2>2 DEF VictimOK, Takeover, TypeInv, TypeOK, ConnectFails, At, Goto
  <2> QED
    BY <2>1, <2>2, <2>3 DEF TypeInv, TypeOK
<1>6. ASSUME NEW t \in Threads, ConnectGivesUp(t) PROVE TypeInv'
  <2>1. /\ state' \in [Threads -> States]
        /\ retry' \in Nat
        /\ first' \in {1, 0, -1}
        /\ pc' \in [Threads -> Labels]
    BY <1>6 DEF ConnectGivesUp, At, Goto, TypeInv, TypeOK, States, SetState, Labels
  <2>2. UNCHANGED <<length, begin, got, total, taskSize, main, cycle, errors, fsize,
            src, off, no, left, maxtc, plan, reg, good, bad>>
    BY <1>6 DEF ConnectGivesUp, At, table, conn, recacl, shared, disk
  <2>3. VictimOK'
    BY <1>6, <2>2 DEF VictimOK, Takeover, TypeInv, TypeOK, ConnectGivesUp, At, Goto
  <2> QED
    BY <2>1, <2>2, <2>3 DEF TypeInv, TypeOK
<1>7. ASSUME NEW t \in Threads, ValidOk(t) PROVE TypeInv'
  <2>1. /\ src' \in [Threads -> Nat]
        /\ errors' \in [Threads -> Nat]
        /\ pc' \in [Threads -> Labels]
    BY <1>7 DEF ValidOk, At, Goto, TypeInv, TypeOK, Labels
  <2>2. UNCHANGED <<length, begin, got, total, state, taskSize, main, first, cycle,
            retry, fsize, off, no, left, maxtc, plan, reg, good, bad>>
    BY <1>7 DEF ValidOk, At, table, conn, recacl, shared, disk
  <2>3. VictimOK'
    BY <1>7, <2>2 DEF VictimOK, Takeover, TypeInv, TypeOK, ValidOk, At, Goto
  <2> QED
    BY <2>1, <2>2, <2>3 DEF TypeInv, TypeOK
<1>8. ASSUME NEW t \in Threads, ValidFails(t) PROVE TypeInv'
  <2>1. /\ errors' \in [Threads -> Nat]
        /\ state' \in [Threads -> States]
        /\ pc' \in [Threads -> Labels]
    BY <1>8 DEF ValidFails, At, Goto, TypeInv, TypeOK, States, SetState, Labels
  <2>2. UNCHANGED <<length, begin, got, total, taskSize, main, first, cycle, retry,
            fsize, src, off, no, left, maxtc, plan, reg, good, bad>>
    BY <1>8 DEF ValidFails, At, table, conn, recacl, shared, disk
  <2>3. VictimOK'
    BY <1>8, <2>2 DEF VictimOK, Takeover, TypeInv, TypeOK, ValidFails, At, Goto
  <2> QED
    BY <2>1, <2>2, <2>3 DEF TypeInv, TypeOK
<1>9. ASSUME NEW t \in Threads, ValidGivesUp(t) PROVE TypeInv'
  <2>1. /\ errors' \in [Threads -> Nat]
        /\ state' \in [Threads -> States]
        /\ first' \in {1, 0, -1}
        /\ pc' \in [Threads -> Labels]
    BY <1>9 DEF ValidGivesUp, At, Goto, TypeInv, TypeOK, States, SetState, Labels
  <2>2. UNCHANGED <<length, begin, got, total, taskSize, main, cycle, retry, fsize,
            src, off, no, left, maxtc, plan, reg, good, bad>>
    BY <1>9 DEF ValidGivesUp, At, table, conn, recacl, shared, disk
  <2>3. VictimOK'
    BY <1>9, <2>2 DEF VictimOK, Takeover, TypeInv, TypeOK, ValidGivesUp, At, Goto
  <2> QED
    BY <2>1, <2>2, <2>3 DEF TypeInv, TypeOK
<1>10. ASSUME NEW t \in Threads, CaclTask(t) PROVE TypeInv'
  <2>1. /\ taskSize' \in Nat
        /\ begin' \in [Threads -> Int]
        /\ got' \in [Threads -> Nat]
        /\ total' \in [Threads -> Int]
        /\ state' \in [Threads -> States]
        /\ cycle' \in {0, 1}
        /\ first' \in {1, 0, -1}
        /\ pc' \in [Threads -> Labels]
    BY <1>10, LengthsAssumption, CaclTaskType DEF CaclTask, At, Goto, TypeInv, TypeOK,
              States, SetState, Labels
  <2>2. UNCHANGED <<length, main, retry, errors, fsize, src, off, no, left, maxtc,
            plan, reg, good, bad>>
    BY <1>10 DEF CaclTask, At, table, conn, recacl, shared, disk
  <2>3. VictimOK'
    BY <1>10, <2>2 DEF VictimOK, Takeover, TypeInv, TypeOK, CaclTask, At, Goto
  <2> QED
    BY <2>1, <2>2, <2>3 DEF TypeInv, TypeOK
<1>11. ASSUME NEW t \in Threads, OpenFile(t) PROVE TypeInv'
  <2>1. /\ off' \in [Threads -> Nat]
        /\ fsize' \in [Threads -> Int]
        /\ state' \in [Threads -> States]
        /\ pc' \in [Threads -> Labels]
    BY <1>11 DEF OpenFile, At, Goto, TypeInv, TypeOK, States, SetState, Labels
  <2>2. UNCHANGED <<length, begin, got, total, taskSize, main, first, cycle, retry,
            errors, src, no, left, maxtc, plan, reg, good, bad>>
    BY <1>11 DEF OpenFile, At, table, conn, recacl, shared, disk
  <2>3. VictimOK'
    BY <1>11, <2>2 DEF VictimOK, Takeover, TypeInv, TypeOK, OpenFile, At, Goto
  <2> QED
    BY <2>1, <2>2, <2>3 DEF TypeInv, TypeOK
<1>12. ASSUME NEW t \in Threads, ReadData(t) PROVE TypeInv'
  <2>1. PICK size \in ReadSizes :
          /\ src' = [src EXCEPT ![t] = @ + Rlen(t, size)]
          /\ off' = [off EXCEPT ![t] = @ + Rlen(t, size)]
          /\ got' = [got EXCEPT ![t] = @ + Rlen(t, size)]
          /\ good' \subseteq good \cup Block(t, Rlen(t, size))
          /\ bad' \subseteq bad \cup Block(t, Rlen(t, size))
    BY <1>12 DEF ReadData
  <2>2. Rlen(t, size) \in Nat /\ off[t] \in Nat
    BY <1>12, LengthsAssumption, ReadAssumption
       DEF ReadData, Rlen, TypeInv, TypeOK
  <2>3. Block(t, Rlen(t, size)) \subseteq Nat
    BY <2>2 DEF Block
  <2>4. pc' = [pc EXCEPT ![t] = "check"]
    BY <1>12 DEF ReadData, Goto
  <2>5. /\ src' \in [Threads -> Nat]
        /\ off' \in [Threads -> Nat]
        /\ got' \in [Threads -> Nat]
        /\ good' \subseteq Nat
        /\ bad' \subseteq Nat
        /\ pc' \in [Threads -> Labels]
    BY <2>1, <2>2, <2>3, <2>4 DEF TypeInv, TypeOK, Labels
  <2>6. UNCHANGED <<length, begin, total, state, taskSize, main, first, cycle,
                    retry, errors, fsize, no, left, maxtc, plan, reg>>
    BY <1>12 DEF ReadData, recacl, shared
  <2>7. VictimOK'
    BY <2>4, <2>6 DEF VictimOK, Takeover, TypeInv, TypeOK
  <2> QED
    BY <2>5, <2>6, <2>7 DEF TypeInv, TypeOK
<1>13. ASSUME NEW t \in Threads, EndOfData(t) PROVE TypeInv'
  <2>1. pc' \in [Threads -> Labels]
    BY <1>13 DEF EndOfData, At, Goto, TypeInv, TypeOK, Labels
  <2>2. UNCHANGED <<length, begin, got, total, state, taskSize, main, first, cycle,
            retry, errors, fsize, src, off, no, left, maxtc, plan, reg, good, bad>>
    BY <1>13 DEF EndOfData, At, table, conn, recacl, shared, disk
  <2>3. VictimOK'
    BY <1>13, <2>2 DEF VictimOK, Takeover, TypeInv, TypeOK, EndOfData, At, Goto
  <2> QED
    BY <2>1, <2>2, <2>3 DEF TypeInv, TypeOK
<1>14. ASSUME NEW t \in Threads, CheckSegment(t) PROVE TypeInv'
  <2>1. pc' \in [Threads -> Labels]
    BY <1>14 DEF CheckSegment, At, Goto, TypeInv, TypeOK, Labels
  <2>2. UNCHANGED <<length, begin, got, total, state, taskSize, main, first, cycle,
            retry, errors, fsize, src, off, no, left, maxtc, plan, reg, good, bad>>
    BY <1>14 DEF CheckSegment, At, table, conn, recacl, shared, disk
  <2>3. VictimOK'
    BY <1>14, <2>2 DEF VictimOK, Takeover, TypeInv, TypeOK, CheckSegment, At, Goto
  <2> QED
    BY <2>1, <2>2, <2>3 DEF TypeInv, TypeOK
<1>15. ASSUME NEW t \in Threads, CloseSegment(t) PROVE TypeInv'
  <2>1. /\ state' \in [Threads -> States]
        /\ pc' \in [Threads -> Labels]
    BY <1>15 DEF CloseSegment, At, Goto, TypeInv, TypeOK, States, SetState, Labels
  <2>2. UNCHANGED <<length, begin, got, total, taskSize, main, first, cycle, retry,
            errors, fsize, src, off, no, left, maxtc, plan, reg, good, bad>>
    BY <1>15 DEF CloseSegment, At, table, conn, recacl, shared, disk
  <2>3. VictimOK'
    BY <1>15, <2>2 DEF VictimOK, Takeover, TypeInv, TypeOK, CloseSegment, At, Goto
  <2> QED
    BY <2>1, <2>2, <2>3 DEF TypeInv, TypeOK
<1>16. ASSUME NEW t \in Threads, StartRecacl(t) PROVE TypeInv'
  <2>1. pc' \in [Threads -> Labels]
    BY <1>16 DEF StartRecacl, At, Goto, TypeInv, TypeOK, Labels
  <2>2. UNCHANGED <<length, begin, got, total, state, taskSize, main, first, cycle,
            retry, errors, fsize, src, off, no, left, maxtc, plan, reg, good, bad>>
    BY <1>16 DEF StartRecacl, At, table, conn, recacl, shared, disk
  <2>3. VictimOK'
    BY <1>16, <2>2 DEF VictimOK, Takeover, TypeInv, TypeOK, StartRecacl, At, Goto
  <2> QED
    BY <2>1, <2>2, <2>3 DEF TypeInv, TypeOK
<1>17. ASSUME NEW t \in Threads, ScanSkip(t) PROVE TypeInv'
  <2>1. no' \in [Threads -> 0 .. N]
    BY <1>17, NAssumption DEF ScanSkip, At, Goto, TypeInv, TypeOK
  <2>2. UNCHANGED <<length, begin, got, total, state, taskSize, main, first, pc, cycle,
            retry, errors, fsize, src, off, left, maxtc, plan, reg, good, bad>>
    BY <1>17 DEF ScanSkip, At, table, conn, recacl, shared, disk
  <2>3. VictimOK'
    BY <1>17, <2>2 DEF VictimOK, Takeover, TypeInv, TypeOK, ScanSkip, At, Goto
  <2> QED
    BY <2>1, <2>2, <2>3 DEF TypeInv, TypeOK
<1>18. ASSUME NEW t \in Threads, ScanLonger(t) PROVE TypeInv'
  <2>1. no[t] \in 0 .. N /\ no[t] < N
    BY <1>18 DEF ScanLonger, TypeInv, TypeOK
  <2>2. no[t] \in Threads
    BY <2>1, NAssumption DEF Threads
  <2>3. pc' = [pc EXCEPT ![t] = "pick"]
    BY <1>18 DEF ScanLonger, Goto
  <2>4. UNCHANGED <<length, begin, got, total, state, taskSize, main, first,
                    cycle, retry, errors, fsize, src, off, no, left, maxtc,
                    plan, reg, good, bad>>
    BY <1>18 DEF ScanLonger, table, conn, recacl, shared, disk
  <2>5. pc' \in [Threads -> Labels]
    BY <2>3 DEF TypeInv, TypeOK, Labels
  <2>6. VictimOK'
    BY <2>2, <2>3, <2>4 DEF VictimOK, Takeover, TypeInv, TypeOK
  <2> QED
    BY <2>4, <2>5, <2>6 DEF TypeInv, TypeOK
<1>19. ASSUME NEW t \in Threads, ScanPick(t) PROVE TypeInv'
  <2>1. no[t] \in Threads /\ no[t] + 1 \in 0 .. N
    BY <1>19, NAssumption DEF ScanPick, At, TypeInv, VictimOK, Threads
  <2>2. /\ left' \in [Threads -> Int]
        /\ maxtc' \in [Threads -> Threads \cup {NoVictim, Elsewhere}]
        /\ no' \in [Threads -> 0 .. N]
        /\ pc' \in [Threads -> Labels]
    BY <1>19, <2>1 DEF ScanPick, Goto, TypeInv, TypeOK, Labels
  <2>3. UNCHANGED <<length, begin, got, total, state, taskSize, main, first,
                    cycle, retry, errors, fsize, src, off, plan, reg, good, bad>>
    BY <1>19 DEF ScanPick, table, conn, shared, disk
  <2>4. VictimOK'
    BY <1>19, <2>1, <2>3 DEF ScanPick, Goto, VictimOK, Takeover, TypeInv, TypeOK
  <2> QED
    BY <2>2, <2>3, <2>4 DEF TypeInv, TypeOK
<1>20. ASSUME NEW t \in Threads, UseUninitialised(t) PROVE TypeInv'
  <2>1. /\ maxtc' \in [Threads -> Threads \cup {NoVictim, Elsewhere}]
        /\ pc' \in [Threads -> Labels]
    BY <1>20 DEF UseUninitialised, At, Goto, TypeInv, TypeOK, NoVictim, Elsewhere,
              Labels
  <2>2. UNCHANGED <<length, begin, got, total, state, taskSize, main, first, cycle,
            retry, errors, fsize, src, off, no, left, plan, reg, good, bad>>
    BY <1>20 DEF UseUninitialised, At, table, conn, recacl, shared, disk
  <2>3. VictimOK'
    BY <1>20, <2>2 DEF VictimOK, Takeover, TypeInv, TypeOK, UseUninitialised, At, Goto,
              Plans, NoVictim, Elsewhere
  <2> QED
    BY <2>1, <2>2, <2>3 DEF TypeInv, TypeOK
<1>21. ASSUME NEW t \in Threads, FaultAgain(t) PROVE TypeInv'
  BY <1>21 DEF FaultAgain, vars, table, conn, recacl, shared, disk, TypeInv, TypeOK,
            VictimOK
<1>22. ASSUME NEW t \in Threads, TestStop(t) PROVE TypeInv'
  <2>1. /\ pc' \in [Threads -> Labels]
        /\ plan' \in [Threads -> Plans]
    BY <1>22 DEF TestStop, At, Goto, TypeInv, TypeOK, Labels, Plans
  <2>2. UNCHANGED <<length, begin, got, total, state, taskSize, main, first, cycle,
            retry, errors, fsize, src, off, no, left, maxtc, reg, good, bad>>
    BY <1>22 DEF TestStop, At, table, conn, recacl, shared, disk
  <2>3. VictimOK'
    BY <1>22, <2>2 DEF VictimOK, Takeover, TypeInv, TypeOK, TestStop, At, Goto, Plans,
              NoVictim, Elsewhere
  <2> QED
    BY <2>1, <2>2, <2>3 DEF TypeInv, TypeOK
<1>23. ASSUME NEW t \in Threads, TestSplit(t) PROVE TypeInv'
  <2>1. /\ plan' \in [Threads -> Plans]
        /\ pc' \in [Threads -> Labels]
    BY <1>23 DEF TestSplit, At, Goto, TypeInv, TypeOK, Plans, Labels
  <2>2. UNCHANGED <<length, begin, got, total, state, taskSize, main, first, cycle,
            retry, errors, fsize, src, off, no, left, maxtc, reg, good, bad>>
    BY <1>23 DEF TestSplit, At, table, conn, recacl, shared, disk
  <2>3. VictimOK'
    BY <1>23, <2>2 DEF VictimOK, Takeover, TypeInv, TypeOK, TestSplit, At, Goto, Plans,
              NoVictim, Elsewhere
  <2> QED
    BY <2>1, <2>2, <2>3 DEF TypeInv, TypeOK
<1>24. ASSUME NEW t \in Threads, SetBegin(t) PROVE TypeInv'
  <2>1. /\ begin' \in [Threads -> Int]
        /\ pc' \in [Threads -> Labels]
    BY <1>24 DEF SetBegin, At, Goto, TypeInv, TypeOK, BinLeft, Plans, VictimOK,
              Takeover, Labels
  <2>2. UNCHANGED <<length, got, total, state, taskSize, main, first, cycle, retry,
            errors, fsize, src, off, no, left, maxtc, plan, reg, good, bad>>
    BY <1>24 DEF SetBegin, At, table, conn, recacl, shared, disk
  <2>3. VictimOK'
    BY <1>24, <2>2 DEF VictimOK, Takeover, TypeInv, TypeOK, SetBegin, At, Goto
  <2> QED
    BY <2>1, <2>2, <2>3 DEF TypeInv, TypeOK
<1>25. ASSUME NEW t \in Threads, SetTotal(t) PROVE TypeInv'
  <2>1. /\ total' \in [Threads -> Int]
        /\ pc' \in [Threads -> Labels]
    BY <1>25 DEF SetTotal, At, Goto, TypeInv, TypeOK, Amount, BinLeft, Labels
  <2>2. UNCHANGED <<length, begin, got, state, taskSize, main, first, cycle, retry,
            errors, fsize, src, off, no, left, maxtc, plan, reg, good, bad>>
    BY <1>25 DEF SetTotal, At, table, conn, recacl, shared, disk
  <2>3. VictimOK'
    BY <1>25, <2>2 DEF VictimOK, Takeover, TypeInv, TypeOK, SetTotal, At, Goto
  <2> QED
    BY <2>1, <2>2, <2>3 DEF TypeInv, TypeOK
<1>26. ASSUME NEW t \in Threads, SetGot(t) PROVE TypeInv'
  <2>1. /\ got' \in [Threads -> Nat]
        /\ pc' \in [Threads -> Labels]
    BY <1>26 DEF SetGot, At, Goto, TypeInv, TypeOK, Labels
  <2>2. UNCHANGED <<length, begin, total, state, taskSize, main, first, cycle, retry,
            errors, fsize, src, off, no, left, maxtc, plan, reg, good, bad>>
    BY <1>26 DEF SetGot, At, table, conn, recacl, shared, disk
  <2>3. VictimOK'
    BY <1>26, <2>2 DEF VictimOK, Takeover, TypeInv, TypeOK, SetGot, At, Goto
  <2> QED
    BY <2>1, <2>2, <2>3 DEF TypeInv, TypeOK
<1>27. ASSUME NEW t \in Threads, SetOwnState(t) PROVE TypeInv'
  <2>1. /\ state' \in [Threads -> States]
        /\ pc' \in [Threads -> Labels]
    BY <1>27 DEF SetOwnState, At, Goto, TypeInv, TypeOK, States, SetState, Labels
  <2>2. UNCHANGED <<length, begin, got, total, taskSize, main, first, cycle, retry,
            errors, fsize, src, off, no, left, maxtc, plan, reg, good, bad>>
    BY <1>27 DEF SetOwnState, At, table, conn, recacl, shared, disk
  <2>3. VictimOK'
    BY <1>27, <2>2 DEF VictimOK, Takeover, TypeInv, TypeOK, SetOwnState, At, Goto
  <2> QED
    BY <2>1, <2>2, <2>3 DEF TypeInv, TypeOK
<1>28. ASSUME NEW t \in Threads, LoadVictim(t) PROVE TypeInv'
  <2>1. /\ reg' \in [Threads -> Int]
        /\ pc' \in [Threads -> Labels]
    BY <1>28 DEF LoadVictim, At, Goto, TypeInv, TypeOK, VictimOK, Takeover, Labels
  <2>2. UNCHANGED <<length, begin, got, total, state, taskSize, main, first, cycle,
            retry, errors, fsize, src, off, no, left, maxtc, plan, good, bad>>
    BY <1>28 DEF LoadVictim, At, table, conn, recacl, shared, disk
  <2>3. VictimOK'
    BY <1>28, <2>2 DEF VictimOK, Takeover, TypeInv, TypeOK, LoadVictim, At, Goto
  <2> QED
    BY <2>1, <2>2, <2>3 DEF TypeInv, TypeOK
<1>29. ASSUME NEW t \in Threads, StoreVictim(t) PROVE TypeInv'
  <2>1. /\ total' \in [Threads -> Int]
        /\ pc' \in [Threads -> Labels]
    BY <1>29 DEF StoreVictim, At, Goto, TypeInv, TypeOK, Amount, BinLeft, VictimOK,
              Takeover, Labels
  <2>2. UNCHANGED <<length, begin, got, state, taskSize, main, first, cycle, retry,
            errors, fsize, src, off, no, left, maxtc, plan, reg, good, bad>>
    BY <1>29 DEF StoreVictim, At, table, conn, recacl, shared, disk
  <2>3. VictimOK'
    BY <1>29, <2>2 DEF VictimOK, Takeover, TypeInv, TypeOK, StoreVictim, At, Goto
  <2> QED
    BY <2>1, <2>2, <2>3 DEF TypeInv, TypeOK
<1>30. ASSUME NEW t \in Threads, CloseVictim(t) PROVE TypeInv'
  <2>1. /\ state' \in [Threads -> States]
        /\ pc' \in [Threads -> Labels]
    BY <1>30 DEF CloseVictim, At, Goto, TypeInv, TypeOK, VictimOK, Takeover, States,
              SetState, Labels
  <2>2. UNCHANGED <<length, begin, got, total, taskSize, main, first, cycle, retry,
            errors, fsize, src, off, no, left, maxtc, plan, reg, good, bad>>
    BY <1>30 DEF CloseVictim, At, table, conn, recacl, shared, disk
  <2>3. VictimOK'
    BY <1>30, <2>2 DEF VictimOK, Takeover, TypeInv, TypeOK, CloseVictim, At, Goto
  <2> QED
    BY <2>1, <2>2, <2>3 DEF TypeInv, TypeOK
<1>31. ASSUME NEW t \in Threads, AfterRecacl(t) PROVE TypeInv'
  <2>1. /\ no' \in [Threads -> 0 .. N]
        /\ left' \in [Threads -> Int]
        /\ maxtc' \in [Threads -> Threads \cup {NoVictim, Elsewhere}]
        /\ plan' \in [Threads -> Plans]
        /\ reg' \in [Threads -> Int]
        /\ pc' \in [Threads -> Labels]
    BY <1>31, NAssumption DEF AfterRecacl, At, Goto, TypeInv, TypeOK, NoVictim,
              Elsewhere, Plans, Labels
  <2>2. UNCHANGED <<length, begin, got, total, state, taskSize, main, first, cycle,
            retry, errors, fsize, src, off, good, bad>>
    BY <1>31 DEF AfterRecacl, At, table, conn, recacl, shared, disk
  <2>3. VictimOK'
    BY <1>31, <2>2 DEF VictimOK, Takeover, TypeInv, TypeOK, AfterRecacl, At, Goto
  <2> QED
    BY <2>1, <2>2, <2>3 DEF TypeInv, TypeOK
<1>32. ASSUME NEW t \in Threads, Tail(t) PROVE TypeInv'
  <2>1. /\ state' \in [Threads -> States]
        /\ src' \in [Threads -> Nat]
        /\ off' \in [Threads -> Nat]
        /\ pc' \in [Threads -> Labels]
    BY <1>32 DEF Tail, At, Goto, TypeInv, TypeOK, States, SetState, Labels
  <2>2. UNCHANGED <<length, begin, got, total, taskSize, main, first, cycle, retry,
            errors, fsize, no, left, maxtc, plan, reg, good, bad>>
    BY <1>32 DEF Tail, At, table, conn, recacl, shared, disk
  <2>3. VictimOK'
    BY <1>32, <2>2 DEF VictimOK, Takeover, TypeInv, TypeOK, Tail, At, Goto
  <2> QED
    BY <2>1, <2>2, <2>3 DEF TypeInv, TypeOK
<1>33. CASE UNCHANGED vars
  BY <1>33 DEF vars, TypeInv, TypeOK, VictimOK, table, conn, recacl, disk, shared
<1> QED
  BY <1>1, <1>2, <1>3, <1>4, <1>5, <1>6, <1>7, <1>8, <1>9, <1>10, <1>11, <1>12, <1>13,
            <1>14, <1>15, <1>16, <1>17, <1>18, <1>19, <1>20, <1>21, <1>22, <1>23,
            <1>24, <1>25, <1>26, <1>27, <1>28, <1>29, <1>30, <1>31, <1>32, <1>33
     DEF Next, Main, Thread, Connecting, Fetching, ReCaclTask, Leaving, Ended

\* The program starts well typed.
LEMMA TypeInit == Init => TypeInv
  BY NAssumption, LengthsAssumption
     DEF Init, TypeInv, TypeOK, VictimOK, Threads, Labels, States, Plans,
         Takeover, NoVictim, Elsewhere

\* Every variable keeps its type; in particular the table is never written
\* through a pointer that is not an entry (threadcacl.cpp:207, 208, 233).
THEOREM TypeCorrect == Spec => []TypeOK
<1>1. Init => TypeInv
  BY TypeInit
<1>2. TypeInv /\ [Next]_vars => TypeInv'
  BY TypeStep
<1>3. TypeInv => TypeOK
  BY DEF TypeInv
<1> QED
  BY <1>1, <1>2, <1>3, PTL DEF Spec

-----------------------------------------------------------------------------
\* Until thread 0 has cut the task, it is alone and the table is as it was.
ProbeOK ==
    /\ cycle = 0 =>
          /\ first # 0 /\ main # "run"
          /\ begin[0] = 0 /\ got[0] = 0
          /\ pc[0] \in {"connect", "valid", "cacl", "exited", "returned"}
          /\ \A u \in Threads : u # 0 => pc[u] = "absent"
    /\ \A t \in Threads : pc[t] = "cacl" => t = 0 /\ cycle = 0

\* The file offset of a segment: lseek ignores a negative one (mwget.cpp:497).
Place(t) == IF begin[t] + got[t] < 0 THEN 0 ELSE begin[t] + got[t]

\* Request, seek and table entry of one thread agree.
ThreadPlaced(t) ==
    /\ pc[t] = "valid" => fsize[t] = begin[t] + got[t]
    /\ pc[t] \in {"cacl", "open"} /\ "norange" \notin Faults => src[t] = Place(t)
    /\ Streaming(t) /\ begin[t] >= 0 => off[t] = begin[t] + got[t]
    /\ Streaming(t) /\ "norange" \notin Faults => src[t] = off[t]

\* The inductive invariant behind InPlace and NoWrongByte.
PlaceInv ==
    /\ ProbeOK
    /\ \A t \in Threads : ThreadPlaced(t)
    /\ NoWrongByte

\* The labels at which ThreadPlaced asks nothing of a thread.
Loose == Labels \ {"absent", "valid", "cacl", "open", "read", "check", "close"}

\* A step leaves alone what ThreadPlaced says of u; u's total and state may change.
SameRow(u) ==
    /\ begin'[u] = begin[u] /\ got'[u] = got[u] /\ fsize'[u] = fsize[u]
    /\ src'[u] = src[u] /\ off'[u] = off[u] /\ pc'[u] = pc[u]

\* ... and then u stays in place.
LEMMA OthersPlaced ==
    ASSUME NEW u \in Threads, ThreadPlaced(u), SameRow(u)
    PROVE  ThreadPlaced(u)'
  BY DEF ThreadPlaced, SameRow, Streaming, Place

\* A step of t that writes nothing to the file and ends at a loose label keeps
\* everybody in place: all of ReCaclTask is of this kind.
LEMMA LooseStep ==
    ASSUME PlaceInv, NEW t \in Threads,
           cycle = 1, cycle' = 1, bad' = bad,
           pc'[t] \in Loose,
           \A u \in Threads : u # t => SameRow(u)
    PROVE  PlaceInv'
<1>1. ProbeOK'
  BY DEF PlaceInv, ProbeOK, SameRow, Loose
<1>2. ASSUME NEW u \in Threads PROVE ThreadPlaced(u)'
  <2>1. CASE u = t
    BY <2>1 DEF ThreadPlaced, Streaming, Loose
  <2>2. CASE u # t
    BY <2>2, OthersPlaced DEF PlaceInv
  <2> QED
    BY <2>1, <2>2
<1>3. NoWrongByte'
  BY DEF PlaceInv, NoWrongByte
<1> QED
  BY <1>1, <1>2, <1>3 DEF PlaceInv

\* No step of main or of a thread takes a thread out of its place.
LEMMA PlaceStep == TypeInv /\ PlaceInv /\ [Next]_vars => PlaceInv'
<1> SUFFICES ASSUME TypeInv, PlaceInv, [Next]_vars PROVE PlaceInv'
  OBVIOUS
<1>0. ASSUME NEW t \in Threads,
             pc[t] \notin {"absent", "connect", "valid", "cacl", "exited", "returned"}
      PROVE  cycle = 1
  BY <1>0 DEF PlaceInv, ProbeOK, TypeInv, TypeOK, Threads
<1>1. ASSUME NEW t \in Threads, EndOfData(t) PROVE PlaceInv'
  <2>1. cycle = 1
    BY <1>1, <1>0 DEF EndOfData, At
  <2>2. cycle' = 1 /\ bad' = bad /\ pc'[t] \in Loose
    BY <1>1, <2>1 DEF EndOfData, At, Goto, shared, disk, Loose, Labels, TypeInv, TypeOK
  <2>3. \A u \in Threads : u # t => SameRow(u)
    BY <1>1 DEF EndOfData, Goto, table, conn, SameRow, TypeInv, TypeOK
  <2> QED
    BY <2>1, <2>2, <2>3, LooseStep
<1>2. ASSUME NEW t \in Threads, CloseSegment(t) PROVE PlaceInv'
  <2>1. cycle = 1
    BY <1>2, <1>0 DEF CloseSegment, At
  <2>2. cycle' = 1 /\ bad' = bad /\ pc'[t] \in Loose
    BY <1>2, <2>1 DEF CloseSegment, At, Goto, shared, disk, Loose, Labels, TypeInv,
              TypeOK
  <2>3. \A u \in Threads : u # t => SameRow(u)
    BY <1>2 DEF CloseSegment, Goto, table, conn, SameRow, TypeInv, TypeOK
  <2> QED
    BY <2>1, <2>2, <2>3, LooseStep
<1>3. ASSUME NEW t \in Threads, StartRecacl(t) PROVE PlaceInv'
  <2>1. cycle = 1
    BY <1>3, <1>0 DEF StartRecacl, At
  <2>2. cycle' = 1 /\ bad' = bad /\ pc'[t] \in Loose
    BY <1>3, <2>1 DEF StartRecacl, At, Goto, shared, disk, Loose, Labels, TypeInv,
              TypeOK
  <2>3. \A u \in Threads : u # t => SameRow(u)
    BY <1>3 DEF StartRecacl, Goto, table, conn, SameRow, TypeInv, TypeOK
  <2> QED
    BY <2>1, <2>2, <2>3, LooseStep
<1>4. ASSUME NEW t \in Threads, ScanLonger(t) PROVE PlaceInv'
  <2>1. cycle = 1
    BY <1>4, <1>0 DEF ScanLonger, At
  <2>2. cycle' = 1 /\ bad' = bad /\ pc'[t] \in Loose
    BY <1>4, <2>1 DEF ScanLonger, At, Goto, shared, disk, Loose, Labels, TypeInv, TypeOK
  <2>3. \A u \in Threads : u # t => SameRow(u)
    BY <1>4 DEF ScanLonger, Goto, table, conn, SameRow, TypeInv, TypeOK
  <2> QED
    BY <2>1, <2>2, <2>3, LooseStep
<1>5. ASSUME NEW t \in Threads, ScanPick(t) PROVE PlaceInv'
  <2>1. cycle = 1
    BY <1>5, <1>0 DEF ScanPick, At
  <2>2. cycle' = 1 /\ bad' = bad /\ pc'[t] \in Loose
    BY <1>5, <2>1 DEF ScanPick, At, Goto, shared, disk, Loose, Labels, TypeInv, TypeOK
  <2>3. \A u \in Threads : u # t => SameRow(u)
    BY <1>5 DEF ScanPick, Goto, table, conn, SameRow, TypeInv, TypeOK
  <2> QED
    BY <2>1, <2>2, <2>3, LooseStep
<1>6. ASSUME NEW t \in Threads, TestStop(t) PROVE PlaceInv'
  <2>1. cycle = 1
    BY <1>6, <1>0 DEF TestStop, At
  <2>2. cycle' = 1 /\ bad' = bad /\ pc'[t] \in Loose
    BY <1>6, <2>1 DEF TestStop, At, Goto, shared, disk, Loose, Labels, TypeInv, TypeOK
  <2>3. \A u \in Threads : u # t => SameRow(u)
    BY <1>6 DEF TestStop, Goto, table, conn, SameRow, TypeInv, TypeOK
  <2> QED
    BY <2>1, <2>2, <2>3, LooseStep
<1>7. ASSUME NEW t \in Threads, TestSplit(t) PROVE PlaceInv'
  <2>1. cycle = 1
    BY <1>7, <1>0 DEF TestSplit, At
  <2>2. cycle' = 1 /\ bad' = bad /\ pc'[t] \in Loose
    BY <1>7, <2>1 DEF TestSplit, At, Goto, shared, disk, Loose, Labels, TypeInv, TypeOK
  <2>3. \A u \in Threads : u # t => SameRow(u)
    BY <1>7 DEF TestSplit, Goto, table, conn, SameRow, TypeInv, TypeOK
  <2> QED
    BY <2>1, <2>2, <2>3, LooseStep
<1>8. ASSUME NEW t \in Threads, SetBegin(t) PROVE PlaceInv'
  <2>1. cycle = 1
    BY <1>8, <1>0 DEF SetBegin, At
  <2>2. cycle' = 1 /\ bad' = bad /\ pc'[t] \in Loose
    BY <1>8, <2>1 DEF SetBegin, At, Goto, shared, disk, Loose, Labels, TypeInv, TypeOK
  <2>3. \A u \in Threads : u # t => SameRow(u)
    BY <1>8 DEF SetBegin, Goto, table, conn, SameRow, TypeInv, TypeOK
  <2> QED
    BY <2>1, <2>2, <2>3, LooseStep
<1>9. ASSUME NEW t \in Threads, SetTotal(t) PROVE PlaceInv'
  <2>1. cycle = 1
    BY <1>9, <1>0 DEF SetTotal, At
  <2>2. cycle' = 1 /\ bad' = bad /\ pc'[t] \in Loose
    BY <1>9, <2>1 DEF SetTotal, At, Goto, shared, disk, Loose, Labels, TypeInv, TypeOK
  <2>3. \A u \in Threads : u # t => SameRow(u)
    BY <1>9 DEF SetTotal, Goto, table, conn, SameRow, TypeInv, TypeOK
  <2> QED
    BY <2>1, <2>2, <2>3, LooseStep
<1>10. ASSUME NEW t \in Threads, SetGot(t) PROVE PlaceInv'
  <2>1. cycle = 1
    BY <1>10, <1>0 DEF SetGot, At
  <2>2. cycle' = 1 /\ bad' = bad /\ pc'[t] \in Loose
    BY <1>10, <2>1 DEF SetGot, At, Goto, shared, disk, Loose, Labels, TypeInv, TypeOK
  <2>3. \A u \in Threads : u # t => SameRow(u)
    BY <1>10 DEF SetGot, Goto, table, conn, SameRow, TypeInv, TypeOK
  <2> QED
    BY <2>1, <2>2, <2>3, LooseStep
<1>11. ASSUME NEW t \in Threads, SetOwnState(t) PROVE PlaceInv'
  <2>1. cycle = 1
    BY <1>11, <1>0 DEF SetOwnState, At
  <2>2. cycle' = 1 /\ bad' = bad /\ pc'[t] \in Loose
    BY <1>11, <2>1 DEF SetOwnState, At, Goto, shared, disk, Loose, Labels, TypeInv,
              TypeOK
  <2>3. \A u \in Threads : u # t => SameRow(u)
    BY <1>11 DEF SetOwnState, Goto, table, conn, SameRow, TypeInv, TypeOK
  <2> QED
    BY <2>1, <2>2, <2>3, LooseStep
<1>12. ASSUME NEW t \in Threads, LoadVictim(t) PROVE PlaceInv'
  <2>1. cycle = 1
    BY <1>12, <1>0 DEF LoadVictim, At
  <2>2. cycle' = 1 /\ bad' = bad /\ pc'[t] \in Loose
    BY <1>12, <2>1 DEF LoadVictim, At, Goto, shared, disk, Loose, Labels, TypeInv,
              TypeOK
  <2>3. \A u \in Threads : u # t => SameRow(u)
    BY <1>12 DEF LoadVictim, Goto, table, conn, SameRow, TypeInv, TypeOK
  <2> QED
    BY <2>1, <2>2, <2>3, LooseStep
<1>13. ASSUME NEW t \in Threads, StoreVictim(t) PROVE PlaceInv'
  <2>1. cycle = 1
    BY <1>13, <1>0 DEF StoreVictim, At
  <2>2. cycle' = 1 /\ bad' = bad /\ pc'[t] \in Loose
    BY <1>13, <2>1 DEF StoreVictim, At, Goto, shared, disk, Loose, Labels, TypeInv,
              TypeOK
  <2>3. \A u \in Threads : u # t => SameRow(u)
    BY <1>13 DEF StoreVictim, Goto, table, conn, SameRow, TypeInv, TypeOK
  <2> QED
    BY <2>1, <2>2, <2>3, LooseStep
<1>14. ASSUME NEW t \in Threads, CloseVictim(t) PROVE PlaceInv'
  <2>1. cycle = 1
    BY <1>14, <1>0 DEF CloseVictim, At
  <2>2. cycle' = 1 /\ bad' = bad /\ pc'[t] \in Loose
    BY <1>14, <2>1 DEF CloseVictim, At, Goto, shared, disk, Loose, Labels, TypeInv,
              TypeOK
  <2>3. \A u \in Threads : u # t => SameRow(u)
    BY <1>14 DEF CloseVictim, Goto, table, conn, SameRow, TypeInv, TypeOK
  <2> QED
    BY <2>1, <2>2, <2>3, LooseStep
<1>15. ASSUME NEW t \in Threads, AfterRecacl(t) PROVE PlaceInv'
  <2>1. cycle = 1
    BY <1>15, <1>0 DEF AfterRecacl, At
  <2>2. cycle' = 1 /\ bad' = bad /\ pc'[t] \in Loose
    BY <1>15, <2>1 DEF AfterRecacl, At, Goto, shared, disk, Loose, Labels, TypeInv,
              TypeOK
  <2>3. \A u \in Threads : u # t => SameRow(u)
    BY <1>15 DEF AfterRecacl, Goto, table, conn, SameRow, TypeInv, TypeOK
  <2> QED
    BY <2>1, <2>2, <2>3, LooseStep
<1>16. ASSUME NEW t \in Threads, Tail(t) PROVE PlaceInv'
  <2>1. cycle = 1
    BY <1>16, <1>0 DEF Tail, At
  <2>2. cycle' = 1 /\ bad' = bad /\ pc'[t] \in Loose
    BY <1>16, <2>1 DEF Tail, At, Goto, shared, disk, Loose, Labels, TypeInv, TypeOK
  <2>3. \A u \in Threads : u # t => SameRow(u)
    BY <1>16 DEF Tail, Goto, table, conn, SameRow, TypeInv, TypeOK
  <2> QED
    BY <2>1, <2>2, <2>3, LooseStep
<1>17. ASSUME NEW t \in Threads, ScanSkip(t) PROVE PlaceInv'
  <2>1. cycle = 1
    BY <1>17, <1>0 DEF ScanSkip, At
  <2>2. cycle' = 1 /\ bad' = bad /\ pc'[t] \in Loose
    BY <1>17, <2>1 DEF ScanSkip, At, shared, disk, Loose, Labels, TypeInv, TypeOK
  <2>3. \A u \in Threads : u # t => SameRow(u)
    BY <1>17 DEF ScanSkip, table, conn, SameRow, TypeInv, TypeOK
  <2> QED
    BY <2>1, <2>2, <2>3, LooseStep
<1>18. ASSUME NEW t \in Threads, UseUninitialised(t) PROVE PlaceInv'
  <2>1. cycle = 1
    BY <1>18, <1>0 DEF UseUninitialised, At
  <2>2. cycle' = 1 /\ bad' = bad /\ pc'[t] \in Loose
    BY <1>18, <2>1 DEF UseUninitialised, At, Goto, shared, disk, Loose, Labels,
              TypeInv, TypeOK
  <2>3. \A u \in Threads : u # t => SameRow(u)
    BY <1>18 DEF UseUninitialised, Goto, table, conn, SameRow, TypeInv, TypeOK
  <2> QED
    BY <2>1, <2>2, <2>3, LooseStep
<1>19. ASSUME NEW t \in Threads, ConnectOk(t) PROVE PlaceInv'
  <2>1. ProbeOK'
    BY <1>19 DEF ConnectOk, At, Goto, PlaceInv, ProbeOK, table, shared, Probing,
              Threads, TypeInv, TypeOK
  <2>2. ThreadPlaced(t)'
    BY <1>19 DEF ConnectOk, At, Goto, PlaceInv, ProbeOK, ThreadPlaced, Streaming,
              Place, table, shared, Probing, Threads, TypeInv, TypeOK
  <2>3. \A u \in Threads : u # t => SameRow(u)
    BY <1>19 DEF ConnectOk, Goto, table, SameRow, TypeInv, TypeOK
  <2>4. \A u \in Threads : u # t => ThreadPlaced(u)'
    BY <2>3, OthersPlaced DEF PlaceInv
  <2>5. NoWrongByte'
    BY <1>19 DEF ConnectOk, disk, PlaceInv, NoWrongByte
  <2> QED
    BY <2>1, <2>2, <2>4, <2>5 DEF PlaceInv
<1>20. ASSUME NEW t \in Threads, ConnectFails(t) PROVE PlaceInv'
  <2>1. ProbeOK'
    BY <1>20 DEF ConnectFails, At, Goto, PlaceInv, ProbeOK, shared, Probing, Threads,
              TypeInv, TypeOK
  <2>2. ThreadPlaced(t)'
    BY <1>20 DEF ConnectFails, At, Goto, PlaceInv, ProbeOK, ThreadPlaced, Streaming,
              Place, shared, Probing, Threads, TypeInv, TypeOK
  <2>3. \A u \in Threads : u # t => SameRow(u)
    BY <1>20 DEF ConnectFails, Goto, table, SameRow, TypeInv, TypeOK
  <2>4. \A u \in Threads : u # t => ThreadPlaced(u)'
    BY <2>3, OthersPlaced DEF PlaceInv
  <2>5. NoWrongByte'
    BY <1>20 DEF ConnectFails, disk, PlaceInv, NoWrongByte
  <2> QED
    BY <2>1, <2>2, <2>4, <2>5 DEF PlaceInv
<1>21. ASSUME NEW t \in Threads, ConnectGivesUp(t) PROVE PlaceInv'
  <2>1. ProbeOK'
    BY <1>21 DEF ConnectGivesUp, At, Goto, PlaceInv, ProbeOK, shared, Probing, Threads,
              TypeInv, TypeOK
  <2>2. ThreadPlaced(t)'
    BY <1>21 DEF ConnectGivesUp, At, Goto, PlaceInv, ProbeOK, ThreadPlaced, Streaming,
              Place, shared, Probing, Threads, TypeInv, TypeOK
  <2>3. \A u \in Threads : u # t => SameRow(u)
    BY <1>21 DEF ConnectGivesUp, Goto, table, SameRow, TypeInv, TypeOK
  <2>4. \A u \in Threads : u # t => ThreadPlaced(u)'
    BY <2>3, OthersPlaced DEF PlaceInv
  <2>5. NoWrongByte'
    BY <1>21 DEF ConnectGivesUp, disk, PlaceInv, NoWrongByte
  <2> QED
    BY <2>1, <2>2, <2>4, <2>5 DEF PlaceInv
<1>22. ASSUME NEW t \in Threads, ValidOk(t) PROVE PlaceInv'
  <2>1. ProbeOK'
    BY <1>22 DEF ValidOk, At, Goto, PlaceInv, ProbeOK, table, shared, Probing, Threads,
              TypeInv, TypeOK
  <2>2. ThreadPlaced(t)'
    BY <1>22 DEF ValidOk, At, Goto, PlaceInv, ProbeOK, ThreadPlaced, Streaming, Place,
              table, shared, Probing, Threads, TypeInv, TypeOK
  <2>3. \A u \in Threads : u # t => SameRow(u)
    BY <1>22 DEF ValidOk, Goto, table, SameRow, TypeInv, TypeOK
  <2>4. \A u \in Threads : u # t => ThreadPlaced(u)'
    BY <2>3, OthersPlaced DEF PlaceInv
  <2>5. NoWrongByte'
    BY <1>22 DEF ValidOk, disk, PlaceInv, NoWrongByte
  <2> QED
    BY <2>1, <2>2, <2>4, <2>5 DEF PlaceInv
<1>23. ASSUME NEW t \in Threads, ValidFails(t) PROVE PlaceInv'
  <2>1. ProbeOK'
    BY <1>23 DEF ValidFails, At, Goto, PlaceInv, ProbeOK, shared, Probing, Threads,
              TypeInv, TypeOK
  <2>2. ThreadPlaced(t)'
    BY <1>23 DEF ValidFails, At, Goto, PlaceInv, ProbeOK, ThreadPlaced, Streaming,
              Place, shared, Probing, Threads, TypeInv, TypeOK
  <2>3. \A u \in Threads : u # t => SameRow(u)
    BY <1>23 DEF ValidFails, Goto, table, SameRow, TypeInv, TypeOK
  <2>4. \A u \in Threads : u # t => ThreadPlaced(u)'
    BY <2>3, OthersPlaced DEF PlaceInv
  <2>5. NoWrongByte'
    BY <1>23 DEF ValidFails, disk, PlaceInv, NoWrongByte
  <2> QED
    BY <2>1, <2>2, <2>4, <2>5 DEF PlaceInv
<1>24. ASSUME NEW t \in Threads, ValidGivesUp(t) PROVE PlaceInv'
  <2>1. ProbeOK'
    BY <1>24 DEF ValidGivesUp, At, Goto, PlaceInv, ProbeOK, shared, Probing, Threads,
              TypeInv, TypeOK
  <2>2. ThreadPlaced(t)'
    BY <1>24 DEF ValidGivesUp, At, Goto, PlaceInv, ProbeOK, ThreadPlaced, Streaming,
              Place, shared, Probing, Threads, TypeInv, TypeOK
  <2>3. \A u \in Threads : u # t => SameRow(u)
    BY <1>24 DEF ValidGivesUp, Goto, table, SameRow, TypeInv, TypeOK
  <2>4. \A u \in Threads : u # t => ThreadPlaced(u)'
    BY <2>3, OthersPlaced DEF PlaceInv
  <2>5. NoWrongByte'
    BY <1>24 DEF ValidGivesUp, disk, PlaceInv, NoWrongByte
  <2> QED
    BY <2>1, <2>2, <2>4, <2>5 DEF PlaceInv
<1>25. ASSUME NEW t \in Threads, OpenFile(t) PROVE PlaceInv'
  <2>1. ProbeOK'
    BY <1>25 DEF OpenFile, At, Goto, PlaceInv, ProbeOK, shared, Probing, Threads,
              TypeInv, TypeOK
  <2>2. ThreadPlaced(t)'
    BY <1>25 DEF OpenFile, At, Goto, PlaceInv, ProbeOK, ThreadPlaced, Streaming, Place,
              shared, Probing, Threads, TypeInv, TypeOK
  <2>3. \A u \in Threads : u # t => SameRow(u)
    BY <1>25 DEF OpenFile, Goto, SameRow, TypeInv, TypeOK
  <2>4. \A u \in Threads : u # t => ThreadPlaced(u)'
    BY <2>3, OthersPlaced DEF PlaceInv
  <2>5. NoWrongByte'
    BY <1>25 DEF OpenFile, disk, PlaceInv, NoWrongByte
  <2> QED
    BY <2>1, <2>2, <2>4, <2>5 DEF PlaceInv
<1>26. ASSUME NEW t \in Threads, CheckSegment(t) PROVE PlaceInv'
  <2>1. ProbeOK'
    BY <1>26 DEF CheckSegment, At, Goto, PlaceInv, ProbeOK, table, shared, Probing,
              Threads, TypeInv, TypeOK
  <2>2. ThreadPlaced(t)'
    BY <1>26 DEF CheckSegment, At, Goto, PlaceInv, ProbeOK, ThreadPlaced, Streaming,
              Place, table, conn, shared, Probing, Threads, TypeInv, TypeOK
  <2>3. \A u \in Threads : u # t => SameRow(u)
    BY <1>26 DEF CheckSegment, Goto, table, conn, SameRow, TypeInv, TypeOK
  <2>4. \A u \in Threads : u # t => ThreadPlaced(u)'
    BY <2>3, OthersPlaced DEF PlaceInv
  <2>5. NoWrongByte'
    BY <1>26 DEF CheckSegment, disk, PlaceInv, NoWrongByte
  <2> QED
    BY <2>1, <2>2, <2>4, <2>5 DEF PlaceInv
<1>27. ASSUME NEW t \in Threads, CaclTask(t) PROVE PlaceInv'
  <2>1. t = 0 /\ cycle = 0 /\ cycle' = 1 /\ pc' = [pc EXCEPT ![0] = "open"]
    BY <1>27 DEF CaclTask, At, Goto, PlaceInv, ProbeOK
  <2>2. begin'[0] = 0 /\ got'[0] = 0
    <3>1. \A p \in Nat : SizePerThread(p) \in Int
      BY NAssumption DEF SizePerThread
    <3>2. \A p \in Nat : CaclBegin(p)[0] = 0
      BY <3>1, NAssumption DEF CaclBegin, Threads
    <3> QED
      BY <1>27, <2>1, <3>2, LengthsAssumption
         DEF CaclTask, PlaceInv, ProbeOK, TypeInv, TypeOK
  <2>3. \A u \in Threads : u # 0 => pc[u] = "absent" /\ pc'[u] = "absent"
    BY <2>1 DEF PlaceInv, ProbeOK, TypeInv, TypeOK
  <2>4. pc'[0] = "open" /\ UNCHANGED <<src, bad>>
    BY <1>27, <2>1 DEF CaclTask, conn, disk, TypeInv, TypeOK
  <2>5. ProbeOK'
    BY <2>1, <2>3, <2>4 DEF ProbeOK
  <2>6. ThreadPlaced(0)'
    BY <1>27, <2>1, <2>2, <2>4
       DEF CaclTask, At, PlaceInv, ProbeOK, ThreadPlaced, Place, Streaming
  <2>7. \A u \in Threads : u # 0 => ThreadPlaced(u)'
    BY <2>3 DEF ThreadPlaced, Streaming
  <2>8. NoWrongByte'
    BY <2>4 DEF PlaceInv, NoWrongByte
  <2> QED
    BY <2>5, <2>6, <2>7, <2>8 DEF PlaceInv
<1>28. ASSUME NEW t \in Threads, ReadData(t) PROVE PlaceInv'
  <2>1. cycle = 1
    BY <1>28, <1>0 DEF ReadData, At
  <2>2. PICK size \in ReadSizes :
          /\ src' = [src EXCEPT ![t] = @ + Rlen(t, size)]
          /\ off' = [off EXCEPT ![t] = @ + Rlen(t, size)]
          /\ got' = [got EXCEPT ![t] = @ + Rlen(t, size)]
    BY <1>28 DEF ReadData
  <2>3. Rlen(t, size) \in Nat
    BY <1>28, LengthsAssumption, ReadAssumption
       DEF ReadData, Rlen, TypeInv, TypeOK
  <2>4. off[t] = src[t] => bad' \subseteq bad
    BY <1>28 DEF ReadData
  <2>5. UNCHANGED <<begin, fsize,
            cycle>> /\ pc' = [pc EXCEPT ![t] = "check"] /\ pc[t] = "read"
    BY <1>28 DEF ReadData, At, Goto, shared
  <2>6. ProbeOK'
    BY <2>1, <2>5 DEF PlaceInv, ProbeOK, TypeInv, TypeOK
  <2>7. ThreadPlaced(t)'
    BY <2>2, <2>3, <2>5
       DEF PlaceInv, ThreadPlaced, Streaming, TypeInv, TypeOK
  <2>8. \A u \in Threads : u # t => SameRow(u)
    BY <2>2, <2>5 DEF SameRow, TypeInv, TypeOK
  <2>9. \A u \in Threads : u # t => ThreadPlaced(u)'
    BY <2>8, OthersPlaced DEF PlaceInv
  <2>10. NoWrongByte'
    BY <2>4, <2>5 DEF PlaceInv, ThreadPlaced, Streaming, NoWrongByte
  <2> QED
    BY <2>6, <2>7, <2>9, <2>10 DEF PlaceInv
<1>29. ASSUME CreateThreads PROVE PlaceInv'
  <2>1. cycle = 1 /\ cycle' = 1
    BY <1>29 DEF CreateThreads, PlaceInv, ProbeOK, TypeInv, TypeOK
  <2>2. \A u \in Threads : pc'[u] \in {pc[u], "connect"}
    BY <1>29 DEF CreateThreads
  <2>3. UNCHANGED <<begin, got, fsize, src, off, bad>>
    BY <1>29 DEF CreateThreads, table, conn, disk
  <2>4. ProbeOK'
    BY <2>1, <2>2 DEF PlaceInv, ProbeOK
  <2>5. \A u \in Threads : ThreadPlaced(u)'
    BY <2>2, <2>3 DEF PlaceInv, ThreadPlaced, Streaming, Place
  <2> QED
    BY <2>3, <2>4, <2>5 DEF PlaceInv, NoWrongByte
<1>30. ASSUME GiveUp \/ AllFinished \/ UNCHANGED vars PROVE PlaceInv'
  <2>1. UNCHANGED <<begin, got, fsize, src, off, bad, pc, cycle,
            first>> /\ main' \in {main, "end"}
    BY <1>30 DEF GiveUp, AllFinished, vars, table, conn, shared, disk
  <2> QED
    BY <2>1 DEF PlaceInv, ProbeOK, ThreadPlaced, Streaming, Place, NoWrongByte
<1> QED
  BY <1>1, <1>2, <1>3, <1>4, <1>5, <1>6, <1>7, <1>8, <1>9, <1>10, <1>11, <1>12, <1>13,
            <1>14, <1>15, <1>16, <1>17, <1>18, <1>19, <1>20, <1>21, <1>22, <1>23,
            <1>24, <1>25, <1>26, <1>27, <1>28, <1>29, <1>30
     DEF Next, Main, Thread, Connecting, Fetching, ReCaclTask, Leaving, Ended,
               FaultAgain

\* While a thread fetches a segment, it writes at the place its entry has
\* reached although others take parts of the segment away (mwget.cpp:497-545);
\* and if the server honours ranges, no byte of the file is ever wrong.
THEOREM Placement == Spec => [](InPlace /\ NoWrongByte)
<1>1. Init => TypeInv /\ PlaceInv
  <2>1. Init => TypeInv
    BY TypeInit
  <2>2. Init => PlaceInv
    BY NAssumption
       DEF Init, PlaceInv, ProbeOK, ThreadPlaced, Streaming, NoWrongByte, Threads
  <2> QED
    BY <2>1, <2>2
<1>2. TypeInv /\ PlaceInv /\ [Next]_vars => (TypeInv /\ PlaceInv)'
  BY TypeStep, PlaceStep
<1>3. PlaceInv => InPlace /\ NoWrongByte
  BY DEF PlaceInv, ThreadPlaced, InPlace
<1> QED
  BY <1>1, <1>2, <1>3, PTL DEF Spec

\* A file written by any number of threads from a server that honours ranges has
\* no wrong byte, however their segments overlap and whatever fails: request,
\* seek and count agree (mwget.cpp:495-532).
COROLLARY RightBytes == Spec => []NoWrongByte
  BY Placement, PTL

-----------------------------------------------------------------------------
(* CaclTask *)

\* The share of a thread is the quotient, rounded down (threadcacl.cpp:149).
LEMMA ShareBounds ==
    ASSUME NEW p \in Nat
    PROVE  /\ SizePerThread(p) \in Nat
           /\ N * SizePerThread(p) <= p
  BY NAssumption DEF SizePerThread

\* Multiplication by a share is monotonic.
LEMMA Monotonic ==
    ASSUME NEW s \in Nat, NEW a \in Nat, NEW b \in Nat, a < b
    PROVE  a * s + s <= b * s
<1>1. b * s = a * s + (b - a) * s
  OBVIOUS
<1>2. b - a \in Nat \ {0}
  OBVIOUS
<1>3. (b - a) * s >= s
  BY <1>2
<1> QED
  BY <1>1, <1>3

\* What thread t is given, as an interval.
LEMMA Share ==
    ASSUME NEW p \in Nat, NEW t \in Threads
    PROVE  Pending(CaclBegin(p)[t], 0, CaclTotal(p)[t]) =
              (t * SizePerThread(p)) ..
              (IF t = N - 1 THEN p - 1 ELSE t * SizePerThread(p) + SizePerThread(p) - 1)
<1> DEFINE s == SizePerThread(p)
<1>1. s \in Nat /\ t \in Int
  BY ShareBounds, NAssumption DEF Threads
<1>2. t * s \in Int
  BY <1>1
<1>3. CaclBegin(p)[t] = t * s
  BY DEF CaclBegin
<1>4. CaclTotal(p)[t] = IF t = N - 1 THEN p - t * s ELSE s
  BY DEF CaclTotal
<1> HIDE DEF s
<1> QED
  BY <1>1, <1>2, <1>3, <1>4 DEF Pending, s

\* The share of a thread is a segment of the task.
LEMMA ShareWithin ==
    ASSUME NEW p \in Nat, NEW t \in Threads
    PROVE  /\ CaclBegin(p)[t] \in Nat /\ CaclTotal(p)[t] \in Nat
           /\ CaclBegin(p)[t] + CaclTotal(p)[t] <= p
<1> DEFINE s == SizePerThread(p)
<1>1. s \in Nat /\ N * s <= p /\ t \in Nat /\ t < N /\ N \in Nat
  BY ShareBounds, NAssumption DEF Threads
<1>2. t * s + s <= N * s /\ t * s \in Nat /\ N * s \in Nat
  BY <1>1, Monotonic
<1>3. CaclBegin(p)[t] = t * s
  BY DEF CaclBegin
<1>4. CaclTotal(p)[t] = IF t = N - 1 THEN p - t * s ELSE s
  BY DEF CaclTotal
<1> HIDE DEF s
<1> QED
  BY <1>1, <1>2, <1>3, <1>4

\* No byte is given to two threads, whatever the size of the task and the
\* number of threads, a task smaller than the number of threads included.
THEOREM SharesDisjoint ==
    ASSUME NEW p \in Nat, NEW t \in Threads, NEW u \in Threads, t # u
    PROVE  Pending(CaclBegin(p)[t], 0, CaclTotal(p)[t]) \cap
           Pending(CaclBegin(p)[u], 0, CaclTotal(p)[u]) = {}
<1> DEFINE s == SizePerThread(p)
           Of(v) == Pending(CaclBegin(p)[v], 0, CaclTotal(p)[v])
<1>1. s \in Nat
  BY ShareBounds
<1>2. ASSUME NEW a \in Threads, NEW b \in Threads, a < b
      PROVE  Of(a) \cap Of(b) = {}
  <2>1. a \in Nat /\ b \in Nat /\ a # N - 1
    BY <1>2, NAssumption DEF Threads
  <2>2. a * s + s <= b * s /\ a * s \in Int /\ b * s \in Int
    BY <1>1, <1>2, <2>1, Monotonic
  <2>3. Of(a) = (a * s) .. (a * s + s - 1)
    BY <2>1, Share
  <2>4. Of(b) = (b * s) .. (IF b = N - 1 THEN p - 1 ELSE b * s + s - 1)
    BY Share
  <2>5. (IF b = N - 1 THEN p - 1 ELSE b * s + s - 1) \in Int
    BY <1>1, <2>2
  <2> HIDE DEF s, Of
  <2> QED
    BY <1>1, <2>2, <2>3, <2>4, <2>5
<1> HIDE DEF Of
<1>3. Of(t) \cap Of(u) = {}
  <2>1. CASE t < u
    BY <1>2, <2>1
  <2>2. CASE u < t
    BY <1>2, <2>2
  <2> QED
    BY <2>1, <2>2, NAssumption DEF Threads
<1> QED
  BY <1>3 DEF Of

\* Every byte of the task is given to a thread: the last one takes the
\* remainder, which is all of it when there are more threads than bytes.
THEOREM SharesCover ==
    ASSUME NEW p \in Nat, NEW i \in 0 .. p - 1
    PROVE  \E t \in Threads : i \in Pending(CaclBegin(p)[t], 0, CaclTotal(p)[t])
<1> DEFINE s == SizePerThread(p)
<1>1. s \in Nat
  BY ShareBounds
<1>2. N - 1 \in Threads /\ N - 1 \in Nat
  BY NAssumption DEF Threads
<1>3. CASE i >= (N - 1) * s
  <2>1. (N - 1) * s \in Int
    BY <1>1, <1>2
  <2>2. i \in Pending(CaclBegin(p)[N - 1], 0, CaclTotal(p)[N - 1])
    BY <1>2, <1>3, <2>1, Share
  <2> QED
    BY <1>2, <2>2
<1>4. CASE i < (N - 1) * s
  <2>1. s > 0
    <3>1. ASSUME s = 0 PROVE FALSE
      <4>1. (N - 1) * s = 0
        BY <3>1, <1>2
      <4> QED
        BY <4>1, <1>4
    <3> QED
      BY <3>1, <1>1
  <2> DEFINE t == i \div s
  <2>2. t \in Nat /\ t * s <= i /\ i < t * s + s
    BY <1>1, <2>1
  <2>3. t < N - 1
    <3>1. ASSUME N - 1 <= t PROVE FALSE
      <4>1. (N - 1) * s <= t * s
        <5>1. CASE N - 1 = t
          BY <5>1, <1>1, <2>2
        <5>2. CASE N - 1 < t
          <6>1. (N - 1) * s + s <= t * s
            BY <1>1, <1>2, <2>2, <5>2, Monotonic
          <6> QED
            BY <6>1, <1>1, <1>2, <2>2
        <5> QED
          BY <3>1, <5>1, <5>2, <1>2, <2>2
      <4>2. (N - 1) * s \in Int /\ t * s \in Int
        BY <1>1, <1>2, <2>2
      <4> QED
        BY <4>1, <4>2, <2>2, <1>4
    <3> QED
      BY <3>1, <1>2, <2>2
  <2>4. t \in Threads /\ t # N - 1
    BY <2>2, <2>3, NAssumption DEF Threads
  <2>5. t * s \in Int
    BY <1>1, <2>2
  <2>6. Pending(CaclBegin(p)[t], 0, CaclTotal(p)[t]) = (t * s) .. (t * s + s - 1)
    BY <2>4, Share
  <2>7. i \in (t * s) .. (t * s + s - 1)
    BY <2>2, <2>5, <1>1
  <2> QED
    BY <2>4, <2>6, <2>7
<1> QED
  BY <1>1, <1>2, <1>3, <1>4

-----------------------------------------------------------------------------
(* Where a thread is *)

\* Threads that have left: no label leads out of these.
Gone == {"exited", "returned"}

\* The part of ReCaclTask before anything is written.
Scanning == {"recalc", "scan", "pick", "minsplit"}

-----------------------------------------------------------------------------
(* What a step of one thread does to another *)

\* The pc and the locals of u that the invariants speak of are left alone.
SameLocals(u) ==
    /\ pc'[u] = pc[u] /\ plan'[u] = plan[u] /\ maxtc'[u] = maxtc[u]
    /\ left'[u] = left[u] /\ reg'[u] = reg[u] /\ no'[u] = no[u] /\ off'[u] = off[u]

\* The entry of u is left alone but for its total.
SameEntry(u) == begin'[u] = begin[u] /\ got'[u] = got[u]

\* A thread that takes a step has been created and has not left; it leaves main,
\* the size of the task and the phase of thread 0 alone, but for CaclTask.
LEMMA Alive ==
    ASSUME TypeInv, NEW t \in Threads, Thread(t)
    PROVE  /\ pc[t] \notin Gone \cup {"absent"}
           /\ main' = main
           /\ ~ CaclTask(t) => cycle' = cycle /\ taskSize' = taskSize
<1>1. main' = main /\ pc[t] \notin Gone \cup {"absent"}
  BY DEF Thread, Connecting, ConnectOk, ConnectFails, ConnectGivesUp, ValidOk, ValidFails,
         ValidGivesUp, CaclTask, Fetching, OpenFile, ReadData, EndOfData, CheckSegment, CloseSegment,
         ReCaclTask, StartRecacl, ScanSkip, ScanLonger, ScanPick, UseUninitialised, FaultAgain,
         TestStop, TestSplit, SetBegin, SetTotal, SetGot, SetOwnState, LoadVictim, StoreVictim,
         CloseVictim, Leaving, AfterRecacl, Tail,
         At, Gone, shared, vars
<1>2. ASSUME (Connecting(t) /\ ~ CaclTask(t)) \/ Fetching(t) \/ Leaving(t)
      PROVE  cycle' = cycle /\ taskSize' = taskSize
  BY <1>2
  DEF Connecting, ConnectOk, ConnectFails, ConnectGivesUp, ValidOk, ValidFails, ValidGivesUp,
      Fetching, OpenFile, ReadData, EndOfData, CheckSegment, CloseSegment,
      Leaving, AfterRecacl, Tail, shared, table
<1>3. ASSUME ReCaclTask(t) PROVE cycle' = cycle /\ taskSize' = taskSize
  BY <1>3
  DEF ReCaclTask, StartRecacl, ScanSkip, ScanLonger, ScanPick, UseUninitialised, FaultAgain,
      TestStop, TestSplit, SetBegin, SetTotal, SetGot, SetOwnState, LoadVictim, StoreVictim,
      CloseVictim, shared, table, vars
<1> QED
  BY <1>1, <1>2, <1>3 DEF Thread

\* A step of t changes no local of another thread; it closes another's entry or
\* cuts its total, and does nothing else to it (threadcacl.cpp:209-240).
LEMMA Foreign ==
    ASSUME TypeInv, NEW t \in Threads, NEW u \in Threads, u # t, Thread(t)
    PROVE  /\ SameLocals(u)
           /\ ~ CaclTask(t) =>
                 /\ SameEntry(u)
                 /\ state'[u] \in {state[u], "T_CLOSE"}
                 /\ ~ StoreVictim(t) => total'[u] = total[u]
<1> USE DEF At, Goto, SetState, SameLocals, SameEntry, Gone, table, conn, recacl, shared,
            disk, TypeInv, TypeOK
<1>1. CASE Connecting(t) /\ ~ CaclTask(t)
  BY <1>1 DEF Connecting, ConnectOk, ConnectFails, ConnectGivesUp, ValidOk, ValidFails,
              ValidGivesUp
<1>2. CASE CaclTask(t)
  BY <1>2 DEF CaclTask
<1>3. CASE Fetching(t)
  <2>1. CASE ReadData(t)
    BY <2>1 DEF ReadData
  <2> QED
    BY <1>3, <2>1 DEF Fetching, OpenFile, EndOfData, CheckSegment, CloseSegment
<1>4. CASE ReCaclTask(t)
  <2>1. CASE FaultAgain(t)
    BY <2>1 DEF FaultAgain, vars
  <2>2. CASE StartRecacl(t) \/ ScanSkip(t) \/ ScanLonger(t) \/ ScanPick(t) \/ UseUninitialised(t)
             \/ TestStop(t) \/ TestSplit(t) \/ LoadVictim(t)
    BY <2>2 DEF StartRecacl, ScanSkip, ScanLonger, ScanPick, UseUninitialised, TestStop,
                TestSplit, LoadVictim
  <2>3. CASE SetBegin(t) \/ SetTotal(t) \/ SetGot(t) \/ SetOwnState(t)
             \/ StoreVictim(t) \/ CloseVictim(t)
    BY <2>3 DEF SetBegin, SetTotal, SetGot, SetOwnState, StoreVictim, CloseVictim
  <2> QED
    BY <1>4, <2>1, <2>2, <2>3 DEF ReCaclTask
<1>5. CASE Leaving(t)
  BY <1>5 DEF Leaving, AfterRecacl, Tail
<1> QED
  BY <1>1, <1>2, <1>3, <1>4, <1>5 DEF Thread, Connecting

\* main and the end of the process change no local and no entry; CreateThreads
\* starts the threads that are absent (mwget.cpp:350-380).
LEMMA MainShape ==
    ASSUME TypeInv, Main \/ Ended \/ UNCHANGED vars
    PROVE  /\ UNCHANGED <<table, conn, recacl, disk, cycle, first, length>>
           /\ \/ pc' = pc /\ (main' = main \/ main' = "end")
              \/ /\ main = "wait" /\ main' = "run" /\ first = 0
                 /\ \A u \in Threads : pc'[u] = IF u = 0 THEN pc[u] ELSE "connect"
BY DEF Main, CreateThreads, GiveUp, AllFinished, Ended, vars, table, conn, recacl, shared, disk,
       TypeInv, TypeOK

\* A step is one of main or the end, or one of a thread.
LEMMA Steps == [Next]_vars => Main \/ Ended \/ UNCHANGED vars \/ \E t \in Threads : Thread(t)
BY DEF Next

-----------------------------------------------------------------------------
(* Where the threads are, and what their locals can be there *)

\* A thread that takes over has an entry of another for it; what it has taken from
\* a stopped one is not disturbed by its owner.
LocalsOK(t) ==
    /\ pc[t] \in Scanning => state[t] = "T_CLOSE"
    /\ state[t] = "T_STOP" => pc[t] \in Gone
    /\ plan[t] # "none" => /\ pc[t] \in Takeover \cup {"after"}
                           /\ maxtc[t] \in Threads \ {t}
    /\ plan[t] = "stop" => pc[maxtc[t]] \in Gone
    /\ plan[t] = "split" => left[t] >= 0
    /\ maxtc[t] \in {NoVictim, t} => left[t] = 0
    /\ pc[t] = "pick" => no[t] # t
    /\ pc[t] = "mark" => plan[t] = "stop"
    /\ maxtc[t] # NoVictim => pc[t] \in (Scanning \ {"recalc"}) \cup Takeover \cup {"after"}

\* A thread that streams is where its entry says, or the entry begins before the
\* file and everything up to the thread's place has been written.
OffOK(t) ==
    pc[t] \in {"read", "check", "close"} =>
        /\ begin[t] + got[t] <= off[t]
        /\ off[t] = begin[t] + got[t] \/ 0 .. off[t] - 1 \subseteq Written

\* The invariant of all that does not depend on what has been raced.
BaseInv ==
    /\ main = "wait" => \A t \in Threads \ {0} : pc[t] = "absent"
    /\ cycle = 0 => /\ taskSize = 0
                    /\ \A t \in Threads : begin[t] = 0 /\ got[t] = 0 /\ total[t] = 0
    /\ \A t \in Threads : LocalsOK(t) /\ OffOK(t)

\* A step of another thread leaves the locals of u in order.
LEMMA OthersLocals ==
    ASSUME TypeInv, PlaceInv, BaseInv, NEW t \in Threads, NEW u \in Threads, u # t, Thread(t)
    PROVE  LocalsOK(u)'
<1>1. pc[t] \notin Gone /\ SameLocals(u)
  BY Alive, Foreign
<1>2. ASSUME plan[u] = "stop" PROVE pc'[maxtc[u]] \in Gone
  <2>1. maxtc[u] \in Threads /\ pc[maxtc[u]] \in Gone
    BY <1>2 DEF BaseInv, LocalsOK
  <2>2. SameLocals(maxtc[u])
    BY <1>1, <2>1, Foreign
  <2> QED
    BY <2>1, <2>2 DEF SameLocals
<1>3. CASE CaclTask(t)
  <2>1. t = 0 /\ cycle = 0
    BY <1>3 DEF CaclTask, At, PlaceInv, ProbeOK
  <2>2. pc[u] = "absent" /\ (state'[u] = state[u] \/ state'[u] = "T_READY")
    BY <1>3, <2>1 DEF CaclTask, PlaceInv, ProbeOK
  <2> QED
    BY <1>1, <1>2, <2>2 DEF BaseInv, LocalsOK, SameLocals, Scanning, Takeover, Gone
<1>4. CASE ~ CaclTask(t)
  <2>1. state'[u] \in {state[u], "T_CLOSE"}
    BY <1>4, Foreign
  <2> QED
    BY <1>1, <1>2, <2>1 DEF BaseInv, LocalsOK, SameLocals
<1> QED
  BY <1>3, <1>4

\* A step of a thread leaves its own locals in order.
LEMMA OwnLocals ==
    ASSUME TypeInv, PlaceInv, BaseInv, NEW t \in Threads, Thread(t)
    PROVE  LocalsOK(t)'
<1>0. LocalsOK(t)
  BY DEF BaseInv
<1>1. CASE Connecting(t)
  <2>1. CASE CaclTask(t)
    BY <2>1, <1>0 DEF CaclTask, At, Goto, recacl, LocalsOK, Scanning, Gone, Takeover, TypeInv, TypeOK
  <2> QED
    BY <1>1, <2>1, <1>0
       DEF Connecting, ConnectOk, ConnectFails, ConnectGivesUp, ValidOk, ValidFails, ValidGivesUp,
           At, Goto, SetState, table, recacl, LocalsOK, Scanning, Gone, Takeover, TypeInv, TypeOK
<1>2. CASE Fetching(t)
  <2>1. CASE ReadData(t)
    BY <2>1, <1>0 DEF ReadData, At, Goto, recacl, LocalsOK, Scanning, Gone, Takeover, TypeInv, TypeOK
  <2> QED
    BY <1>2, <2>1, <1>0
       DEF Fetching, OpenFile, EndOfData, CheckSegment, CloseSegment,
           At, Goto, SetState, table, recacl, LocalsOK, Scanning, Gone, Takeover, TypeInv, TypeOK
<1>3. CASE ReCaclTask(t)
  <2> USE DEF At, Goto, SetState, table, recacl, LocalsOK, Scanning, Gone, Takeover, NoVictim, Elsewhere,
              TypeInv, TypeOK
  <2>1. CASE StartRecacl(t)
    BY <2>1, <1>0 DEF StartRecacl
  <2>2. CASE ScanSkip(t)
    BY <2>2, <1>0 DEF ScanSkip
  <2>3. CASE ScanLonger(t)
    BY <2>3, <1>0 DEF ScanLonger, Longer
  <2>4. CASE ScanPick(t)
    <3>1. no[t] \in Threads /\ no[t] # t /\ no[t] # NoVictim
      BY <2>4, <1>0, NAssumption DEF ScanPick, VictimOK, Threads
    <3>2. maxtc'[t] = no[t] /\ pc'[t] = "scan" /\ pc[t] = "pick" /\ plan' = plan /\ state' = state
      BY <2>4 DEF ScanPick
    <3> QED
      BY <3>1, <3>2, <1>0
  <2>5. CASE UseUninitialised(t)
    BY <2>5, <1>0 DEF UseUninitialised
  <2>6. CASE FaultAgain(t)
    BY <2>6, <1>0 DEF FaultAgain, vars
  <2>7. CASE TestStop(t)
    <3>1. CASE maxtc[t] # Elsewhere /\ state[maxtc[t]] = "T_STOP"
      <4>1. maxtc[t] \in Threads
        BY <2>7, <3>1 DEF TestStop
      <4>2. pc[maxtc[t]] \in Gone
        BY <4>1, <3>1 DEF BaseInv
      <4>3. maxtc[t] # t
        BY <2>7, <4>2 DEF TestStop
      <4> QED
        BY <2>7, <3>1, <4>1, <4>2, <4>3, <1>0 DEF TestStop, Plans
    <3>2. CASE ~ (maxtc[t] # Elsewhere /\ state[maxtc[t]] = "T_STOP")
      BY <2>7, <3>2, <1>0 DEF TestStop
    <3> QED
      BY <3>1, <3>2
  <2>8. CASE TestSplit(t)
    <3>1. \A s : MinSplit(s) \in Nat
      BY SplitAssumption DEF MinSplit
    <3>2. plan'[t] \in {"split", "none"} /\ (plan'[t] = "split" => maxtc[t] # Elsewhere /\ left[t] > 0)
      BY <2>8, <3>1 DEF TestSplit
    <3>3. pc[t] = "minsplit" /\ pc'[t] = "begin" /\ maxtc[t] # NoVictim
      BY <2>8 DEF TestSplit, VictimOK
    <3> QED
      BY <2>8, <3>2, <3>3, <1>0 DEF TestSplit
  <2>9. CASE SetBegin(t) \/ SetTotal(t) \/ SetGot(t) \/ SetOwnState(t) \/ LoadVictim(t)
             \/ StoreVictim(t) \/ CloseVictim(t)
    <3>1. maxtc' = maxtc /\ plan' = plan /\ left' = left /\ no' = no
      BY <2>9 DEF SetBegin, SetTotal, SetGot, SetOwnState, LoadVictim, StoreVictim, CloseVictim
    <3>2. pc[t] \in Takeover /\ pc'[t] \in (Takeover \cup {"after"}) \ {"begin"}
      BY <2>9 DEF SetBegin, SetTotal, SetGot, SetOwnState, LoadVictim, StoreVictim, CloseVictim
    <3>5. pc'[t] = "mark" => plan'[t] = "stop"
      BY <2>9, <1>0 DEF SetBegin, SetTotal, SetGot, SetOwnState, LoadVictim, StoreVictim, CloseVictim
    <3>3. state'[t] = "T_STOP" => state[t] = "T_STOP"
      BY <2>9 DEF SetBegin, SetTotal, SetGot, SetOwnState, LoadVictim, StoreVictim, CloseVictim
    <3>4. \A w \in Threads \ {t} : pc'[w] = pc[w]
      BY <1>3, Foreign DEF Thread, SameLocals
    <3> QED
      BY <3>1, <3>2, <3>3, <3>4, <3>5, <1>0
  <2> QED
    BY <1>3, <2>1, <2>2, <2>3, <2>4, <2>5, <2>6, <2>7, <2>8, <2>9 DEF ReCaclTask
<1>4. CASE Leaving(t)
  BY <1>4, <1>0 DEF Leaving, AfterRecacl, Tail, At, Goto, SetState, table, recacl, LocalsOK, Scanning, Gone,
                    Takeover, NoVictim, TypeInv, TypeOK
<1> QED
  BY <1>1, <1>2, <1>3, <1>4 DEF Thread

\* A step that leaves a thread and its entry alone leaves its place in order: what has
\* been written stays written.
LEMMA OthersOff ==
    ASSUME NEW u \in Threads, OffOK(u), SameLocals(u), SameEntry(u), Written \subseteq Written'
    PROVE  OffOK(u)'
BY DEF OffOK, SameLocals, SameEntry

\* No step takes a byte out of the file.
LEMMA Monotone == TypeInv /\ [Next]_vars => Written \subseteq Written'
<1> SUFFICES ASSUME TypeInv, [Next]_vars PROVE Written \subseteq Written'
  OBVIOUS
<1>1. ASSUME NEW t \in Threads, Thread(t) PROVE Written \subseteq Written'
  <2>1. CASE ReadData(t)
    BY <2>1 DEF ReadData, Written
  <2>2. CASE ~ ReadData(t)
    <3>1. good' = good /\ bad' = bad
      BY <1>1, <2>2
         DEF Thread, Connecting, ConnectOk, ConnectFails, ConnectGivesUp, ValidOk, ValidFails,
             ValidGivesUp, CaclTask, Fetching, OpenFile, EndOfData, CheckSegment, CloseSegment,
             ReCaclTask, StartRecacl, ScanSkip, ScanLonger, ScanPick, UseUninitialised,
             FaultAgain, TestStop, TestSplit, SetBegin, SetTotal, SetGot, SetOwnState, LoadVictim,
             StoreVictim, CloseVictim, Leaving, AfterRecacl, Tail, disk, vars
    <3> QED
      BY <3>1 DEF Written
  <2> QED
    BY <2>1, <2>2
<1>2. CASE Main \/ Ended \/ UNCHANGED vars
  BY <1>2, MainShape DEF disk, Written
<1> QED
  BY <1>1, <1>2, Steps

\* What ReadData writes, and how far it counts (mwget.cpp:531-532).
LEMMA ReadStep ==
    ASSUME TypeInv, NEW t \in Threads, ReadData(t)
    PROVE  \E n \in Nat :
              /\ got' = [got EXCEPT ![t] = @ + n]
              /\ off' = [off EXCEPT ![t] = @ + n]
              /\ Written' = Written \cup (off[t] .. off[t] + n - 1)
<1>1. PICK size \in ReadSizes :
          /\ off' = [off EXCEPT ![t] = @ + Rlen(t, size)]
          /\ got' = [got EXCEPT ![t] = @ + Rlen(t, size)]
          /\ IF off[t] = src[t]
                THEN /\ good' = good \cup Block(t, Rlen(t, size))
                     /\ bad' = bad \ Block(t, Rlen(t, size))
                ELSE /\ good' = good \ Block(t, Rlen(t, size))
                     /\ bad' = bad \cup Block(t, Rlen(t, size))
  BY DEF ReadData
<1>2. Rlen(t, size) \in Nat
  BY LengthsAssumption, ReadAssumption DEF ReadData, Rlen, TypeInv, TypeOK
<1>3. Written' = Written \cup Block(t, Rlen(t, size))
  BY <1>1 DEF Written
<1> QED
  BY <1>1, <1>2, <1>3 DEF Block

\* A step of a thread leaves its own place in order.
LEMMA OwnOff ==
    ASSUME TypeInv, PlaceInv, BaseInv, NEW t \in Threads, Thread(t), Written \subseteq Written'
    PROVE  OffOK(t)'
<1>0. OffOK(t)
  BY DEF BaseInv
<1> USE DEF At, Goto, SetState, table, conn, TypeInv, TypeOK
<1>1. CASE ReadData(t)
  <2>1. PICK n \in Nat : /\ got' = [got EXCEPT ![t] = @ + n]
                         /\ off' = [off EXCEPT ![t] = @ + n]
                         /\ Written' = Written \cup (off[t] .. off[t] + n - 1)
    BY <1>1, ReadStep
  <2>2. pc[t] = "read" /\ begin' = begin
    BY <1>1 DEF ReadData
  <2>3. begin[t] + got[t] <= off[t] /\ (off[t] = begin[t] + got[t] \/ 0 .. off[t] - 1 \subseteq Written)
    BY <1>0, <2>2 DEF OffOK
  <2>4. got'[t] = got[t] + n /\ off'[t] = off[t] + n
    BY <2>1
  <2>5. CASE off[t] = begin[t] + got[t]
    BY <2>2, <2>4, <2>5 DEF OffOK
  <2>6. CASE 0 .. off[t] - 1 \subseteq Written
    <3>1. 0 .. off'[t] - 1 \subseteq (0 .. off[t] - 1) \cup (off[t] .. off[t] + n - 1)
      BY <2>4
    <3> QED
      BY <2>1, <2>2, <2>3, <2>4, <2>6, <3>1 DEF OffOK
  <2> QED
    BY <2>3, <2>5, <2>6
<1>2. CASE OpenFile(t)
  BY <1>2 DEF OpenFile, OffOK
<1>3. CASE CheckSegment(t)
  BY <1>0, <1>3 DEF CheckSegment, OffOK
<1>4. CASE ~ ReadData(t) /\ ~ OpenFile(t) /\ ~ CheckSegment(t) /\ Thread(t)
  <2>1. pc'[t] \notin {"read", "check", "close"}
    <3>1. CASE FaultAgain(t)
      BY <3>1 DEF FaultAgain, vars
    <3> QED
      BY <1>4, <3>1
         DEF Thread, Connecting, ConnectOk, ConnectFails, ConnectGivesUp, ValidOk, ValidFails,
             ValidGivesUp, CaclTask, Fetching, EndOfData, CloseSegment,
             ReCaclTask, StartRecacl, ScanSkip, ScanLonger, ScanPick, UseUninitialised,
             TestStop, TestSplit, SetBegin, SetTotal, SetGot, SetOwnState, LoadVictim,
             StoreVictim, CloseVictim, Leaving, AfterRecacl, Tail
  <2> QED
    BY <2>1 DEF OffOK
<1> QED
  BY <1>1, <1>2, <1>3, <1>4

\* Before the task is cut, nothing but CaclTask writes an entry.
LEMMA BeforeTask ==
    ASSUME TypeInv, PlaceInv, NEW t \in Threads, Thread(t), cycle = 0, ~ CaclTask(t)
    PROVE  UNCHANGED <<begin, got, total, taskSize>>
<1>1. pc[t] \in {"absent", "connect", "valid", "cacl", "exited", "returned"}
  BY DEF PlaceInv, ProbeOK
<1> QED
  BY <1>1
  DEF Thread, Connecting, ConnectOk, ConnectFails, ConnectGivesUp, ValidOk, ValidFails,
         ValidGivesUp, Fetching, OpenFile, ReadData, EndOfData, CheckSegment, CloseSegment,
         ReCaclTask, StartRecacl, ScanSkip, ScanLonger, ScanPick, UseUninitialised, FaultAgain,
         TestStop, TestSplit, SetBegin, SetTotal, SetGot, SetOwnState, LoadVictim, StoreVictim,
         CloseVictim, Leaving, AfterRecacl, Tail,
      At, SetState, table, vars

\* The invariant is inductive.
LEMMA BaseStep == TypeInv /\ PlaceInv /\ BaseInv /\ [Next]_vars => BaseInv'
<1> SUFFICES ASSUME TypeInv, PlaceInv, BaseInv, [Next]_vars PROVE BaseInv'
  OBVIOUS
<1>0. Written \subseteq Written'
  BY Monotone
<1>1. ASSUME NEW t \in Threads, Thread(t) PROVE BaseInv'
  <2>1. \A u \in Threads : LocalsOK(u)'
    BY <1>1, OwnLocals, OthersLocals
  <2>2. \A u \in Threads : OffOK(u)'
    <3>1. ASSUME NEW u \in Threads, u # t PROVE OffOK(u)'
      <4>1. CASE CaclTask(t)
        <5>1. cycle = 0 /\ t = 0
          BY <4>1 DEF CaclTask, At, PlaceInv, ProbeOK
        <5>2. pc'[u] = "absent"
          BY <1>1, <3>1, <5>1, Foreign DEF PlaceInv, ProbeOK, SameLocals
        <5> QED
          BY <5>2 DEF OffOK
      <4>2. CASE ~ CaclTask(t)
        BY <1>0, <1>1, <3>1, <4>2, Foreign, OthersOff DEF BaseInv
      <4> QED
        BY <4>1, <4>2
    <3> QED
      BY <1>0, <1>1, <3>1, OwnOff
  <2>3. main' = "wait" => \A u \in Threads \ {0} : pc'[u] = "absent"
    <3>1. main' = main
      BY <1>1, Alive
    <3>2. ASSUME main = "wait" PROVE t = 0
      BY <1>1, <3>2, Alive DEF BaseInv
    <3> QED
      BY <1>1, <3>1, <3>2, Foreign DEF BaseInv, SameLocals
  <2>4. cycle' = 0 => /\ taskSize' = 0
                      /\ \A u \in Threads : begin'[u] = 0 /\ got'[u] = 0 /\ total'[u] = 0
    <3>1. CASE CaclTask(t)
      BY <3>1 DEF CaclTask
    <3> QED
      BY <1>1, <3>1, Alive, BeforeTask DEF BaseInv
  <2> QED
    BY <2>1, <2>2, <2>3, <2>4 DEF BaseInv
<1>2. CASE Main \/ Ended \/ UNCHANGED vars
  <2>1. /\ UNCHANGED <<table, conn, recacl, disk, cycle, first, length>>
        /\ \/ pc' = pc /\ (main' = main \/ main' = "end")
           \/ /\ main = "wait" /\ main' = "run" /\ first = 0
              /\ \A u \in Threads : pc'[u] = IF u = 0 THEN pc[u] ELSE "connect"
    BY <1>2, MainShape
  <2>2. \A u \in Threads : pc'[u] = pc[u] \/ (pc[u] = "absent" /\ pc'[u] = "connect")
    BY <2>1 DEF BaseInv
  <2>3. ASSUME NEW u \in Threads PROVE LocalsOK(u)'
    BY <2>1, <2>2 DEF BaseInv, LocalsOK, table, recacl, Scanning, Gone, Takeover
  <2>4. ASSUME NEW u \in Threads PROVE OffOK(u)'
    BY <2>1, <2>2, <1>0 DEF BaseInv, OffOK, table, conn
  <2> QED
    BY <2>1, <2>2, <2>3, <2>4 DEF BaseInv, table
<1> QED
  BY <1>1, <1>2, Steps

\* Typing, placing and the above hold in every reachable state of the program.
LEMMA BaseInit == Init => TypeInv /\ PlaceInv /\ BaseInv
<1>1. Init => TypeInv
  BY TypeInit
<1>2. Init => PlaceInv
  BY NAssumption
     DEF Init, PlaceInv, ProbeOK, ThreadPlaced, Streaming, NoWrongByte, Threads
<1>3. Init => BaseInv
  BY DEF Init, BaseInv, LocalsOK, OffOK, Scanning, Gone
<1> QED
  BY <1>1, <1>2, <1>3

-----------------------------------------------------------------------------
(* The history variables *)

mcvars == <<vars, clash, rival>>

\* clash and rival tell of the state they are in, too.
RaceInv == (Clashing => clash) /\ (Rivalling => rival)

\* Nobody has chosen or reduced anything at the start.
LEMMA RaceInit == MCInit => RaceInv
BY DEF MCInit, Init, RaceInv, Clashing, Rivalling, Splitting, Chosen, Threads

\* They are never taken back.
LEMMA RaceStep ==
    RaceInv /\ [MCNext]_mcvars =>
        RaceInv' /\ [Next]_vars /\ (~ clash' => ~ clash /\ ~ Clashing) /\ (~ rival' => ~ rival /\ ~ Rivalling)
<1> SUFFICES ASSUME RaceInv, [MCNext]_mcvars
             PROVE  RaceInv' /\ [Next]_vars /\ (~ clash' => ~ clash /\ ~ Clashing)
                    /\ (~ rival' => ~ rival /\ ~ Rivalling)
  OBVIOUS
<1>1. CASE MCNext
  BY <1>1 DEF MCNext, RaceInv
<1>2. CASE UNCHANGED mcvars
  <2>1. UNCHANGED <<pc, plan, maxtc, clash, rival>> /\ UNCHANGED vars
    BY <1>2 DEF mcvars, vars, recacl
  <2>2. (Clashing' <=> Clashing) /\ (Rivalling' <=> Rivalling)
    BY <2>1 DEF Clashing, Rivalling, Splitting, Chosen
  <2> QED
    BY <2>1, <2>2 DEF RaceInv
<1> QED
  BY <1>1, <1>2

-----------------------------------------------------------------------------
(* Until a clash, a thread that takes over knows its victim's entry *)

\* What t has written into its own entry fits the victim's entry as it is now, and
\* nothing of its old segment is left.
MoveOK(t) ==
    /\ pc[t] \in {"scan", "pick", "minsplit", "begin", "total"} => got[t] >= total[t]
    /\ pc[t] \in {"total", "got"} /\ plan[t] = "split" =>
          begin[t] = begin[maxtc[t]] + total[maxtc[t]] - Amount(t)
    /\ pc[t] \in {"total", "got"} /\ plan[t] = "stop" =>
          begin[t] = begin[maxtc[t]] + got[maxtc[t]]
    /\ pc[t] = "got" => total[t] = (IF plan[t] = "none" THEN 0 ELSE Amount(t))
    /\ pc[t] = "store" => reg[t] = total[maxtc[t]]

\* The invariant of a takeover, up to a clash.
MoveInv == ~ clash => \A t \in Threads : MoveOK(t)

\* A thread between its choice and its store excludes others from its victim.
LEMMA Excluded ==
    ASSUME ~ Clashing, NEW t \in Threads, NEW u \in Threads, t # u
    PROVE  /\ Splitting(t) /\ Splitting(u) => maxtc[t] # maxtc[u]
           /\ Chosen(t) /\ maxtc[t] = u => pc[u] \notin {"begin", "total", "got", "state"}
BY DEF Clashing

\* What a thread takes is a number; from a live victim it is not negative.
LEMMA Amounts ==
    ASSUME TypeInv, BaseInv, NEW t \in Threads
    PROVE  /\ Amount(t) \in Int
           /\ plan[t] = "split" => Amount(t) >= 0 /\ Amount(t) <= left[t]
           /\ plan[t] = "stop" => Amount(t) = left[t]
BY DEF TypeInv, TypeOK, BaseInv, LocalsOK, Amount, BinLeft

\* The store into the victim's entry (threadcacl.cpp:213, 234).
LEMMA StoreStep ==
    ASSUME TypeInv, BaseInv, NEW t \in Threads, MoveOK(t), StoreVictim(t)
    PROVE  /\ plan[t] # "none" /\ maxtc[t] \in Threads \ {t} /\ pc[t] = "store"
           /\ Splitting(t) /\ Chosen(t)
           /\ total' = [total EXCEPT ![maxtc[t]] = @ - Amount(t)]
<1>1. pc[t] = "store" /\ plan[t] # "none"
  BY DEF StoreVictim, At, TypeInv, VictimOK
<1>2. maxtc[t] \in Threads \ {t}
  BY <1>1 DEF BaseInv, LocalsOK
<1>3. reg[t] = total[maxtc[t]]
  BY <1>1 DEF MoveOK
<1> QED
  BY <1>1, <1>2, <1>3 DEF StoreVictim, Splitting, Chosen

\* A thread writes its own entry in SetBegin, SetTotal, SetGot and ReadData only.
LEMMA OwnEntry ==
    ASSUME TypeInv, BaseInv, NEW t \in Threads, MoveOK(t), Thread(t), ~ CaclTask(t)
    PROVE  /\ ~ SetBegin(t) => begin'[t] = begin[t]
           /\ ~ SetTotal(t) => total'[t] = total[t]
           /\ ~ SetGot(t) /\ ~ ReadData(t) => got'[t] = got[t]
<1>1. CASE StoreVictim(t)
  <2>1. total'[t] = total[t]
    BY <1>1, StoreStep DEF TypeInv, TypeOK
  <2> QED
    BY <1>1, <2>1 DEF StoreVictim
<1>2. CASE (Connecting(t) /\ ~ CaclTask(t)) \/ Leaving(t)
  BY <1>2
  DEF Connecting, ConnectOk, ConnectFails, ConnectGivesUp, ValidOk, ValidFails, ValidGivesUp,
      Leaving, AfterRecacl, Tail, table
<1>3. CASE Fetching(t)
  BY <1>3
  DEF Fetching, OpenFile, ReadData, EndOfData, CheckSegment, CloseSegment, table
<1>4. CASE ReCaclTask(t) /\ ~ StoreVictim(t) /\ ~ SetBegin(t) /\ ~ SetTotal(t) /\ ~ SetGot(t)
  BY <1>4
  DEF ReCaclTask, StartRecacl, ScanSkip, ScanLonger, ScanPick, UseUninitialised, FaultAgain,
      TestStop, TestSplit, SetOwnState, LoadVictim, CloseVictim, table, vars
<1>5. CASE SetBegin(t) \/ SetTotal(t) \/ SetGot(t)
  BY <1>5 DEF SetBegin, SetTotal, SetGot
<1> QED
  BY <1>1, <1>2, <1>3, <1>4, <1>5 DEF Thread, ReCaclTask

\* SetBegin, by what is planned (threadcacl.cpp:209, 229, 240).
LEMMA BeginStep ==
    ASSUME TypeInv, NEW t \in Threads, SetBegin(t)
    PROVE  /\ plan[t] = "stop" => begin'[t] = begin[maxtc[t]] + got[maxtc[t]]
           /\ plan[t] = "split" => begin'[t] = begin[maxtc[t]] + total[maxtc[t]] - BinLeft(left[t])
           /\ plan[t] = "none" => begin'[t] = taskSize
<1> DEFINE b == CASE plan[t] = "stop"  -> begin[maxtc[t]] + got[maxtc[t]]
            [] plan[t] = "split" -> begin[maxtc[t]] + total[maxtc[t]] - BinLeft(left[t])
            [] plan[t] = "none"  -> taskSize
<1>1. begin' = [begin EXCEPT ![t] = b]
  BY DEF SetBegin
<1>2. begin'[t] = b
  <2> HIDE DEF b
  <2> QED
    BY <1>1 DEF TypeInv, TypeOK
<1>3. /\ plan[t] = "stop" => b = begin[maxtc[t]] + got[maxtc[t]]
      /\ plan[t] = "split" => b = begin[maxtc[t]] + total[maxtc[t]] - BinLeft(left[t])
      /\ plan[t] = "none" => b = taskSize
  OBVIOUS
<1> QED
  BY <1>2, <1>3

\* What a step of another thread may do to the total of u.
LEMMA OthersTotal ==
    ASSUME TypeInv, BaseInv, ~ Clashing, NEW t \in Threads, MoveOK(t), Thread(t), ~ CaclTask(t),
           NEW u \in Threads, u # t
    PROVE  /\ total'[u] \in Int
           /\ total'[u] = total[u] \/ total'[u] = total[u] - Amount(t)
           /\ pc[u] \notin Gone => total'[u] <= total[u]
           /\ pc[u] \in {"begin", "total", "got", "state"} => total'[u] = total[u]
           /\ (\A v \in Threads : Splitting(v) => maxtc[v] # u) => total'[u] = total[u]
           /\ (\E v \in Threads \ {t} : Splitting(v) /\ maxtc[v] = u) => total'[u] = total[u]
<1>1. CASE StoreVictim(t) /\ maxtc[t] = u
  <2>1. /\ plan[t] # "none" /\ Splitting(t) /\ Chosen(t)
        /\ total'[u] = total[u] - Amount(t)
    BY <1>1, StoreStep DEF TypeInv, TypeOK
  <2>2. pc[u] \notin {"begin", "total", "got", "state"}
    BY <1>1, <2>1, Excluded
  <2>3. plan[t] \in {"stop", "split"}
    BY <2>1 DEF TypeInv, TypeOK, Plans
  <2>4. plan[t] = "stop" => pc[u] \in Gone
    BY <1>1 DEF BaseInv, LocalsOK
  <2>5. Amount(t) \in Int /\ total[u] \in Int /\ (plan[t] = "split" => Amount(t) >= 0)
    BY Amounts DEF TypeInv, TypeOK
  <2>6. \A v \in Threads \ {t} : ~ (Splitting(v) /\ maxtc[v] = u)
    BY <1>1, <2>1, Excluded
  <2> QED
    BY <1>1, <2>1, <2>2, <2>3, <2>4, <2>5, <2>6
<1>2. CASE ~ (StoreVictim(t) /\ maxtc[t] = u)
  <2>1. total'[u] = total[u]
    <3>1. CASE StoreVictim(t)
      BY <1>2, <3>1, StoreStep DEF TypeInv, TypeOK
    <3> QED
      BY <3>1, Foreign
  <2> QED
    BY <2>1 DEF TypeInv, TypeOK
<1> QED
  BY <1>1, <1>2

\* The victim of u, when u is about to place its segment or to reduce the victim.
LEMMA VictimKept ==
    ASSUME TypeInv, BaseInv, ~ Clashing, NEW t \in Threads, MoveOK(t), Thread(t), ~ CaclTask(t),
           NEW u \in Threads, u # t, Splitting(u)
    PROVE  /\ maxtc[u] \in Threads \ {u}
           /\ begin'[maxtc[u]] = begin[maxtc[u]]
           /\ total'[maxtc[u]] = total[maxtc[u]]
           /\ plan[u] = "stop" => got'[maxtc[u]] = got[maxtc[u]]
<1> DEFINE w == maxtc[u]
<1>1. w \in Threads \ {u} /\ Chosen(u)
  BY DEF BaseInv, LocalsOK, Splitting, Chosen
<1>2. CASE w = t
  <2>1. pc[t] \notin {"begin", "total", "got", "state"}
    BY <1>1, <1>2, Excluded
  <2>2. ~ SetBegin(t) /\ ~ SetTotal(t) /\ ~ SetGot(t)
    BY <2>1 DEF SetBegin, SetTotal, SetGot, At
  <2>3. plan[u] = "stop" => FALSE
    BY <1>2, Alive DEF BaseInv, LocalsOK
  <2> QED
    BY <1>1, <1>2, <2>2, <2>3, OwnEntry
<1>3. CASE w # t
  <2>1. SameEntry(w)
    BY <1>1, <1>3, Foreign
  <2>2. total'[w] = total[w]
    BY <1>1, <1>3, OthersTotal
  <2> QED
    BY <1>1, <2>1, <2>2 DEF SameEntry
<1> QED
  BY <1>2, <1>3

\* A step of another thread does not come between u and its victim.
LEMMA OthersMove ==
    ASSUME TypeInv, PlaceInv, BaseInv, ~ Clashing, NEW t \in Threads, MoveOK(t), Thread(t),
           NEW u \in Threads, u # t, MoveOK(u)
    PROVE  MoveOK(u)'
<1>0. SameLocals(u)
  BY Foreign
<1>1. CASE CaclTask(t)
  <2>1. pc'[u] = "absent"
    BY <1>0, <1>1 DEF CaclTask, At, PlaceInv, ProbeOK, SameLocals
  <2> QED
    BY <2>1 DEF MoveOK
<1>2. CASE ~ CaclTask(t)
  <2>1. SameEntry(u)
    BY <1>2, Foreign
  <2>2. /\ pc[u] \notin Gone => total'[u] <= total[u]
        /\ pc[u] \in {"begin", "total", "got", "state"} => total'[u] = total[u]
        /\ total'[u] \in Int /\ total[u] \in Int /\ got[u] \in Int
    BY <1>2, OthersTotal DEF TypeInv, TypeOK
  <2>3. Amount(u)' = Amount(u)
    BY <1>0 DEF Amount, SameLocals
  <2>4. pc[u] = "store" => plan[u] # "none"
    BY DEF TypeInv, VictimOK
  <2>5. pc[u] \in {"total", "got", "store"} /\ plan[u] # "none" =>
           /\ begin'[maxtc[u]] = begin[maxtc[u]]
           /\ total'[maxtc[u]] = total[maxtc[u]]
           /\ plan[u] = "stop" => got'[maxtc[u]] = got[maxtc[u]]
    BY <1>2, VictimKept DEF Splitting
  <2>6. pc'[u] \in {"scan", "pick", "minsplit", "begin", "total"} => got'[u] >= total'[u]
    BY <1>0, <2>1, <2>2 DEF MoveOK, SameLocals, SameEntry, Gone
  <2>7. pc'[u] \in {"total", "got"} /\ plan'[u] = "split" =>
          begin'[u] = begin'[maxtc'[u]] + total'[maxtc'[u]] - Amount(u)'
    BY <1>0, <2>1, <2>3, <2>5 DEF MoveOK, SameLocals, SameEntry
  <2>8. pc'[u] \in {"total", "got"} /\ plan'[u] = "stop" =>
          begin'[u] = begin'[maxtc'[u]] + got'[maxtc'[u]]
    BY <1>0, <2>1, <2>5 DEF MoveOK, SameLocals, SameEntry
  <2>9. /\ pc'[u] = "got" => total'[u] = (IF plan'[u] = "none" THEN 0 ELSE Amount(u)')
        /\ pc'[u] = "store" => reg'[u] = total'[maxtc'[u]]
    BY <1>0, <2>2, <2>3, <2>4, <2>5 DEF MoveOK, SameLocals
  <2> QED
    BY <2>6, <2>7, <2>8, <2>9 DEF MoveOK
<1> QED
  BY <1>1, <1>2

\* A thread enters and leaves a takeover in order.
LEMMA OwnMove ==
    ASSUME TypeInv, PlaceInv, BaseInv, ~ Clashing, NEW t \in Threads, MoveOK(t), Thread(t)
    PROVE  MoveOK(t)'
<1> USE DEF At, Goto, SetState
<1>1. CASE SetBegin(t)
  <2>1. /\ pc[t] = "begin" /\ pc'[t] = "total"
        /\ UNCHANGED <<got, total, plan, maxtc, left, reg>>
    BY <1>1 DEF SetBegin, recacl, TypeInv, TypeOK
  <2>2. plan[t] # "none" => maxtc[t] \in Threads \ {t}
    BY DEF BaseInv, LocalsOK
  <2>3. plan[t] # "none" => begin'[maxtc[t]] = begin[maxtc[t]]
    BY <1>1, <2>2 DEF SetBegin, TypeInv, TypeOK
  <2>4. /\ plan[t] = "stop" => begin'[t] = begin[maxtc[t]] + got[maxtc[t]]
        /\ plan[t] = "split" => begin'[t] = begin[maxtc[t]] + total[maxtc[t]] - BinLeft(left[t])
    BY <1>1, BeginStep
  <2>5. plan[t] = "split" => Amount(t)' = BinLeft(left[t])
    BY <2>1 DEF Amount
  <2> QED
    BY <2>1, <2>3, <2>4, <2>5 DEF MoveOK
<1>2. CASE SetTotal(t)
  <2>1. /\ pc[t] = "total" /\ pc'[t] = "got"
        /\ UNCHANGED <<begin, got, plan, maxtc, left, reg>>
        /\ total' = [total EXCEPT ![t] = IF plan[t] = "none" THEN 0 ELSE Amount(t)]
    BY <1>2 DEF SetTotal, recacl, TypeInv, TypeOK
  <2>2. plan[t] # "none" => maxtc[t] \in Threads \ {t}
    BY DEF BaseInv, LocalsOK
  <2>3. plan[t] # "none" => total'[maxtc[t]] = total[maxtc[t]]
    BY <2>1, <2>2 DEF TypeInv, TypeOK
  <2>4. Amount(t)' = Amount(t)
    BY <2>1 DEF Amount
  <2>5. total'[t] = IF plan[t] = "none" THEN 0 ELSE Amount(t)
    BY <2>1 DEF TypeInv, TypeOK
  <2> QED
    BY <2>1, <2>3, <2>4, <2>5 DEF MoveOK
<1>3. CASE LoadVictim(t)
  BY <1>3 DEF LoadVictim, MoveOK, table, TypeInv, TypeOK
<1>4. CASE StartRecacl(t)
  BY <1>4 DEF StartRecacl, MoveOK, table, TypeInv, TypeOK
<1>5. CASE ScanSkip(t) \/ ScanLonger(t) \/ ScanPick(t) \/ UseUninitialised(t) \/ TestStop(t) \/ TestSplit(t)
  <2>1. /\ pc[t] \in {"scan", "pick", "minsplit"} /\ pc'[t] \in {"scan", "pick", "minsplit", "begin", "fault"}
        /\ got' = got /\ total' = total
    BY <1>5 DEF ScanSkip, ScanLonger, ScanPick, UseUninitialised, TestStop, TestSplit, table, TypeInv, TypeOK
  <2> QED
    BY <2>1 DEF MoveOK
<1>6. CASE Connecting(t) \/ Fetching(t) \/ Leaving(t) \/ SetGot(t) \/ SetOwnState(t) \/ StoreVictim(t)
           \/ CloseVictim(t) \/ FaultAgain(t)
  <2>1. pc'[t] \notin {"scan", "pick", "minsplit", "begin", "total", "got", "store"}
    BY <1>6
    DEF Connecting, ConnectOk, ConnectFails, ConnectGivesUp, ValidOk, ValidFails, ValidGivesUp, CaclTask,
        Fetching, OpenFile, ReadData, EndOfData, CheckSegment, CloseSegment, Leaving, AfterRecacl, Tail,
        SetGot, SetOwnState, StoreVictim, CloseVictim, FaultAgain, vars, TypeInv, TypeOK
  <2> QED
    BY <2>1 DEF MoveOK
<1> QED
  BY <1>1, <1>2, <1>3, <1>4, <1>5, <1>6 DEF Thread, ReCaclTask

\* A step of main, or none, changes nothing that MoveOK, or a takeover, speaks of.
LEMMA MainKeeps ==
    ASSUME TypeInv, BaseInv, Main \/ Ended \/ UNCHANGED vars
    PROVE  /\ UNCHANGED <<begin, got, total, state, taskSize, cycle, plan, maxtc, left, reg, good, bad>>
           /\ main' \in {main, "run", "end"}
           /\ \A u \in Threads : pc'[u] = pc[u] \/ (pc[u] = "absent" /\ pc'[u] = "connect")
<1>1. /\ UNCHANGED <<table, conn, recacl, disk, cycle, first, length>>
      /\ \/ pc' = pc /\ (main' = main \/ main' = "end")
         \/ /\ main = "wait" /\ main' = "run" /\ first = 0
            /\ \A u \in Threads : pc'[u] = IF u = 0 THEN pc[u] ELSE "connect"
  BY MainShape
<1> QED
  BY <1>1 DEF BaseInv, table, recacl, disk

\* The invariant is kept by every step.
LEMMA MoveStep ==
    ASSUME TypeInv, PlaceInv, BaseInv, RaceInv, MoveInv, [MCNext]_mcvars
    PROVE  MoveInv'
<1> SUFFICES ASSUME ~ clash', NEW u \in Threads PROVE MoveOK(u)'
  BY DEF MoveInv
<1>1. ~ clash /\ ~ Clashing /\ [Next]_vars
  BY RaceStep
<1>2. \A v \in Threads : MoveOK(v)
  BY <1>1 DEF MoveInv
<1>3. ASSUME NEW t \in Threads, Thread(t) PROVE MoveOK(u)'
  BY <1>1, <1>2, <1>3, OwnMove, OthersMove
<1>4. CASE Main \/ Ended \/ UNCHANGED vars
  <2>1. /\ UNCHANGED <<begin, got, total, state, taskSize, cycle, plan, maxtc, left, reg, good, bad>>
        /\ \A v \in Threads : pc'[v] = pc[v] \/ (pc[v] = "absent" /\ pc'[v] = "connect")
    BY <1>4, MainKeeps
  <2>2. Amount(u)' = Amount(u)
    BY <2>1 DEF Amount
  <2> QED
    BY <1>2, <2>1, <2>2 DEF MoveOK
<1> QED
  BY <1>1, <1>3, <1>4, Steps
-----------------------------------------------------------------------------
(* Who is to fetch a byte *)

\* v has its segment and has not yet cut it off the entry of t.
Reserves(v, t) == plan[v] # "none" /\ pc[v] \in {"state", "load", "store"} /\ maxtc[v] = t

\* Byte i is t's to fetch: pending in t's entry and not in the part that is being
\* cut off.  A takeover hands a byte over in SetGot, at one step.
Fetches(t, i) ==
    /\ begin[t] + got[t] <= i
    /\ i < begin[t] + total[t]
    /\ \A v \in Threads : Reserves(v, t) => i < begin[t] + total[t] - Amount(v)

\* A step of t leaves to u what was u's, unless t takes it over.
LEMMA OthersFetch ==
    ASSUME TypeInv, BaseInv, ~ Clashing, NEW t \in Threads, MoveOK(t), Thread(t), ~ CaclTask(t),
           NEW u \in Threads, u # t, NEW i \in Int, Fetches(u, i), ~ (SetGot(t) /\ plan[t] # "none" /\ maxtc[t] = u)
    PROVE  Fetches(u, i)'
<1>1. SameEntry(u) /\ begin[u] \in Int /\ got[u] \in Int /\ total[u] \in Int
  BY Foreign DEF TypeInv, TypeOK
<1>2. ASSUME NEW v \in Threads \ {t} PROVE (Reserves(v, u)' <=> Reserves(v, u)) /\ Amount(v)' = Amount(v)
  BY Foreign DEF SameLocals, Reserves, Amount
<1>3. CASE StoreVictim(t) /\ maxtc[t] = u
  <2>1. /\ Splitting(t) /\ total'[u] = total[u] - Amount(t) /\ Reserves(t, u)
    BY <1>3, StoreStep DEF Reserves, TypeInv, TypeOK
  <2>2. i < begin[u] + total'[u]
    BY <2>1, <1>1 DEF Fetches
  <2>3. \A v \in Threads : ~ Reserves(v, u)'
    <3>1. ~ Reserves(t, u)'
      BY <1>3 DEF StoreVictim, Goto, Reserves, TypeInv, TypeOK
    <3>2. ASSUME NEW v \in Threads \ {t}, Reserves(v, u) PROVE FALSE
      BY <3>2, <2>1, <1>3, Excluded DEF Reserves, Splitting
    <3> QED
      BY <3>1, <3>2, <1>2
  <2> QED
    BY <1>1, <2>2, <2>3 DEF Fetches, SameEntry
<1>4. CASE ~ (StoreVictim(t) /\ maxtc[t] = u)
  <2>1. total'[u] = total[u]
    <3>1. CASE StoreVictim(t)
      BY <1>4, <3>1, StoreStep DEF TypeInv, TypeOK
    <3> QED
      BY <3>1, Foreign
  <2>2. Reserves(t, u)' => Reserves(t, u) /\ Amount(t)' = Amount(t)
    <3>1. CASE SetOwnState(t) \/ LoadVictim(t)
      BY <3>1 DEF SetOwnState, LoadVictim, At, Goto, recacl, Reserves, Amount, TypeInv, TypeOK
    <3>2. CASE SetGot(t)
      BY <3>2 DEF SetGot, recacl, Reserves
    <3>3. CASE FaultAgain(t)
      BY <3>3 DEF FaultAgain, At, vars, recacl, Reserves, Amount
    <3>4. CASE ~ SetOwnState(t) /\ ~ LoadVictim(t) /\ ~ SetGot(t) /\ ~ FaultAgain(t)
      <4>1. pc'[t] \notin {"state", "load", "store"}
        BY <3>4
        DEF Thread, Connecting, ConnectOk, ConnectFails, ConnectGivesUp, ValidOk, ValidFails, ValidGivesUp,
            CaclTask, Fetching, OpenFile, ReadData, EndOfData, CheckSegment, CloseSegment, Leaving,
            AfterRecacl, Tail, ReCaclTask, StartRecacl, ScanSkip, ScanLonger, ScanPick,
            UseUninitialised, TestStop, TestSplit, SetBegin, SetTotal, StoreVictim, CloseVictim,
            At, Goto, TypeInv, TypeOK
      <4> QED
        BY <4>1 DEF Reserves
    <3> QED
      BY <3>1, <3>2, <3>3, <3>4
  <2>3. ASSUME NEW v \in Threads, Reserves(v, u)' PROVE i < begin'[u] + total'[u] - Amount(v)'
    BY <2>3, <2>1, <2>2, <1>1, <1>2 DEF Fetches, SameEntry
  <2> QED
    BY <1>1, <2>1, <2>3 DEF Fetches, SameEntry
<1> QED
  BY <1>3, <1>4

\* Nobody takes from the entry of t while t writes it.
LEMMA Unreserved ==
    ASSUME BaseInv, ~ Clashing, NEW t \in Threads, pc[t] \in {"begin", "total", "got", "state"}, NEW v \in Threads
    PROVE  ~ Reserves(v, t)
<1>1. ASSUME v = t, Reserves(v, t) PROVE FALSE
  BY <1>1 DEF Reserves, BaseInv, LocalsOK
<1>2. ASSUME v # t, Reserves(v, t) PROVE FALSE
  BY <1>2, Excluded DEF Reserves, Chosen
<1> QED
  BY <1>1, <1>2

\* A step of t leaves to t what was t's, or writes it.
LEMMA OwnFetch ==
    ASSUME TypeInv, BaseInv, BaseInv', ~ Clashing, NEW t \in Threads, MoveOK(t), Thread(t), ~ CaclTask(t),
           NEW i \in Nat, Fetches(t, i)
    PROVE  Fetches(t, i)' \/ i \in Written'
<1>1. begin[t] \in Int /\ got[t] \in Nat /\ total[t] \in Int
  BY DEF TypeInv, TypeOK
<1>2. ASSUME NEW v \in Threads, Reserves(v, t)' PROVE Reserves(v, t) /\ Amount(v)' = Amount(v)
  <2>1. v # t
    BY <1>2 DEF Reserves, BaseInv, LocalsOK
  <2> QED
    BY <1>2, <2>1, Foreign DEF SameLocals, Reserves, Amount
<1>3. CASE SetBegin(t) \/ SetTotal(t)
  <2>1. got[t] >= total[t]
    BY <1>3 DEF SetBegin, SetTotal, At, MoveOK
  <2> QED
    BY <2>1, <1>1 DEF Fetches
<1>4. CASE SetGot(t)
  <2>1. begin'[t] = begin[t] /\ total'[t] = total[t] /\ got'[t] = 0
    BY <1>4, OwnEntry DEF SetGot, SetBegin, SetTotal, At, TypeInv, TypeOK
  <2> QED
    BY <2>1, <1>1, <1>2 DEF Fetches
<1>5. CASE ReadData(t)
  <2>1. PICK n \in Nat : /\ got' = [got EXCEPT ![t] = @ + n]
                         /\ off' = [off EXCEPT ![t] = @ + n]
                         /\ Written' = Written \cup (off[t] .. off[t] + n - 1)
    BY <1>5, ReadStep
  <2>2. begin'[t] = begin[t] /\ total'[t] = total[t] /\ got'[t] = got[t] + n
    BY <1>5, <2>1 DEF ReadData, TypeInv, TypeOK
  <2>3. begin[t] + got[t] <= off[t] /\ (off[t] = begin[t] + got[t] \/ 0 .. off[t] - 1 \subseteq Written)
    BY <1>5 DEF ReadData, At, BaseInv, OffOK
  <2>4. off[t] \in Nat
    BY DEF TypeInv, TypeOK
  <2>5. CASE i < begin[t] + got[t] + n
    <3>1. CASE i >= off[t]
      BY <1>1, <2>1, <2>3, <2>4, <2>5, <3>1
    <3>2. CASE i < off[t]
      BY <1>1, <2>1, <2>3, <2>4, <3>2 DEF Fetches
    <3> QED
      BY <3>1, <3>2, <2>4
  <2>6. CASE i >= begin[t] + got[t] + n
    BY <1>1, <1>2, <2>2, <2>6 DEF Fetches
  <2> QED
    BY <2>5, <2>6, <1>1
<1>6. CASE ~ SetBegin(t) /\ ~ SetTotal(t) /\ ~ SetGot(t) /\ ~ ReadData(t)
  <2>1. begin'[t] = begin[t] /\ total'[t] = total[t] /\ got'[t] = got[t]
    BY <1>6, OwnEntry
  <2> QED
    BY <2>1, <1>1, <1>2 DEF Fetches
<1> QED
  BY <1>3, <1>4, <1>5, <1>6

\* What t thought was left of its victim is no less than what is; with a wild pointer
\* it may think that nothing is.
Measured(t) ==
    \/ left[t] >= total[maxtc[t]] - got[maxtc[t]]
    \/ "wild" \in Faults /\ left[t] = 0

\* In SetGot t takes over a part of its victim's segment, and leaves it the rest.
LEMMA Handover ==
    ASSUME TypeInv, BaseInv, ~ Clashing, NEW t \in Threads, MoveOK(t), SetGot(t), plan[t] # "none",
           Measured(t), NEW u \in Threads, u = maxtc[t], NEW i \in Int, Fetches(u, i)
    PROVE  Fetches(u, i)' \/ Fetches(t, i)'
<1>1. /\ pc[t] = "got" /\ u \in Threads \ {t} /\ plan[t] \in {"stop", "split"}
      /\ Splitting(t)
  BY DEF SetGot, At, BaseInv, LocalsOK, Splitting, TypeInv, TypeOK, Plans
<1>2. /\ UNCHANGED <<begin, total, plan, left, maxtc>> /\ got' = [got EXCEPT ![t] = 0]
      /\ \A v \in Threads \ {t} : pc'[v] = pc[v]
  BY DEF SetGot, Goto, recacl, TypeInv, TypeOK
<1>3. /\ begin[t] \in Int /\ begin[u] \in Int /\ total[u] \in Int /\ got[u] \in Nat /\ Amount(t) \in Int
      /\ total[t] = Amount(t) /\ got'[t] = 0 /\ got'[u] = got[u]
  BY <1>1, <1>2, Amounts DEF MoveOK, TypeInv, TypeOK
<1>4. \A v \in Threads : Amount(v)' = Amount(v)
  BY <1>2 DEF Amount
<1>5. \A v \in Threads : ~ Reserves(v, t)'
  <2>1. ASSUME NEW v \in Threads \ {t} PROVE ~ Reserves(v, t)'
    BY <1>1, <1>2, Unreserved DEF Reserves
  <2>2. ~ Reserves(t, t)'
    BY <1>1, <1>2 DEF Reserves
  <2> QED
    BY <2>1, <2>2
<1>6. ASSUME NEW v \in Threads \ {t} PROVE ~ Reserves(v, u)'
  BY <1>1, <1>2, Excluded DEF Reserves, Splitting
<1>7. Fetches(u, i)' <=> begin[u] + got[u] <= i /\ i < begin[u] + total[u] /\ (Reserves(t, u)' => i < begin[u] + total[u] - Amount(t))
  BY <1>2, <1>3, <1>4, <1>6 DEF Fetches
<1>8. Fetches(t, i)' <=> begin[t] <= i /\ i < begin[t] + Amount(t)
  BY <1>2, <1>3, <1>5 DEF Fetches
<1>9. begin[u] + got[u] <= i /\ i < begin[u] + total[u]
  BY DEF Fetches
<1>10. CASE plan[t] = "split"
  <2>1. begin[t] = begin[u] + total[u] - Amount(t)
    BY <1>1, <1>10 DEF MoveOK
  <2> QED
    BY <2>1, <1>3, <1>7, <1>8, <1>9
<1>11. CASE plan[t] = "stop"
  <2>1. begin[t] = begin[u] + got[u] /\ Amount(t) = left[t]
    BY <1>1, <1>11, Amounts DEF MoveOK
  <2> QED
    BY <2>1, <1>3, <1>7, <1>8, <1>9 DEF Measured
<1> QED
  BY <1>1, <1>10, <1>11

-----------------------------------------------------------------------------
(* No byte is lost until a clash *)

\* Every byte of the task is in the file or is for one of the threads in Real to fetch.
Complete(Real) == \A i \in Task : i \in Written \/ \E t \in Real : Fetches(t, i)

\* A thread that has chosen one of Real knows at least all that is left of it.
WellChosen(Real) == \A t \in Threads : Chosen(t) /\ maxtc[t] \in Real => Measured(t)

\* Without a wild pointer, a thread of Real that has left has given up, and a stopped
\* thread that has been taken over is not in Real.
WellLeft(Real) ==
    "wild" \notin Faults =>
        \A t \in Threads :
            /\ pc[t] = "exited" /\ t \in Real => state[t] = "T_STOP"
            /\ pc[t] = "mark" => maxtc[t] \notin Real

\* Real are the threads whose entries still count.  An entry stops to count when its
\* thread has nothing left and leaves, or when its thread has given up and another has
\* taken all that was left: a late taker may still add to the total of such an entry,
\* and what it adds is somebody else's.
CoverInv ==
    cycle = 1 /\ ~ clash =>
        \E Real \in SUBSET Threads : Complete(Real) /\ WellChosen(Real) /\ WellLeft(Real)

\* CaclTask gives every byte to a thread.
LEMMA CoverCacl ==
    ASSUME TypeInv, PlaceInv, BaseInv, NEW t \in Threads, CaclTask(t)
    PROVE  Complete(Threads)' /\ WellChosen(Threads)' /\ WellLeft(Threads)'
<1>1. /\ t = 0 /\ cycle = 0
      /\ pc'[0] = "open" /\ \A u \in Threads \ {0} : pc'[u] = "absent"
  BY DEF CaclTask, At, Goto, PlaceInv, ProbeOK, TypeInv, TypeOK
<1>2. WellChosen(Threads)' /\ WellLeft(Threads)'
  BY <1>1 DEF WellChosen, WellLeft, Chosen
<1>3. \A u, v \in Threads : ~ Reserves(v, u)'
  BY <1>1 DEF Reserves
<1>4. PICK p \in Nat : /\ taskSize' = p
                       /\ p > 0 => begin' = CaclBegin(p) /\ got' = [u \in Threads |-> 0] /\ total' = CaclTotal(p)
  BY LengthsAssumption DEF CaclTask, TypeInv, TypeOK
<1>5. ASSUME NEW i \in 0 .. p - 1 PROVE \E u \in Threads : Fetches(u, i)'
  <2>1. PICK u \in Threads : i \in Pending(CaclBegin(p)[u], 0, CaclTotal(p)[u])
    BY SharesCover
  <2>2. begin'[u] = CaclBegin(p)[u] /\ got'[u] = 0 /\ total'[u] = CaclTotal(p)[u] /\ i \in Int
    BY <1>4
  <2>3. CaclBegin(p)[u] \in Int /\ CaclTotal(p)[u] \in Int
    BY CaclTaskType
  <2>4. Fetches(u, i)'
    BY <1>3, <2>1, <2>2, <2>3 DEF Fetches, Pending
  <2> QED
    BY <2>4
<1>6. Complete(Threads)'
  BY <1>4, <1>5 DEF Complete, Task
<1> QED
  BY <1>2, <1>6

\* The threads that count after a step of t.
NextReal(t, Real) ==
    IF SetGot(t) THEN Real \cup {t}
    ELSE IF AfterRecacl(t) \/ Tail(t) THEN IF pc'[t] = "exited" THEN Real \ {t} ELSE Real
    ELSE IF StoreVictim(t) /\ plan[t] = "stop" /\ left[t] >= total[maxtc[t]] - got[maxtc[t]]
         THEN Real \ {maxtc[t]}
         ELSE Real

\* An entry that stops to count has nothing left of the task.
LEMMA Dropped ==
    ASSUME TypeInv, BaseInv, ~ Clashing, NEW t \in Threads, MoveOK(t), Thread(t), NEW Real \in SUBSET Threads,
           NEW u \in Real, u \notin NextReal(t, Real), NEW i \in Task
    PROVE  ~ Fetches(u, i)
<1>1. begin[u] \in Int /\ got[u] \in Nat /\ total[u] \in Int /\ i \in Int /\ i < taskSize
  BY DEF Task, TypeInv, TypeOK
<1>2. CASE AfterRecacl(t)
  <2>1. u = t /\ pc'[t] = "exited"
    BY <1>2 DEF NextReal
  <2>2. total[t] = 0
    BY <1>2, <2>1 DEF AfterRecacl, Goto, TypeInv, TypeOK
  <2> QED
    BY <1>1, <2>1, <2>2 DEF Fetches
<1>3. CASE Tail(t)
  <2>1. u = t /\ pc'[t] = "exited"
    BY <1>3 DEF NextReal
  <2>2. begin[t] >= taskSize
    BY <1>3, <2>1 DEF Tail, Goto, TypeInv, TypeOK
  <2>3. taskSize \in Int
    BY DEF TypeInv, TypeOK
  <2> QED
    BY <1>1, <2>1, <2>2, <2>3 DEF Fetches
<1>4. CASE ~ AfterRecacl(t) /\ ~ Tail(t)
  <2>1. u = maxtc[t] /\ StoreVictim(t) /\ plan[t] = "stop" /\ left[t] >= total[u] - got[u]
    BY <1>4 DEF NextReal
  <2>2. Reserves(t, u) /\ Amount(t) = left[t] /\ left[t] \in Int
    BY <2>1, Amounts DEF StoreVictim, At, Reserves, TypeInv, TypeOK
  <2> QED
    BY <1>1, <2>1, <2>2 DEF Fetches
<1> QED
  BY <1>2, <1>3, <1>4

\* No byte loses the thread that is to fetch it.
LEMMA CompleteStep ==
    ASSUME TypeInv, BaseInv, BaseInv', ~ Clashing, NEW t \in Threads, \A v \in Threads : MoveOK(v),
           Thread(t), ~ CaclTask(t), Written \subseteq Written',
           NEW Real \in SUBSET Threads, Complete(Real), WellChosen(Real),
           NEW New \in SUBSET Threads, New = NextReal(t, Real)
    PROVE  Complete(New)'
<1>1. Task' = Task /\ Task \subseteq Nat
  BY Alive DEF Task
<1>2. ASSUME NEW i \in Task, i \notin Written' PROVE \E u \in New : Fetches(u, i)'
  <2>1. PICK u \in Real : Fetches(u, i)
    BY <1>2 DEF Complete
  <2>2. u \in New
    BY <2>1, Dropped
  <2>3. i \in Nat
    BY <1>1
  <2>4. CASE u = t
    BY <1>2, <2>1, <2>2, <2>3, <2>4, OwnFetch
  <2>5. CASE u # t /\ SetGot(t) /\ plan[t] # "none" /\ maxtc[t] = u
    <3>1. Chosen(t)
      BY <2>5 DEF SetGot, At, Chosen, BaseInv, LocalsOK
    <3>2. Measured(t)
      BY <2>1, <2>5, <3>1 DEF WellChosen
    <3>3. Fetches(u, i)' \/ Fetches(t, i)'
      BY <2>1, <2>3, <2>5, <3>2, Handover
    <3>4. t \in New
      BY <2>5 DEF NextReal
    <3> QED
      BY <2>2, <3>3, <3>4
  <2>6. CASE u # t /\ ~ (SetGot(t) /\ plan[t] # "none" /\ maxtc[t] = u)
    BY <2>1, <2>2, <2>3, <2>6, OthersFetch
  <2> QED
    BY <2>4, <2>5, <2>6
<1>3. \A i \in Task : i \in Written' \/ \E u \in New : Fetches(u, i)'
  BY <1>2
<1> QED
  BY <1>1, <1>3 DEF Complete

\* A thread that has chosen its victim and goes on has not looked at it again, nor changed it.
LEMMA ChosenStep ==
    ASSUME TypeInv, BaseInv, NEW t \in Threads, Thread(t), ~ ScanPick(t), ~ UseUninitialised(t), Chosen(t)'
    PROVE  /\ Chosen(t) /\ maxtc'[t] = maxtc[t] /\ left'[t] = left[t]
           /\ total'[maxtc[t]] = total[maxtc[t]] /\ got'[maxtc[t]] = got[maxtc[t]]
           /\ ~ AfterRecacl(t) /\ ~ Tail(t) /\ ~ StoreVictim(t)
<1> DEFINE w == maxtc[t]
<1> USE DEF At, Goto
<1>0. maxtc'[t] \in Threads
  BY DEF Chosen
<1>1. CASE ScanSkip(t) \/ ScanLonger(t) \/ TestStop(t) \/ TestSplit(t)
  <2>1. /\ maxtc' = maxtc /\ left' = left /\ total' = total /\ got' = got
        /\ pc[t] \in {"scan", "pick", "minsplit"}
    BY <1>1 DEF ScanSkip, ScanLonger, TestStop, TestSplit, table, recacl
  <2>2. maxtc[t] \in Threads
    BY <1>0, <2>1
  <2> QED
    BY <2>1, <2>2 DEF Chosen, AfterRecacl, Tail, StoreVictim
<1>2. CASE SetBegin(t) \/ SetTotal(t) \/ SetGot(t) \/ SetOwnState(t) \/ LoadVictim(t)
  <2>1. /\ plan[t] # "none" /\ pc[t] \in {"begin", "total", "got", "state", "load"}
        /\ maxtc' = maxtc /\ left' = left
    BY <1>2
    DEF SetBegin, SetTotal, SetGot, SetOwnState, LoadVictim, Chosen, recacl, TypeInv, TypeOK, VictimOK
  <2>2. w \in Threads \ {t}
    BY <2>1 DEF BaseInv, LocalsOK
  <2>3. total'[w] = total[w] /\ got'[w] = got[w]
    BY <1>2, <2>2
    DEF SetBegin, SetTotal, SetGot, SetOwnState, LoadVictim, table, TypeInv, TypeOK
  <2>4. ~ AfterRecacl(t) /\ ~ Tail(t) /\ ~ StoreVictim(t)
    BY <2>1 DEF AfterRecacl, Tail, StoreVictim
  <2> QED
    BY <2>1, <2>2, <2>3, <2>4 DEF Chosen
<1>3. CASE FaultAgain(t)
  BY <1>3 DEF FaultAgain, Chosen, vars
<1>4. CASE Connecting(t) \/ Fetching(t) \/ Leaving(t) \/ StartRecacl(t) \/ StoreVictim(t) \/ CloseVictim(t)
  <2>1. StartRecacl(t) => maxtc'[t] = maxtc[t]
    BY DEF StartRecacl, recacl
  <2>2. pc'[t] \in {"scan", "pick", "minsplit", "begin", "total", "got", "state", "load", "store"}
           => StartRecacl(t)
    BY <1>4
    DEF Connecting, ConnectOk, ConnectFails, ConnectGivesUp, ValidOk, ValidFails, ValidGivesUp, CaclTask,
        Fetching, OpenFile, ReadData, EndOfData, CheckSegment, CloseSegment, Leaving, AfterRecacl, Tail,
        StoreVictim, CloseVictim, TypeInv, TypeOK
  <2>3. StartRecacl(t)
    BY <2>2 DEF Chosen
  <2>4. maxtc'[t] = NoVictim
    BY <2>1, <2>3 DEF StartRecacl, BaseInv, LocalsOK, Scanning, Takeover
  <2> QED
    BY <1>0, <2>4 DEF NoVictim, Threads
<1> QED
  BY <1>1, <1>2, <1>3, <1>4 DEF Thread, ReCaclTask

\* Whoever has chosen an entry that counts still knows at least what is left of it.
LEMMA WellChosenStep ==
    ASSUME TypeInv, BaseInv, ~ Clashing, NEW t \in Threads, \A v \in Threads : MoveOK(v),
           Thread(t), ~ CaclTask(t),
           NEW Real \in SUBSET Threads, WellChosen(Real),
           NEW New \in SUBSET Threads, New = NextReal(t, Real)
    PROVE  WellChosen(New)'
<1> SUFFICES ASSUME NEW v \in Threads, Chosen(v)', maxtc'[v] \in New PROVE Measured(v)'
  BY DEF WellChosen
<1> DEFINE w == maxtc'[v]
<1>0. w \in Threads /\ total[w] \in Int /\ got[w] \in Int /\ left[v] \in Int
  BY DEF Chosen, TypeInv, TypeOK
<1>1. CASE v # t
  <2>1. /\ SameLocals(v) /\ maxtc[v] = w /\ Chosen(v)
    BY <1>1, Foreign DEF SameLocals, Chosen
  <2>2. w \in Real
    <3>1. w = t => ~ SetGot(t)
      BY <1>1, <2>1, Excluded DEF SetGot, At
    <3> QED
      BY <3>1 DEF NextReal
  <2>3. Measured(v)
    BY <2>1, <2>2 DEF WellChosen
  <2>4. total'[w] <= total[w] /\ got'[w] >= got[w] /\ total'[w] \in Int /\ got'[w] \in Int
    <3>1. CASE w = t
      <4>1. pc[t] \notin {"begin", "total", "got", "state"}
        BY <1>1, <2>1, <3>1, Excluded
      <4>2. total'[t] = total[t]
        BY <4>1, OwnEntry DEF SetTotal, At
      <4>3. got'[t] >= got[t] /\ got'[t] \in Int
        <5>1. CASE ReadData(t)
          BY <5>1, ReadStep DEF TypeInv, TypeOK
        <5>2. CASE ~ ReadData(t)
          BY <4>1, <5>2, OwnEntry DEF SetGot, At, TypeInv, TypeOK
        <5> QED
          BY <5>1, <5>2
      <4> QED
        BY <1>0, <3>1, <4>2, <4>3
    <3>2. CASE w # t
      <4>1. got'[w] = got[w]
        BY <1>0, <3>2, Foreign DEF SameEntry
      <4>2. CASE StoreVictim(t) /\ maxtc[t] = w
        <5>1. total'[w] = total[w] - Amount(t) /\ plan[t] # "none" /\ Chosen(t) /\ w \in Threads \ {t}
          BY <4>2, StoreStep DEF TypeInv, TypeOK
        <5>2. Amount(t) \in Int /\ (plan[t] = "split" => Amount(t) >= 0) /\ (plan[t] = "stop" => Amount(t) = left[t])
          BY Amounts
        <5>3. plan[t] = "stop" => left[t] = 0
          <6>1. ASSUME plan[t] = "stop" PROVE ~ (left[t] >= total[w] - got[w])
            BY <4>2, <6>1 DEF NextReal, SetGot, AfterRecacl, Tail, StoreVictim, At
          <6>2. Measured(t)
            BY <2>2, <4>2, <5>1 DEF WellChosen
          <6> QED
            BY <4>2, <6>1, <6>2 DEF Measured
        <5>4. plan[t] \in {"stop", "split"}
          BY <5>1 DEF TypeInv, TypeOK, Plans
        <5> QED
          BY <1>0, <4>1, <5>1, <5>2, <5>3, <5>4
      <4>3. CASE ~ (StoreVictim(t) /\ maxtc[t] = w)
        <5>1. total'[w] = total[w]
          <6>1. CASE StoreVictim(t)
            BY <1>0, <4>3, <6>1, StoreStep DEF TypeInv, TypeOK
          <6> QED
            BY <1>0, <3>2, <6>1, Foreign
        <5> QED
          BY <1>0, <4>1, <5>1
      <4> QED
        BY <4>2, <4>3
    <3> QED
      BY <3>1, <3>2
  <2>5. left'[v] = left[v] /\ maxtc'[v] = w
    BY <2>1 DEF SameLocals
  <2> QED
    BY <1>0, <2>1, <2>3, <2>4, <2>5 DEF Measured
<1>2. CASE v = t
  <2> USE DEF At, Goto
  <2>1. CASE ScanPick(t)
    <3>1. left'[t] = total[no[t]] - got[no[t]] /\ maxtc'[t] = no[t] /\ total' = total /\ got' = got
      BY <1>2, <2>1 DEF ScanPick, table, TypeInv, TypeOK
    <3>2. left'[v] = total'[w] - got'[w] /\ total'[w] \in Int /\ got'[w] \in Int
      BY <1>0, <1>2, <3>1
    <3> QED
      BY <3>2 DEF Measured
  <2>2. CASE UseUninitialised(t)
    <3>1. "wild" \in Faults
      <4>1. CASE "wild" \notin Faults
        <5>1. maxtc' = [maxtc EXCEPT ![t] = Elsewhere]
          BY <2>2, <4>1 DEF UseUninitialised
        <5>2. maxtc'[v] = Elsewhere
          BY <1>2, <5>1 DEF TypeInv, TypeOK
        <5> QED
          BY <1>0, <5>2 DEF Elsewhere, Threads
      <4> QED
        BY <4>1
    <3>2. left'[t] = 0
      BY <2>2 DEF UseUninitialised, BaseInv, LocalsOK
    <3> QED
      BY <1>0, <1>2, <3>1, <3>2 DEF Measured
  <2>3. CASE ~ ScanPick(t) /\ ~ UseUninitialised(t)
    <3>1. /\ Chosen(t) /\ maxtc'[t] = maxtc[t] /\ left'[t] = left[t]
          /\ total'[w] = total[w] /\ got'[w] >= got[w] /\ got'[w] \in Int
          /\ w \in Real \/ SetGot(t)
      BY <1>0, <1>2, <2>3, ChosenStep DEF NextReal
    <3>2. w \in Real
      <4>1. CASE SetGot(t)
        <5>1. w # t
          BY <1>2, <3>1, <4>1 DEF SetGot, Chosen, BaseInv, LocalsOK
        <5> QED
          BY <4>1, <5>1 DEF NextReal
      <4> QED
        BY <3>1, <4>1
    <3>3. Measured(t)
      BY <1>2, <3>1, <3>2 DEF WellChosen
    <3> QED
      BY <1>0, <1>2, <3>1, <3>3 DEF Measured
  <2> QED
    BY <2>1, <2>2, <2>3
<1> QED
  BY <1>1, <1>2

\* A thread closes its victim's entry in CloseVictim only (threadcacl.cpp:216).
LEMMA OthersState ==
    ASSUME TypeInv, NEW t \in Threads, NEW u \in Threads, u # t, Thread(t), ~ CaclTask(t),
           ~ (CloseVictim(t) /\ maxtc[t] = u)
    PROVE  state'[u] = state[u]
<1> USE DEF SetState, table, TypeInv, TypeOK
<1>1. CASE Connecting(t) \/ Leaving(t)
  BY <1>1 DEF Connecting, ConnectOk, ConnectFails, ConnectGivesUp, ValidOk, ValidFails, ValidGivesUp,
              Leaving, AfterRecacl, Tail
<1>2. CASE Fetching(t)
  BY <1>2 DEF Fetching, OpenFile, ReadData, EndOfData, CheckSegment, CloseSegment
<1>3. CASE ReCaclTask(t)
  <2>1. CASE CloseVictim(t)
    BY <2>1 DEF CloseVictim
  <2>2. CASE FaultAgain(t)
    BY <2>2 DEF FaultAgain, vars
  <2>3. CASE ~ CloseVictim(t) /\ ~ FaultAgain(t)
    BY <1>3, <2>3
    DEF ReCaclTask, StartRecacl, ScanSkip, ScanLonger, ScanPick, UseUninitialised,
        TestStop, TestSplit, SetBegin, SetTotal, SetGot, SetOwnState, LoadVictim, StoreVictim
  <2> QED
    BY <2>1, <2>2, <2>3
<1> QED
  BY <1>1, <1>2, <1>3 DEF Thread

\* A thread leaves by giving up, or with nothing left of the task in its entry.
LEMMA Leaves ==
    ASSUME TypeInv, NEW t \in Threads, Thread(t), pc'[t] = "exited"
    PROVE  AfterRecacl(t) \/ Tail(t) \/ state'[t] = "T_STOP"
<1> USE DEF At, Goto, SetState, TypeInv, TypeOK
<1>1. CASE Connecting(t)
  BY <1>1 DEF Connecting, ConnectOk, ConnectFails, ConnectGivesUp, ValidOk, ValidFails, ValidGivesUp, CaclTask
<1>2. CASE Fetching(t)
  BY <1>2 DEF Fetching, OpenFile, ReadData, EndOfData, CheckSegment, CloseSegment
<1>3. CASE ReCaclTask(t)
  <2>1. CASE FaultAgain(t)
    BY <2>1 DEF FaultAgain, vars
  <2> QED
    BY <1>3, <2>1
    DEF ReCaclTask, StartRecacl, ScanSkip, ScanLonger, ScanPick, UseUninitialised, TestStop, TestSplit,
        SetBegin, SetTotal, SetGot, SetOwnState, LoadVictim, StoreVictim, CloseVictim
<1> QED
  BY <1>1, <1>2, <1>3 DEF Thread, Leaving

\* A thread comes to mark its victim from the store.
LEMMA Marks ==
    ASSUME TypeInv, NEW t \in Threads, Thread(t), pc'[t] = "mark"
    PROVE  StoreVictim(t) /\ plan[t] = "stop"
<1> USE DEF At, Goto, SetState, TypeInv, TypeOK
<1>1. CASE Connecting(t) \/ Leaving(t)
  BY <1>1 DEF Connecting, ConnectOk, ConnectFails, ConnectGivesUp, ValidOk, ValidFails, ValidGivesUp, CaclTask,
              Leaving, AfterRecacl, Tail
<1>2. CASE Fetching(t)
  BY <1>2 DEF Fetching, OpenFile, ReadData, EndOfData, CheckSegment, CloseSegment
<1>3. CASE ReCaclTask(t)
  <2>1. CASE FaultAgain(t)
    BY <2>1 DEF FaultAgain, vars
  <2> QED
    BY <1>3, <2>1
    DEF ReCaclTask, StartRecacl, ScanSkip, ScanLonger, ScanPick, UseUninitialised, TestStop, TestSplit,
        SetBegin, SetTotal, SetGot, SetOwnState, LoadVictim, StoreVictim, CloseVictim
<1> QED
  BY <1>1, <1>2, <1>3 DEF Thread

\* Without a wild pointer, only the entries of threads that gave up are left behind.
LEMMA WellLeftStep ==
    ASSUME TypeInv, BaseInv, ~ Clashing, NEW t \in Threads, \A v \in Threads : MoveOK(v),
           Thread(t), ~ CaclTask(t),
           NEW Real \in SUBSET Threads, WellChosen(Real), WellLeft(Real),
           NEW New \in SUBSET Threads, New = NextReal(t, Real)
    PROVE  WellLeft(New)'
<1> SUFFICES ASSUME "wild" \notin Faults, NEW v \in Threads
             PROVE  /\ pc'[v] = "exited" /\ v \in New => state'[v] = "T_STOP"
                    /\ pc'[v] = "mark" => maxtc'[v] \notin New
  BY DEF WellLeft
<1>0. /\ pc[v] = "exited" /\ v \in Real => state[v] = "T_STOP"
      /\ \A w \in Threads : pc[w] = "mark" => maxtc[w] \notin Real
  BY DEF WellLeft
<1>1. CASE v # t
  <2>1. SameLocals(v)
    BY <1>1, Foreign
  <2>2. \A w \in Threads \ {t} : w \in New => w \in Real
    BY DEF NextReal
  <2>3. ASSUME pc'[v] = "exited", v \in New PROVE state'[v] = "T_STOP"
    <3>1. pc[v] = "exited" /\ v \in Real
      BY <1>1, <2>1, <2>2, <2>3 DEF SameLocals
    <3>2. ~ (CloseVictim(t) /\ maxtc[t] = v)
      BY <1>0, <3>1 DEF CloseVictim, At
    <3> QED
      BY <1>0, <1>1, <3>1, <3>2, OthersState
  <2>4. ASSUME pc'[v] = "mark" PROVE maxtc'[v] \notin New
    <3>1. pc[v] = "mark" /\ maxtc'[v] = maxtc[v] /\ maxtc[v] \notin Real
      BY <1>0, <2>1, <2>4 DEF SameLocals
    <3>2. maxtc[v] \in Threads /\ pc[maxtc[v]] \in Gone
      BY <3>1 DEF BaseInv, LocalsOK
    <3>3. maxtc[v] # t
      BY <3>2, Alive
    <3> QED
      BY <2>2, <3>1, <3>2, <3>3
  <2> QED
    BY <2>3, <2>4
<1>2. CASE v = t
  <2>1. ASSUME pc'[t] = "exited", t \in New PROVE state'[t] = "T_STOP"
    <3>1. AfterRecacl(t) \/ Tail(t) \/ state'[t] = "T_STOP"
      BY <2>1, Leaves
    <3>2. ~ SetGot(t)
      BY <2>1 DEF SetGot, Goto, TypeInv, TypeOK
    <3> QED
      BY <2>1, <3>1, <3>2 DEF NextReal
  <2>2. ASSUME pc'[t] = "mark" PROVE maxtc'[t] \notin New
    <3>1. StoreVictim(t) /\ plan[t] = "stop"
      BY <2>2, Marks
    <3>2. Chosen(t) /\ maxtc' = maxtc /\ maxtc[t] \in Threads
      BY <3>1, StoreStep DEF StoreVictim, recacl
    <3>3. ~ SetGot(t) /\ ~ AfterRecacl(t) /\ ~ Tail(t)
      BY <3>1 DEF StoreVictim, SetGot, AfterRecacl, Tail, At
    <3>4. maxtc[t] \in Real => left[t] >= total[maxtc[t]] - got[maxtc[t]]
      BY <3>2 DEF WellChosen, Measured
    <3> QED
      BY <3>1, <3>2, <3>3, <3>4 DEF NextReal
  <2> QED
    BY <1>2, <2>1, <2>2
<1> QED
  BY <1>1, <1>2

\* The invariant is kept by every step.
LEMMA CoverStep ==
    ASSUME TypeInv, PlaceInv, BaseInv, BaseInv', RaceInv, MoveInv, CoverInv, [MCNext]_mcvars
    PROVE  CoverInv'
<1> SUFFICES ASSUME cycle' = 1, ~ clash'
             PROVE  \E New \in SUBSET Threads : Complete(New)' /\ WellChosen(New)' /\ WellLeft(New)'
  BY DEF CoverInv
<1>1. ~ clash /\ ~ Clashing /\ [Next]_vars /\ Written \subseteq Written'
  BY RaceStep, Monotone
<1>2. \A v \in Threads : MoveOK(v)
  BY <1>1 DEF MoveInv
<1>3. ASSUME NEW t \in Threads, CaclTask(t)
      PROVE  \E New \in SUBSET Threads : Complete(New)' /\ WellChosen(New)' /\ WellLeft(New)'
  BY <1>3, CoverCacl
<1>4. ASSUME NEW t \in Threads, Thread(t), ~ CaclTask(t)
      PROVE  \E New \in SUBSET Threads : Complete(New)' /\ WellChosen(New)' /\ WellLeft(New)'
  <2>1. cycle = 1
    BY <1>4, Alive
  <2>2. PICK Real \in SUBSET Threads : Complete(Real) /\ WellChosen(Real) /\ WellLeft(Real)
    BY <1>1, <2>1 DEF CoverInv
  <2>3. PICK New \in SUBSET Threads : New = NextReal(t, Real)
    BY DEF NextReal
  <2>4. Complete(New)'
    BY <1>1, <1>2, <1>4, <2>2, <2>3, CompleteStep
  <2>5. WellChosen(New)'
    BY <1>1, <1>2, <1>4, <2>2, <2>3, WellChosenStep
  <2>6. WellLeft(New)'
    BY <1>1, <1>2, <1>4, <2>2, <2>3, WellLeftStep
  <2> QED
    BY <2>4, <2>5, <2>6
<1>5. ASSUME Main \/ Ended \/ UNCHANGED vars
      PROVE  \E New \in SUBSET Threads : Complete(New)' /\ WellChosen(New)' /\ WellLeft(New)'
  <2>1. /\ UNCHANGED <<begin, got, total, state, taskSize, cycle, plan, maxtc, left, reg, good, bad>>
        /\ \A v \in Threads : pc'[v] = pc[v] \/ (pc[v] = "absent" /\ pc'[v] = "connect")
    BY <1>5, MainKeeps
  <2>2. PICK Real \in SUBSET Threads : Complete(Real) /\ WellChosen(Real) /\ WellLeft(Real)
    BY <1>1, <2>1 DEF CoverInv
  <2>3. ASSUME NEW v \in Threads
        PROVE  /\ Amount(v)' = Amount(v)
               /\ \A u \in Threads : Reserves(v, u)' <=> Reserves(v, u)
               /\ Chosen(v)' <=> Chosen(v)
    BY <2>1 DEF Amount, Reserves, Chosen
  <2>4. \A u \in Threads : \A i \in Task : Fetches(u, i)' <=> Fetches(u, i)
    BY <2>1, <2>3 DEF Fetches
  <2>5. Complete(Real)'
    BY <2>1, <2>2, <2>4 DEF Complete, Written, Task
  <2>6. WellChosen(Real)'
    BY <2>1, <2>2, <2>3 DEF WellChosen, Measured
  <2>7. WellLeft(Real)'
    BY <2>1, <2>2 DEF WellLeft
  <2> QED
    BY <2>5, <2>6, <2>7
<1> QED
  BY <1>1, <1>3, <1>4, <1>5, Steps DEF Thread

\* All of the above together, which is inductive.
TableInv == TypeInv /\ PlaceInv /\ BaseInv /\ RaceInv /\ MoveInv /\ CoverInv

\* It holds before the first thread has connected.
LEMMA TableInit == MCInit => TableInv
<1> SUFFICES ASSUME MCInit PROVE TableInv
  OBVIOUS
<1>1. Init /\ RaceInv
  BY RaceInit DEF MCInit
<1>2. MoveInv /\ CoverInv
  BY <1>1 DEF Init, MoveInv, MoveOK, CoverInv, Threads
<1> QED
  BY <1>1, <1>2, BaseInit DEF TableInv

\* It is kept by every step of main and of the threads.
LEMMA TableStep == TableInv /\ [MCNext]_mcvars => TableInv'
<1> SUFFICES ASSUME TableInv, [MCNext]_mcvars PROVE TableInv'
  OBVIOUS
<1>1. RaceInv' /\ [Next]_vars
  BY RaceStep DEF TableInv
<1>2. TypeInv' /\ PlaceInv' /\ BaseInv'
  BY <1>1, TypeStep, PlaceStep, BaseStep DEF TableInv
<1> QED
  BY <1>1, <1>2, MoveStep, CoverStep DEF TableInv

\* TableInv is an invariant of the table (threadcacl.cpp, mwget.cpp:350-680).
LEMMA TableHolds == MCSpec => []TableInv
BY TableInit, TableStep, PTL DEF MCSpec, mcvars

\* What is for a thread to fetch is pending in its entry.
LEMMA FetchesPending ==
    ASSUME TypeInv, NEW t \in Threads, NEW i \in Int, Fetches(t, i)
    PROVE  i \in PendingOf(t)
BY DEF Fetches, PendingOf, Pending, TypeInv, TypeOK

\* No step of ReCaclTask loses a byte of the task, until two threads take from one
\* victim at once.
THEOREM NoByteLost == MCSpec => []EveryByteOwned
<1>1. TableInv => EveryByteOwned
  BY FetchesPending DEF TableInv, CoverInv, Complete, EveryByteOwned, Task
<1> QED
  BY <1>1, TableHolds, PTL

\* When all threads have finished, what is not in the file is in the segment of a
\* thread that gave up (mwget.cpp:226, "task finished completed").
THEOREM WholeAtTheEnd == MCSpec => []FinishedIsWhole
<1>1. TableInv => FinishedIsWhole
  <2> SUFFICES ASSUME TableInv, main = "end", \A t \in Threads : pc[t] = "exited", ~ clash, "wild" \notin Faults,
                      NEW i \in Task, i \notin Written
               PROVE  \E u \in Threads : state[u] = "T_STOP" /\ i \in PendingOf(u)
    BY DEF FinishedIsWhole
  <2>1. CASE cycle = 1
    <3>1. PICK Real \in SUBSET Threads : Complete(Real) /\ WellLeft(Real)
      BY <2>1 DEF TableInv, CoverInv
    <3>2. PICK u \in Real : Fetches(u, i)
      BY <3>1 DEF Complete
    <3>3. state[u] = "T_STOP"
      BY <3>1 DEF WellLeft
    <3>4. i \in Int
      BY DEF Task
    <3> QED
      BY <3>2, <3>3, <3>4, FetchesPending DEF TableInv
  <2>2. CASE cycle # 1
    <3>1. taskSize = 0
      BY <2>2 DEF TableInv, TypeInv, TypeOK, BaseInv
    <3> QED
      BY <3>1 DEF Task
  <2> QED
    BY <2>1, <2>2
<1> QED
  BY <1>1, TableHolds, PTL
-----------------------------------------------------------------------------
(* No byte is handed out twice, and none that does not exist, until a rivalry *)

\* Unless "valid" faults happen, no thread gives up once the task is cut, so nobody
\* takes over from a stopped thread.
StopInv ==
    "valid" \notin Faults =>
        \A t \in Threads : (state[t] = "T_STOP" => cycle = 0) /\ plan[t] # "stop"

\* The entry of t stays in the task, and a thread does not believe more to be left of
\* its victim than its whole segment.
Within(t) ==
    /\ total[t] >= 0
    /\ 0 <= begin[t] /\ begin[t] <= taskSize
    /\ pc[t] # "total" => begin[t] + total[t] <= taskSize
    /\ Chosen(t) => left[t] <= total[maxtc[t]]

\* t is not between writing the first and the last field of its entry.
Whole(t) == pc[t] \notin {"total", "got"}

\* Byte i is in the segment of t, fetched or not, and not in the part being cut off.
Spans(t, i) ==
    /\ begin[t] <= i
    /\ i < begin[t] + total[t]
    /\ \A v \in Threads : Reserves(v, t) => i < begin[t] + total[t] - Amount(v)

\* Segments do not overlap.
ApartOK ==
    \A t, u \in Threads : t # u /\ Whole(t) /\ Whole(u) =>
        \A i \in Int : ~ (Spans(t, i) /\ Spans(u, i))

ApartInv == Orderly => ApartOK /\ \A t \in Threads : Within(t)

\* Giving up and stopping, by label.
LEMMA StopStep == TypeInv /\ PlaceInv /\ BaseInv /\ StopInv /\ [Next]_vars => StopInv'
<1> SUFFICES ASSUME TypeInv, PlaceInv, BaseInv, StopInv, [Next]_vars, "valid" \notin Faults, NEW u \in Threads
             PROVE  (state'[u] = "T_STOP" => cycle' = 0) /\ plan'[u] # "stop"
  BY DEF StopInv
<1>0. (state[u] = "T_STOP" => cycle = 0) /\ plan[u] # "stop"
  BY DEF StopInv
<1>1. ASSUME NEW t \in Threads, Thread(t), ~ CaclTask(t), u # t
      PROVE  (state'[u] = "T_STOP" => cycle' = 0) /\ plan'[u] # "stop"
  BY <1>0, <1>1, Foreign, Alive DEF SameLocals
<1>2. ASSUME NEW t \in Threads, CaclTask(t)
      PROVE  (state'[u] = "T_STOP" => cycle' = 0) /\ plan'[u] # "stop"
  <2>1. cycle = 0 /\ pc[t] = "cacl" /\ (u # t => pc[u] = "absent")
    BY <1>2 DEF CaclTask, At, PlaceInv, ProbeOK
  <2>2. state[u] # "T_STOP"
    BY <2>1 DEF BaseInv, LocalsOK, Gone
  <2> QED
    BY <1>0, <1>2, <2>2 DEF CaclTask, recacl
<1>3. ASSUME Thread(u), ~ CaclTask(u)
      PROVE  (state'[u] = "T_STOP" => cycle' = 0) /\ plan'[u] # "stop"
  <2> USE DEF At, Goto, SetState, TypeInv, TypeOK
  <2>1. CASE Connecting(u)
    BY <1>0, <1>3, <2>1
    DEF Connecting, ConnectOk, ConnectFails, ConnectGivesUp, ValidOk, ValidFails, ValidGivesUp,
        Probing, table, recacl, shared
  <2>2. CASE Fetching(u)
    BY <1>0, <2>2 DEF Fetching, OpenFile, ReadData, EndOfData, CheckSegment, CloseSegment, table, recacl, shared
  <2>3. CASE ReCaclTask(u)
    <3>1. CASE TestStop(u)
      <4>1. cycle = 1
        BY <3>1 DEF TestStop, PlaceInv, ProbeOK, Threads
      <4>2. maxtc[u] # Elsewhere => state[maxtc[u]] # "T_STOP"
        BY <3>1, <4>1 DEF TestStop, StopInv
      <4> QED
        BY <1>0, <3>1, <4>2 DEF TestStop, table, shared
    <3>2. CASE FaultAgain(u)
      BY <1>0, <3>2 DEF FaultAgain, vars, table, recacl, shared
    <3>3. CASE TestSplit(u)
      BY <1>0, <3>3 DEF TestSplit, table, shared
    <3>4. CASE ~ TestStop(u) /\ ~ FaultAgain(u) /\ ~ TestSplit(u)
      BY <1>0, <2>3, <3>4
      DEF ReCaclTask, StartRecacl, ScanSkip, ScanLonger, ScanPick, UseUninitialised,
          SetBegin, SetTotal, SetGot, SetOwnState, LoadVictim, StoreVictim, CloseVictim, table, recacl, shared
    <3> QED
      BY <3>1, <3>2, <3>3, <3>4
  <2>4. CASE Leaving(u)
    BY <1>0, <2>4 DEF Leaving, AfterRecacl, Tail, table, recacl, shared
  <2> QED
    BY <1>3, <2>1, <2>2, <2>3, <2>4 DEF Thread
<1>4. ASSUME Main \/ Ended \/ UNCHANGED vars
      PROVE  (state'[u] = "T_STOP" => cycle' = 0) /\ plan'[u] # "stop"
  BY <1>0, <1>4, MainKeeps
<1> QED
  BY <1>1, <1>2, <1>3, <1>4, Steps

\* CaclTask gives every thread a segment of the task, and no byte to two.
LEMMA ApartCacl ==
    ASSUME TypeInv, PlaceInv, BaseInv, NEW t \in Threads, CaclTask(t)
    PROVE  ApartOK' /\ \A u \in Threads : Within(u)'
<1>1. /\ t = 0 /\ cycle = 0 /\ \A u \in Threads : pc'[u] \in {"open", "absent"}
  BY DEF CaclTask, At, Goto, PlaceInv, ProbeOK, TypeInv, TypeOK
<1>2. \A u \in Threads : ~ Chosen(u)' /\ \A v \in Threads : ~ Reserves(v, u)'
  BY <1>1 DEF Chosen, Reserves
<1>3. PICK p \in Nat : /\ taskSize' = p
                       /\ p > 0 => begin' = CaclBegin(p) /\ got' = [u \in Threads |-> 0] /\ total' = CaclTotal(p)
                       /\ ~ (p > 0) => UNCHANGED <<begin, got, total>>
  BY LengthsAssumption DEF CaclTask, TypeInv, TypeOK
<1>4. CASE p > 0
  <2>1. ASSUME NEW u \in Threads PROVE Within(u)'
    BY <1>1, <1>2, <1>3, <1>4, <2>1, ShareWithin DEF Within
  <2>2. ASSUME NEW u \in Threads, NEW i \in Int, Spans(u, i)'
        PROVE  i \in Pending(CaclBegin(p)[u], 0, CaclTotal(p)[u])
    BY <1>3, <1>4, <2>2, CaclTaskType DEF Spans, Pending
  <2>3. ApartOK'
    BY <2>2, SharesDisjoint DEF ApartOK
  <2> QED
    BY <2>1, <2>3
<1>5. CASE ~ (p > 0)
  <2>1. \A u \in Threads : begin'[u] = 0 /\ total'[u] = 0 /\ taskSize' = 0
    BY <1>1, <1>3, <1>5 DEF BaseInv
  <2> QED
    BY <1>1, <1>2, <2>1 DEF Within, ApartOK, Spans
<1> QED
  BY <1>4, <1>5

\* A step of t lets no segment grow, but for the one that t takes over in SetGot.
LEMMA SpansStep ==
    ASSUME TypeInv, BaseInv, ~ Clashing, NEW t \in Threads, MoveOK(t), Thread(t), ~ CaclTask(t), plan[t] # "stop",
           NEW a \in Threads, Whole(a)', ~ (SetGot(t) /\ a = t), NEW i \in Int, Spans(a, i)'
    PROVE  Whole(a) /\ Spans(a, i)
<1>1. begin[a] \in Int /\ total[a] \in Int /\ Amount(t) \in Int /\ (plan[t] # "none" => Amount(t) >= 0)
  BY Amounts DEF TypeInv, TypeOK, Plans
<1>2. ASSUME NEW v \in Threads \ {t} PROVE (Reserves(v, a)' <=> Reserves(v, a)) /\ Amount(v)' = Amount(v)
  BY Foreign DEF SameLocals, Reserves, Amount
<1>3. CASE a = t
  <2>1. ~ SetGot(t) /\ ~ SetBegin(t) /\ ~ SetTotal(t)
    BY <1>3 DEF SetBegin, SetTotal, Goto, Whole, TypeInv, TypeOK
  <2>2. begin'[t] = begin[t] /\ total'[t] = total[t]
    BY <2>1, OwnEntry
  <2>3. Whole(t)
    <3>1. CASE FaultAgain(t)
      BY <3>1 DEF FaultAgain, At, Whole
    <3>2. CASE ~ FaultAgain(t)
      BY <2>1, <3>2
      DEF Thread, Connecting, ConnectOk, ConnectFails, ConnectGivesUp, ValidOk, ValidFails, ValidGivesUp,
          CaclTask, Fetching, OpenFile, ReadData, EndOfData, CheckSegment, CloseSegment, Leaving,
          AfterRecacl, Tail, ReCaclTask, StartRecacl, ScanSkip, ScanLonger, ScanPick,
          UseUninitialised, TestStop, TestSplit, SetOwnState, LoadVictim, StoreVictim, CloseVictim, At, Whole
    <3> QED
      BY <3>1, <3>2
  <2>4. ~ Reserves(t, t)
    BY DEF Reserves, BaseInv, LocalsOK
  <2> QED
    BY <1>1, <1>2, <1>3, <2>2, <2>3, <2>4 DEF Spans
<1>4. CASE a # t
  <2>1. SameEntry(a) /\ SameLocals(a)
    BY <1>4, Foreign
  <2>2. Whole(a)
    BY <2>1 DEF SameLocals, Whole
  <2>3. CASE StoreVictim(t) /\ maxtc[t] = a
    <3>1. /\ Splitting(t) /\ plan[t] # "none"
          /\ total'[a] = total[a] - Amount(t)
      BY <2>3, StoreStep DEF TypeInv, TypeOK
    <3>2. ASSUME NEW v \in Threads, Reserves(v, a) PROVE v = t
      BY <2>3, <3>1, <3>2, Excluded DEF Reserves, Splitting
    <3>3. begin[a] <= i /\ i < begin[a] + total[a] - Amount(t)
      BY <1>1, <2>1, <3>1 DEF Spans, SameEntry
    <3> QED
      BY <1>1, <2>2, <3>1, <3>2, <3>3 DEF Spans
  <2>4. CASE ~ (StoreVictim(t) /\ maxtc[t] = a)
    <3>1. total'[a] = total[a]
      <4>1. CASE StoreVictim(t)
        BY <2>4, <4>1, StoreStep DEF TypeInv, TypeOK
      <4> QED
        BY <1>4, <4>1, Foreign
    <3>2. Reserves(t, a) => Reserves(t, a)' /\ Amount(t)' = Amount(t)
      <4> SUFFICES ASSUME Reserves(t, a) PROVE Reserves(t, a)' /\ Amount(t)' = Amount(t)
        OBVIOUS
      <4>1. plan[t] # "none" /\ pc[t] \in {"state", "load", "store"} /\ maxtc[t] = a
        BY DEF Reserves
      <4>2. ~ StoreVictim(t)
        BY <2>4, <4>1
      <4>3. SetOwnState(t) \/ LoadVictim(t)
        BY <4>1, <4>2
        DEF Thread, Connecting, ConnectOk, ConnectFails, ConnectGivesUp, ValidOk, ValidFails, ValidGivesUp,
            CaclTask, Fetching, OpenFile, ReadData, EndOfData, CheckSegment, CloseSegment, Leaving,
            AfterRecacl, Tail, ReCaclTask, StartRecacl, ScanSkip, ScanLonger, ScanPick, FaultAgain,
            UseUninitialised, TestStop, TestSplit, SetBegin, SetTotal, SetGot, CloseVictim, At
      <4> QED
        BY <4>1, <4>3 DEF SetOwnState, LoadVictim, Goto, recacl, Reserves, Amount, TypeInv, TypeOK
    <3> QED
      BY <1>1, <1>2, <2>1, <2>2, <3>1, <3>2 DEF Spans, SameEntry
  <2> QED
    BY <2>3, <2>4
<1> QED
  BY <1>3, <1>4

\* In SetGot t gets a part of its victim's segment, which the victim does not keep and
\* nobody else has.
LEMMA Parted ==
    ASSUME TypeInv, BaseInv, ~ Clashing, ApartOK, NEW t \in Threads, MoveOK(t), SetGot(t), plan[t] # "stop", Within(t),
           NEW b \in Threads, b # t, Whole(b), NEW i \in Int, Spans(t, i)', Spans(b, i), Spans(b, i)'
    PROVE  FALSE
<1> DEFINE x == maxtc[t]
<1>1. /\ pc[t] = "got" /\ pc' = [pc EXCEPT ![t] = "state"]
      /\ UNCHANGED <<begin, total, plan, left, maxtc>>
  BY DEF SetGot, At, Goto, recacl
<1>2. /\ begin[t] \in Int /\ total[t] \in Int
      /\ begin[t] <= i /\ i < begin[t] + total[t]
  BY <1>1 DEF Spans, TypeInv, TypeOK
<1>3. plan[t] = "split"
  BY <1>1, <1>2 DEF MoveOK, TypeInv, TypeOK, Plans
<1>4. x \in Threads \ {t} /\ Splitting(t) /\ Chosen(t)
  BY <1>1, <1>3 DEF BaseInv, LocalsOK, Splitting, Chosen
<1>5. /\ begin[x] \in Int /\ total[x] \in Int /\ Amount(t) \in Int
      /\ begin[t] = begin[x] + total[x] - Amount(t) /\ total[t] = Amount(t)
      /\ Amount(t) <= total[x]
  BY <1>1, <1>3, <1>4, Amounts DEF MoveOK, Within, TypeInv, TypeOK
<1>6. CASE b = x
  <2>1. Reserves(t, x)' /\ Amount(t)' = Amount(t)
    BY <1>1, <1>3 DEF Reserves, Amount, TypeInv, TypeOK
  <2>2. i < begin[x] + total[x] - Amount(t)
    BY <1>1, <1>6, <2>1 DEF Spans
  <2> QED
    BY <1>2, <1>5, <2>2
<1>7. CASE b # x
  <2>1. Whole(x)
    BY <1>4, Excluded DEF Whole
  <2>2. ASSUME NEW v \in Threads PROVE ~ Reserves(v, x)
    <3>1. CASE v = t
      BY <1>1, <3>1 DEF Reserves
    <3>2. CASE v # t
      BY <1>4, <3>2, Excluded DEF Reserves, Splitting
    <3> QED
      BY <3>1, <3>2
  <2>3. Spans(x, i)
    BY <1>2, <1>5, <2>2 DEF Spans
  <2> QED
    BY <1>4, <1>7, <2>1, <2>3 DEF ApartOK
<1> QED
  BY <1>6, <1>7

\* Segments stay apart.
LEMMA ApartStep ==
    ASSUME TypeInv, BaseInv, ~ Clashing, ApartOK, NEW t \in Threads, MoveOK(t), Thread(t), ~ CaclTask(t),
           plan[t] # "stop", Within(t)
    PROVE  ApartOK'
<1>1. ASSUME NEW a \in Threads, NEW b \in Threads, a # b, b # t, Whole(a)', Whole(b)', NEW i \in Int,
             Spans(a, i)', Spans(b, i)'
      PROVE  FALSE
  <2>1. Whole(b) /\ Spans(b, i)
    BY <1>1, SpansStep
  <2>2. CASE SetGot(t) /\ a = t
    BY <1>1, <2>1, <2>2, Parted
  <2>3. CASE ~ (SetGot(t) /\ a = t)
    BY <1>1, <2>1, <2>3, SpansStep DEF ApartOK
  <2> QED
    BY <2>2, <2>3
<1> QED
  BY <1>1 DEF ApartOK

\* A step of t leaves the entry of another in the task.
LEMMA OthersWithin ==
    ASSUME TypeInv, BaseInv, ~ Clashing, ~ Rivalling, NEW t \in Threads, MoveOK(t), Thread(t), ~ CaclTask(t),
           plan[t] # "stop", Within(t), NEW u \in Threads, u # t, Within(u)
    PROVE  Within(u)'
<1>1. SameLocals(u) /\ SameEntry(u) /\ taskSize' = taskSize
  BY Foreign, Alive
<1>2. /\ begin[u] \in Int /\ total[u] \in Int /\ total'[u] \in Int /\ taskSize \in Int
      /\ Amount(t) \in Int /\ (plan[t] # "none" => Amount(t) >= 0 /\ Amount(t) <= left[t]) /\ left[t] \in Int
  BY Amounts, OthersTotal DEF TypeInv, TypeOK, Plans
<1>3. 0 <= total'[u] /\ total'[u] <= total[u]
  <2>1. CASE StoreVictim(t) /\ maxtc[t] = u
    <3>1. plan[t] # "none" /\ Chosen(t) /\ total'[u] = total[u] - Amount(t)
      BY <2>1, StoreStep DEF TypeInv, TypeOK
    <3>2. left[t] <= total[u]
      BY <2>1, <3>1 DEF Within
    <3> QED
      BY <1>2, <3>1, <3>2
  <2>2. CASE ~ (StoreVictim(t) /\ maxtc[t] = u)
    <3>1. total'[u] = total[u]
      <4>1. CASE StoreVictim(t)
        BY <2>2, <4>1, StoreStep DEF TypeInv, TypeOK
      <4> QED
        BY <4>1, Foreign
    <3> QED
      BY <1>2, <3>1 DEF Within
  <2> QED
    BY <2>1, <2>2
<1>4. ASSUME Chosen(u)' PROVE left'[u] <= total'[maxtc'[u]]
  <2>1. Chosen(u) /\ left'[u] = left[u] /\ maxtc'[u] = maxtc[u] /\ maxtc[u] \in Threads
    BY <1>1, <1>4 DEF SameLocals, Chosen
  <2>2. total'[maxtc[u]] = total[maxtc[u]]
    <3>1. CASE maxtc[u] = t
      <4>1. pc[t] # "total"
        BY <2>1, <3>1, Excluded
      <4> QED
        BY <3>1, <4>1, OwnEntry DEF SetTotal, At
    <3>2. CASE maxtc[u] # t
      <4>1. CASE StoreVictim(t)
        <5>1. Splitting(t) /\ total' = [total EXCEPT ![maxtc[t]] = @ - Amount(t)]
          BY <4>1, StoreStep
        <5>2. maxtc[t] # maxtc[u]
          BY <2>1, <5>1 DEF Rivalling
        <5> QED
          BY <2>1, <5>1, <5>2 DEF TypeInv, TypeOK
      <4> QED
        BY <2>1, <3>2, <4>1, Foreign
    <3> QED
      BY <3>1, <3>2
  <2> QED
    BY <2>1, <2>2 DEF Within
<1> QED
  BY <1>1, <1>2, <1>3, <1>4 DEF Within, SameEntry, SameLocals

\* A step of t leaves its own entry in the task.
LEMMA OwnWithin ==
    ASSUME TypeInv, BaseInv, ~ Clashing, NEW t \in Threads, MoveOK(t), Thread(t), ~ CaclTask(t),
           plan[t] # "stop", \A u \in Threads : Within(u)
    PROVE  Within(t)'
<1>0. /\ begin[t] \in Int /\ total[t] \in Int /\ taskSize' = taskSize /\ taskSize \in Nat
      /\ Amount(t) \in Int /\ (plan[t] # "none" => Amount(t) >= 0 /\ Amount(t) <= left[t]) /\ left[t] \in Int
  BY Alive, Amounts DEF TypeInv, TypeOK, Plans
<1>1. ASSUME Chosen(t)' PROVE left'[t] <= total'[maxtc'[t]]
  <2>1. CASE ScanPick(t)
    <3>1. left'[t] = total[no[t]] - got[no[t]] /\ maxtc'[t] = no[t] /\ total' = total
      BY <2>1 DEF ScanPick, table, TypeInv, TypeOK
    <3>2. no[t] \in Threads
      BY <1>1, <3>1 DEF Chosen
    <3> QED
      BY <3>1, <3>2 DEF TypeInv, TypeOK
  <2>2. CASE UseUninitialised(t)
    <3>1. left'[t] = 0 /\ total' = total
      BY <2>2 DEF UseUninitialised, table, BaseInv, LocalsOK
    <3>2. maxtc'[t] \in Threads
      BY <1>1 DEF Chosen
    <3> QED
      BY <3>1, <3>2 DEF Within
  <2>3. CASE ~ ScanPick(t) /\ ~ UseUninitialised(t)
    BY <1>1, <2>3, ChosenStep DEF Within
  <2> QED
    BY <2>1, <2>2, <2>3
<1>2. CASE SetBegin(t)
  <2>1. pc[t] = "begin" /\ pc'[t] = "total" /\ total' = total
    BY <1>2 DEF SetBegin, At, Goto, TypeInv, TypeOK
  <2>2. CASE plan[t] = "none"
    <3>1. begin'[t] = taskSize
      BY <1>2, <2>2, BeginStep
    <3> QED
      BY <1>0, <1>1, <2>1, <3>1 DEF Within
  <2>3. CASE plan[t] = "split"
    <3>1. maxtc[t] \in Threads \ {t} /\ Chosen(t)
      BY <2>1, <2>3 DEF BaseInv, LocalsOK, Chosen
    <3>2. begin'[t] = begin[maxtc[t]] + total[maxtc[t]] - Amount(t)
      BY <1>2, <2>3, BeginStep DEF Amount
    <3>3. /\ 0 <= begin[maxtc[t]] /\ begin[maxtc[t]] + total[maxtc[t]] <= taskSize
          /\ left[t] <= total[maxtc[t]] /\ begin[maxtc[t]] \in Int /\ total[maxtc[t]] \in Int
      BY <3>1, Excluded DEF Within, TypeInv, TypeOK
    <3>4. 0 <= begin'[t] /\ begin'[t] <= taskSize
      BY <1>0, <2>3, <3>2, <3>3
    <3> QED
      BY <1>0, <1>1, <2>1, <3>4 DEF Within
  <2> QED
    BY <2>2, <2>3 DEF TypeInv, TypeOK, Plans
<1>3. CASE SetTotal(t)
  <2>1. pc[t] = "total" /\ pc'[t] = "got" /\ begin' = begin
        /\ total'[t] = IF plan[t] = "none" THEN 0 ELSE Amount(t)
    BY <1>3 DEF SetTotal, At, Goto, TypeInv, TypeOK
  <2>2. CASE plan[t] = "none"
    BY <1>0, <1>1, <2>1, <2>2 DEF Within
  <2>3. CASE plan[t] = "split"
    <3>1. maxtc[t] \in Threads \ {t} /\ Chosen(t)
      BY <2>1, <2>3 DEF BaseInv, LocalsOK, Chosen
    <3>2. begin[t] = begin[maxtc[t]] + total[maxtc[t]] - Amount(t)
      BY <2>1, <2>3 DEF MoveOK
    <3>3. /\ begin[maxtc[t]] + total[maxtc[t]] <= taskSize
          /\ begin[maxtc[t]] \in Int /\ total[maxtc[t]] \in Int
      BY <3>1, Excluded DEF Within, TypeInv, TypeOK
    <3>4. total'[t] >= 0 /\ begin'[t] + total'[t] <= taskSize
      BY <1>0, <2>1, <2>3, <3>2, <3>3
    <3> QED
      BY <1>0, <1>1, <2>1, <3>4 DEF Within
  <2> QED
    BY <2>2, <2>3 DEF TypeInv, TypeOK, Plans
<1>4. CASE ~ SetBegin(t) /\ ~ SetTotal(t)
  <2>1. begin'[t] = begin[t] /\ total'[t] = total[t]
    BY <1>4, OwnEntry
  <2>2. pc[t] # "total"
    <3>1. ASSUME pc[t] = "total" PROVE FALSE
      BY <1>4, <3>1
      DEF Thread, Connecting, ConnectOk, ConnectFails, ConnectGivesUp, ValidOk, ValidFails, ValidGivesUp,
          CaclTask, Fetching, OpenFile, ReadData, EndOfData, CheckSegment, CloseSegment, Leaving,
          AfterRecacl, Tail, ReCaclTask, StartRecacl, ScanSkip, ScanLonger, ScanPick, FaultAgain,
          UseUninitialised, TestStop, TestSplit, SetGot, SetOwnState, LoadVictim, StoreVictim, CloseVictim, At
    <3> QED
      BY <3>1
  <2> QED
    BY <1>0, <1>1, <2>1, <2>2 DEF Within
<1> QED
  BY <1>2, <1>3, <1>4

\* The invariant is kept by every step.
LEMMA ApartInvStep ==
    ASSUME TypeInv, PlaceInv, BaseInv, RaceInv, MoveInv, StopInv, ApartInv, [MCNext]_mcvars
    PROVE  ApartInv'
<1> SUFFICES ASSUME Orderly' PROVE ApartOK' /\ \A u \in Threads : Within(u)'
  BY DEF ApartInv
<1>1. /\ ~ clash /\ ~ rival /\ ~ Clashing /\ ~ Rivalling /\ [Next]_vars /\ "valid" \notin Faults /\ cycle' = 1
  BY RaceStep DEF Orderly
<1>2. /\ \A v \in Threads : MoveOK(v) /\ plan[v] # "stop"
      /\ cycle = 1 => ApartOK /\ \A v \in Threads : Within(v)
  BY <1>1 DEF MoveInv, StopInv, ApartInv, Orderly
<1>3. ASSUME NEW t \in Threads, CaclTask(t) PROVE ApartOK' /\ \A u \in Threads : Within(u)'
  BY <1>3, ApartCacl
<1>4. ASSUME NEW t \in Threads, Thread(t), ~ CaclTask(t) PROVE ApartOK' /\ \A u \in Threads : Within(u)'
  <2>1. cycle = 1
    BY <1>1, <1>4, Alive
  <2>2. ApartOK'
    BY <1>1, <1>2, <1>4, <2>1, ApartStep
  <2>3. ASSUME NEW u \in Threads PROVE Within(u)'
    BY <1>1, <1>2, <1>4, <2>1, OwnWithin, OthersWithin
  <2> QED
    BY <2>2, <2>3
<1>5. ASSUME Main \/ Ended \/ UNCHANGED vars PROVE ApartOK' /\ \A u \in Threads : Within(u)'
  <2>1. /\ UNCHANGED <<begin, got, total, state, taskSize, cycle, plan, maxtc, left, reg, good, bad>>
        /\ \A v \in Threads : pc'[v] = pc[v] \/ (pc[v] = "absent" /\ pc'[v] = "connect")
    BY <1>5, MainKeeps
  <2>2. ASSUME NEW v \in Threads
        PROVE  /\ Amount(v)' = Amount(v)
               /\ \A u \in Threads : Reserves(v, u)' <=> Reserves(v, u)
               /\ Chosen(v)' <=> Chosen(v)
               /\ Whole(v)' <=> Whole(v)
    BY <2>1 DEF Amount, Reserves, Chosen, Whole
  <2>3. \A u \in Threads : \A i \in Int : Spans(u, i)' <=> Spans(u, i)
    BY <2>1, <2>2 DEF Spans
  <2>4. ApartOK'
    BY <1>1, <1>2, <2>1, <2>2, <2>3 DEF ApartOK
  <2>5. \A u \in Threads : Within(u)'
    BY <1>1, <1>2, <2>1, <2>2 DEF Within
  <2> QED
    BY <2>4, <2>5
<1> QED
  BY <1>1, <1>3, <1>4, <1>5, Steps DEF Thread

\* The inductive invariant of the table without threads that give up.
OrderInv == TableInv /\ StopInv /\ ApartInv

\* OrderInv is an invariant of the table.
LEMMA OrderHolds == MCSpec => []OrderInv
<1>1. MCInit => OrderInv
  <2> SUFFICES ASSUME MCInit PROVE OrderInv
    OBVIOUS
  <2>1. TableInv /\ StopInv
    BY TableInit DEF MCInit, Init, StopInv, Threads
  <2>2. ApartInv
    BY DEF MCInit, Init, ApartInv, Orderly
  <2> QED
    BY <2>1, <2>2 DEF OrderInv
<1>2. OrderInv /\ [MCNext]_mcvars => OrderInv'
  <2> SUFFICES ASSUME OrderInv, [MCNext]_mcvars PROVE OrderInv'
    OBVIOUS
  <2>1. TableInv' /\ [Next]_vars
    BY TableStep, RaceStep DEF OrderInv, TableInv
  <2> QED
    BY <2>1, StopStep, ApartInvStep DEF OrderInv, TableInv
<1> QED
  BY <1>1, <1>2, PTL DEF MCSpec, mcvars

\* Splitting the table hands no byte to two threads and invents none, until a thread
\* comes between another and its victim.
THEOREM TableApart == MCSpec => []SegmentsApart
<1>1. OrderInv => SegmentsDisjoint
  <2> SUFFICES ASSUME OrderInv, Orderly, NEW t \in Threads, NEW u \in Threads, t # u, Settled(t), Settled(u),
                      NEW i \in PendingOf(t), i \in PendingOf(u)
               PROVE  FALSE
    BY DEF SegmentsDisjoint
  <2>1. ASSUME NEW v \in Threads, Settled(v), i \in PendingOf(v) PROVE Whole(v) /\ Spans(v, i)
    <3>1. begin[v] \in Int /\ got[v] \in Nat /\ total[v] \in Int
      BY DEF OrderInv, TableInv, TypeInv, TypeOK
    <3>2. begin[v] + got[v] <= i /\ i <= begin[v] + total[v] - 1 /\ i \in Int
      BY <2>1, <3>1 DEF PendingOf, Pending
    <3>3. \A w \in Threads : ~ Reserves(w, v)
      BY <2>1 DEF Settled, Reserves, Splitting
    <3> QED
      BY <2>1, <3>1, <3>2, <3>3 DEF Settled, Whole, Spans
  <2>2. i \in Int
    BY DEF PendingOf, Pending
  <2> QED
    BY <2>1, <2>2 DEF OrderInv, ApartInv, ApartOK
<1>2. OrderInv => SegmentsWithinTask
  <2> SUFFICES ASSUME OrderInv, Orderly, NEW t \in Threads, NEW i \in PendingOf(t) PROVE i \in Task
    BY DEF SegmentsWithinTask
  <2>1. /\ begin[t] \in Int /\ got[t] \in Nat /\ total[t] \in Int /\ taskSize \in Nat
        /\ pc[t] = "total" => got[t] >= total[t]
        /\ Within(t)
    BY DEF OrderInv, TableInv, TypeInv, TypeOK, MoveInv, MoveOK, ApartInv, Orderly
  <2>2. begin[t] + got[t] <= i /\ i <= begin[t] + total[t] - 1 /\ i \in Int
    BY <2>1 DEF PendingOf, Pending
  <2> QED
    BY <2>1, <2>2 DEF Within, Task
<1> QED
  BY <1>1, <1>2, OrderHolds, PTL DEF SegmentsApart

=============================================================================
