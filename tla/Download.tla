------------------------------ MODULE Download ------------------------------
(***************************************************************************)
(* The download threads of mwget.cpp (retr_thread_func) over the unlocked  *)
(* segment table of threadcacl.cpp.                                        *)
(*                                                                         *)
(* Thread 0 probes the server, cuts the document into one segment per      *)
(* thread (CaclTask) and wakes main, which creates the other threads.      *)
(* Every thread then fetches its segment over a connection of its own,     *)
(* writes it at its place in the one output file and, when its segment is  *)
(* complete, takes over part of the longest remaining one (ReCaclTask).    *)
(* The table has no lock, so an action is one statement of the source that *)
(* touches shared data, with the statements on the thread's own data next  *)
(* to it; reading a victim's total and storing the reduced one are two     *)
(* actions, as is reading its fields to compare and again to record them.  *)
(*                                                                         *)
(* A local of the C++ function is reset where it goes out of scope.        *)
(***************************************************************************)
EXTENDS ThreadCacl

CONSTANTS
    Lengths,    \* the sizes of document to consider, in bytes
    ReadSizes,  \* how much one Read may return: 1 .. 8096 in the code
    ConnRetry,  \* connretry, 5 in the code
    Faults      \* what may go wrong, a subset of FaultKinds

\* "connect":  a connection attempt fails;  "valid": the server refuses the
\* request;  "drop": a connection ends before the segment does;  "norange":
\* the server sends the document from its first byte whatever was asked;
\* "nolength": the reply has no Content-Length;  "wild": undefined behaviour does
\* its worst, that is, the uninitialised pointer of ReCaclTask holds an old
\* entry's address or an unmapped one, and a percentage of nothing is negative.
FaultKinds == {"connect", "valid", "drop", "norange", "nolength", "wild"}

ASSUME LengthsAssumption == Lengths \subseteq Nat /\ Lengths # {}
ASSUME ReadAssumption == ReadSizes \subseteq Nat \ {0} /\ ReadSizes # {}
ASSUME RetryAssumption == ConnRetry \in Nat \ {0}
ASSUME FaultsAssumption == Faults \subseteq FaultKinds

VARIABLES
    length,     \* the document's true size, fixed
    begin, got, total, state,   \* the table, one field each
    taskSize,   \* mTaskSize
    main,       \* main: "wait" for the first connect, "run", "end"
    first,      \* g_first_connect_result: 1, 0 or -1
    pc,         \* where each thread is
    cycle,      \* cycle_no of thread 0 (it stays 0 in the others)
    retry,      \* retry_count of thread 0
    errors,     \* error_count
    fsize,      \* the offset given to TaskValid
    src, off,   \* next byte the server sends, next byte written of the file
    no, left, maxtc, plan, reg,  \* locals of ReCaclTask
    good, bad   \* bytes of the file last written rightly and wrongly

table  == <<begin, got, total, state, taskSize>>
conn   == <<retry, errors, fsize, src, off>>
recacl == <<no, left, maxtc, plan, reg>>
shared == <<main, first, cycle, length>>
disk   == <<good, bad>>
vars   == <<table, conn, recacl, shared, disk, pc>>

NoVictim  == -1     \* maxtc never assigned
Elsewhere == -2     \* maxtc points to memory that is no entry and reads no T_STOP

Labels == {"absent", "connect", "valid", "cacl", "open", "read", "check",
           "close", "recalc", "scan", "pick", "minsplit", "begin", "total",
           "got", "state", "load", "store", "mark", "after", "tail",
           "exited", "returned", "fault"}

Plans == {"none", "stop", "split"}

\* What plan[t] takes from the victim.
Amount(t) == IF plan[t] = "stop" THEN left[t] ELSE BinLeft(left[t])

-----------------------------------------------------------------------------
Init ==
    /\ length \in Lengths
    /\ begin = [t \in Threads |-> 0]
    /\ got = [t \in Threads |-> 0]
    /\ total = [t \in Threads |-> 0]
    /\ state = [t \in Threads |-> "T_READY"]
    /\ taskSize = 0
    /\ main = "wait"
    /\ first = 1
    /\ pc = [t \in Threads |-> IF t = 0 THEN "connect" ELSE "absent"]
    /\ cycle = 0
    /\ retry = 0
    /\ errors = [t \in Threads |-> 0]
    /\ fsize = [t \in Threads |-> 0]
    /\ src = [t \in Threads |-> 0]
    /\ off = [t \in Threads |-> 0]
    /\ no = [t \in Threads |-> 0]
    /\ left = [t \in Threads |-> 0]
    /\ maxtc = [t \in Threads |-> NoVictim]
    /\ plan = [t \in Threads |-> "none"]
    /\ reg = [t \in Threads |-> 0]
    /\ good = {}
    /\ bad = {}

\* A thread runs as long as the process does.
At(t, l) == main # "end" /\ pc[t] = l
Goto(t, l) == pc' = [pc EXCEPT ![t] = l]
SetState(t, s) == state' = [state EXCEPT ![t] = s]

\* The thread whose answer decides whether the others are created.
Probing(t) == t = 0 /\ cycle = 0

-----------------------------------------------------------------------------
(* main *)

CreateThreads ==
    /\ main = "wait" /\ first = 0
    /\ main' = "run"
    /\ pc' = [t \in Threads |-> IF t = 0 THEN pc[t] ELSE "connect"]
    /\ UNCHANGED <<table, conn, recacl, disk, first, cycle, length>>

GiveUp ==
    /\ main = "wait" /\ first = -1
    /\ main' = "end"
    /\ UNCHANGED <<table, conn, recacl, disk, first, cycle, length, pc>>

AllFinished ==
    /\ main = "run" /\ \A t \in Threads : pc[t] = "exited"
    /\ main' = "end"
    /\ UNCHANGED <<table, conn, recacl, disk, first, cycle, length, pc>>

-----------------------------------------------------------------------------
(* Connecting *)

ConnectOk(t) ==
    /\ At(t, "connect")
    /\ fsize' = [fsize EXCEPT ![t] = IF Probing(t) THEN 0 ELSE begin[t] + got[t]]
    /\ retry' = IF t = 0 THEN 0 ELSE retry
    /\ Goto(t, "valid")
    /\ UNCHANGED <<table, errors, src, off, recacl, shared, disk>>

ConnectFails(t) ==
    /\ At(t, "connect") /\ "connect" \in Faults
    /\ ~ (Probing(t) /\ retry + 1 >= ConnRetry)
    /\ retry' = IF Probing(t) THEN retry + 1 ELSE retry
    /\ SetState(t, "T_ERROR")
    /\ UNCHANGED <<begin, got, total, taskSize, pc, errors, fsize, src, off,
                   recacl, shared, disk>>

ConnectGivesUp(t) ==
    /\ At(t, "connect") /\ "connect" \in Faults
    /\ Probing(t) /\ retry + 1 >= ConnRetry
    /\ SetState(t, "T_STOP")
    /\ retry' = retry + 1
    /\ first' = -1
    /\ Goto(t, "returned")
    /\ UNCHANGED <<begin, got, total, taskSize, errors, fsize, src, off, recacl,
                   main, cycle, length, disk>>

\* A server that honours the range starts at fsize; a negative offset is no
\* range, and like a server without ranges it sends the document from 0.
ValidOk(t) ==
    /\ At(t, "valid")
    /\ \E from \in {IF fsize[t] < 0 THEN 0 ELSE fsize[t]}
                   \cup (IF "norange" \in Faults THEN {0} ELSE {}) :
          src' = [src EXCEPT ![t] = from]
    /\ errors' = [errors EXCEPT ![t] = 0]
    /\ Goto(t, IF Probing(t) THEN "cacl" ELSE "open")
    /\ UNCHANGED <<table, retry, fsize, off, recacl, shared, disk>>

ValidFails(t) ==
    /\ At(t, "valid") /\ "valid" \in Faults
    /\ errors[t] + 1 < ConnRetry
    /\ errors' = [errors EXCEPT ![t] = @ + 1]
    /\ SetState(t, "T_ERROR")
    /\ Goto(t, "connect")
    /\ UNCHANGED <<begin, got, total, taskSize, retry, fsize, src, off, recacl,
                   shared, disk>>

ValidGivesUp(t) ==
    /\ At(t, "valid") /\ "valid" \in Faults
    /\ errors[t] + 1 >= ConnRetry
    /\ errors' = [errors EXCEPT ![t] = @ + 1]
    /\ SetState(t, "T_STOP")
    /\ first' = -1
    /\ Goto(t, "exited")
    /\ UNCHANGED <<begin, got, total, taskSize, retry, fsize, src, off, recacl,
                   main, cycle, length, disk>>

CaclTask(t) ==
    /\ At(t, "cacl")
    /\ \E pTotal \in {length} \cup (IF "nolength" \in Faults THEN {0} ELSE {}) :
          /\ taskSize' = pTotal
          /\ IF pTotal > 0
                THEN /\ begin' = CaclBegin(pTotal)
                     /\ got' = [u \in Threads |-> 0]
                     /\ total' = CaclTotal(pTotal)
                     /\ state' = [u \in Threads |-> "T_READY"]
                ELSE UNCHANGED <<begin, got, total, state>>
    /\ cycle' = 1
    /\ first' = 0
    /\ Goto(t, "open")
    /\ UNCHANGED <<conn, recacl, main, length, disk>>

-----------------------------------------------------------------------------
(* Fetching *)

\* Mutant: a resumed segment is written from its beginning.
OpenFile_AtBegin(t) ==
    /\ At(t, "open")
    /\ off' = [off EXCEPT ![t] = IF begin[t] < 0 THEN 0 ELSE begin[t]]
    /\ fsize' = [fsize EXCEPT ![t] = 0]
    /\ SetState(t, "T_RETRIVE")
    /\ Goto(t, "read")
    /\ UNCHANGED <<begin, got, total, taskSize, retry, errors, src, recacl,
                   shared, disk>>

\* open, lseek (which fails on a negative offset and leaves it at 0) and
\* PrepairData, whose result is ignored.
OpenFile(t) ==
    /\ At(t, "open")
    /\ off' = [off EXCEPT ![t] = IF begin[t] + got[t] < 0 THEN 0 ELSE begin[t] + got[t]]
    /\ fsize' = [fsize EXCEPT ![t] = 0]
    /\ SetState(t, "T_RETRIVE")
    /\ Goto(t, "read")
    /\ UNCHANGED <<begin, got, total, taskSize, retry, errors, src, recacl,
                   shared, disk>>

\* What Read returns when the server has `length - src` bytes to go.
Rlen(t, size) == IF size <= length - src[t] THEN size ELSE length - src[t]

Block(t, rlen) == off[t] .. (off[t] + rlen - 1)

\* Mutant: counts the bytes asked for, not those that arrived.
ReadData_CountsAsked(t) ==
    /\ At(t, "read")
    /\ src[t] < length
    /\ \E size \in ReadSizes :
          /\ src' = [src EXCEPT ![t] = @ + Rlen(t, size)]
          /\ off' = [off EXCEPT ![t] = @ + Rlen(t, size)]
          /\ got' = [got EXCEPT ![t] = @ + size]
    /\ Goto(t, "check")
    /\ UNCHANGED <<begin, total, state, taskSize, retry, errors, fsize, recacl,
                   shared, disk>>

\* Read, write and IncreateGotSize; of these only got is visible to others.
ReadData(t) ==
    /\ At(t, "read")
    /\ src[t] < length
    /\ \E size \in ReadSizes :
          /\ src' = [src EXCEPT ![t] = @ + Rlen(t, size)]
          /\ off' = [off EXCEPT ![t] = @ + Rlen(t, size)]
          /\ got' = [got EXCEPT ![t] = @ + Rlen(t, size)]
          /\ IF off[t] = src[t]
                THEN /\ good' = good \cup Block(t, Rlen(t, size))
                     /\ bad' = bad \ Block(t, Rlen(t, size))
                ELSE /\ good' = good \ Block(t, Rlen(t, size))
                     /\ bad' = bad \cup Block(t, Rlen(t, size))
    /\ Goto(t, "check")
    /\ UNCHANGED <<begin, total, state, taskSize, retry, errors, fsize, recacl,
                   shared>>

\* Read returns 0 or less with the segment unfinished.
EndOfData(t) ==
    /\ At(t, "read")
    /\ src[t] >= length \/ "drop" \in Faults
    /\ Goto(t, "tail")
    /\ UNCHANGED <<table, conn, recacl, shared, disk>>

\* Mutant: waits for a byte more than the segment has.
CheckSegment_OneMore(t) ==
    /\ At(t, "check")
    /\ Goto(t, IF got[t] > total[t] THEN "close" ELSE "read")
    /\ UNCHANGED <<table, conn, recacl, shared, disk>>

\* The progress bar (CreateBarImage) divides by total, converts the quotient to
\* int and fills that much of it with memset, which overruns the process if the
\* conversion of an infinity or a negative percentage makes the length negative.
CheckSegment(t) ==
    /\ At(t, "check")
    /\ \/ Goto(t, IF got[t] >= total[t] THEN "close" ELSE "read")
       \/ "wild" \in Faults /\ total[t] <= 0 /\ Goto(t, "fault")
    /\ UNCHANGED <<table, conn, recacl, shared, disk>>

\* Mutant: a finished segment is T_END, which the scan does not know.
CloseSegment_End(t) ==
    /\ At(t, "close")
    /\ SetState(t, "T_END")
    /\ Goto(t, "recalc")
    /\ UNCHANGED <<begin, got, total, taskSize, conn, recacl, shared, disk>>

CloseSegment(t) ==
    /\ At(t, "close")
    /\ SetState(t, "T_CLOSE")
    /\ Goto(t, "recalc")
    /\ UNCHANGED <<begin, got, total, taskSize, conn, recacl, shared, disk>>

-----------------------------------------------------------------------------
(* ReCaclTask *)

StartRecacl(t) ==
    /\ At(t, "recalc")
    /\ IF got[t] < total[t]
          THEN Goto(t, "after")
          ELSE Goto(t, "scan")
    /\ UNCHANGED <<table, conn, recacl, shared, disk>>

Longer(t) ==
    LET n == no[t]
    IN  n # t /\ state[n] # "T_CLOSE" /\ total[n] - got[n] > left[t]

ScanSkip(t) ==
    /\ At(t, "scan") /\ no[t] < N /\ ~ Longer(t)
    /\ no' = [no EXCEPT ![t] = @ + 1]
    /\ UNCHANGED <<table, conn, left, maxtc, plan, reg, shared, disk, pc>>

ScanLonger(t) ==
    /\ At(t, "scan") /\ no[t] < N /\ Longer(t)
    /\ Goto(t, "pick")
    /\ UNCHANGED <<table, conn, recacl, shared, disk>>

\* The fields are read again, and may have changed since the comparison.
ScanPick(t) ==
    /\ At(t, "pick")
    /\ left' = [left EXCEPT ![t] = total[no[t]] - got[no[t]]]
    /\ maxtc' = [maxtc EXCEPT ![t] = no[t]]
    /\ no' = [no EXCEPT ![t] = @ + 1]
    /\ Goto(t, "scan")
    /\ UNCHANGED <<table, conn, plan, reg, shared, disk>>

\* No entry had anything left: maxtc is read uninitialised.
UseUninitialised(t) ==
    /\ At(t, "scan") /\ no[t] = N /\ maxtc[t] = NoVictim
    /\ \/ /\ \E w \in {Elsewhere} \cup (IF "wild" \in Faults THEN Threads ELSE {}) :
                maxtc' = [maxtc EXCEPT ![t] = w]
          /\ UNCHANGED pc
       \/ /\ "wild" \in Faults
          /\ Goto(t, "fault")
          /\ UNCHANGED maxtc
    /\ UNCHANGED <<table, conn, no, left, plan, reg, shared, disk>>

\* The SIGSEGV handler returns to the faulting instruction.
FaultAgain(t) == At(t, "fault") /\ UNCHANGED vars

TestStop(t) ==
    /\ At(t, "scan") /\ no[t] = N /\ maxtc[t] # NoVictim
    /\ IF maxtc[t] # Elsewhere /\ state[maxtc[t]] = "T_STOP"
          THEN Goto(t, "begin") /\ plan' = [plan EXCEPT ![t] = "stop"]
          ELSE Goto(t, "minsplit") /\ UNCHANGED plan
    /\ UNCHANGED <<table, conn, no, left, maxtc, reg, shared, disk>>

TestSplit(t) ==
    /\ At(t, "minsplit")
    /\ plan' = [plan EXCEPT ![t] =
                  IF maxtc[t] # Elsewhere /\ left[t] > MinSplit(state[maxtc[t]])
                  THEN "split" ELSE "none"]
    /\ Goto(t, "begin")
    /\ UNCHANGED <<table, conn, no, left, maxtc, reg, shared, disk>>

SetBegin(t) ==
    /\ At(t, "begin")
    /\ begin' = [begin EXCEPT ![t] =
          CASE plan[t] = "stop"  -> begin[maxtc[t]] + got[maxtc[t]]
            [] plan[t] = "split" -> begin[maxtc[t]] + total[maxtc[t]] - BinLeft(left[t])
            [] plan[t] = "none"  -> taskSize]
    /\ Goto(t, "total")
    /\ UNCHANGED <<got, total, state, taskSize, conn, recacl, shared, disk>>

SetTotal(t) ==
    /\ At(t, "total")
    /\ total' = [total EXCEPT ![t] = IF plan[t] = "none" THEN 0 ELSE Amount(t)]
    /\ Goto(t, "got")
    /\ UNCHANGED <<begin, got, state, taskSize, conn, recacl, shared, disk>>

SetGot(t) ==
    /\ At(t, "got")
    /\ got' = [got EXCEPT ![t] = 0]
    /\ Goto(t, "state")
    /\ UNCHANGED <<begin, total, state, taskSize, conn, recacl, shared, disk>>

SetOwnState(t) ==
    /\ At(t, "state")
    /\ SetState(t, IF plan[t] = "none" THEN "T_CLOSE" ELSE "T_READY")
    /\ Goto(t, IF plan[t] = "none" THEN "after" ELSE "load")
    /\ UNCHANGED <<begin, got, total, taskSize, conn, recacl, shared, disk>>

\* maxtc->m_total_size = maxtc->m_total_size - amount, a load and a store.
LoadVictim(t) ==
    /\ At(t, "load")
    /\ reg' = [reg EXCEPT ![t] = total[maxtc[t]]]
    /\ Goto(t, "store")
    /\ UNCHANGED <<table, conn, no, left, maxtc, plan, shared, disk>>

\* Mutant: the victim gives up the larger half, the thief takes the smaller.
StoreVictim_LargerHalf(t) ==
    /\ At(t, "store")
    /\ total' = [total EXCEPT ![maxtc[t]] = reg[t] - (left[t] - BinLeft(left[t]))]
    /\ Goto(t, IF plan[t] = "stop" THEN "mark" ELSE "after")
    /\ UNCHANGED <<begin, got, state, taskSize, conn, recacl, shared, disk>>

\* Mutant: the victim keeps what the thief takes.
StoreVictim_KeepsAll(t) ==
    /\ At(t, "store")
    /\ Goto(t, IF plan[t] = "stop" THEN "mark" ELSE "after")
    /\ UNCHANGED <<begin, got, total, state, taskSize, conn, recacl, shared, disk>>

StoreVictim(t) ==
    /\ At(t, "store")
    /\ total' = [total EXCEPT ![maxtc[t]] = reg[t] - Amount(t)]
    /\ Goto(t, IF plan[t] = "stop" THEN "mark" ELSE "after")
    /\ UNCHANGED <<begin, got, state, taskSize, conn, recacl, shared, disk>>

CloseVictim(t) ==
    /\ At(t, "mark")
    /\ SetState(maxtc[t], "T_CLOSE")
    /\ Goto(t, "after")
    /\ UNCHANGED <<begin, got, total, taskSize, conn, recacl, shared, disk>>

-----------------------------------------------------------------------------
(* After a segment *)

\* The test after ReCaclTask: nothing was left to take.
AfterRecacl(t) ==
    /\ At(t, "after")
    /\ Goto(t, IF total[t] = 0 /\ begin[t] = taskSize THEN "exited" ELSE "tail")
    /\ no' = [no EXCEPT ![t] = 0]
    /\ left' = [left EXCEPT ![t] = 0]
    /\ maxtc' = [maxtc EXCEPT ![t] = NoVictim]
    /\ plan' = [plan EXCEPT ![t] = "none"]
    /\ reg' = [reg EXCEPT ![t] = 0]
    /\ UNCHANGED <<table, conn, shared, disk>>

\* Mutant: leaves when the segment is the last of the task, finished or not.
Tail_AtLastSegment(t) ==
    /\ At(t, "tail")
    /\ IF begin[t] + total[t] >= taskSize
          THEN SetState(t, "T_CLOSE") /\ Goto(t, "exited")
          ELSE Goto(t, "connect") /\ UNCHANGED state
    /\ src' = [src EXCEPT ![t] = 0]
    /\ off' = [off EXCEPT ![t] = 0]
    /\ UNCHANGED <<begin, got, total, taskSize, retry, errors, fsize, recacl,
                   shared, disk>>

\* The test at the foot of the loop.
Tail(t) ==
    /\ At(t, "tail")
    /\ IF begin[t] >= taskSize
          THEN SetState(t, "T_CLOSE") /\ Goto(t, "exited")
          ELSE Goto(t, "connect") /\ UNCHANGED state
    /\ src' = [src EXCEPT ![t] = 0]
    /\ off' = [off EXCEPT ![t] = 0]
    /\ UNCHANGED <<begin, got, total, taskSize, retry, errors, fsize, recacl,
                   shared, disk>>

-----------------------------------------------------------------------------
Connecting(t) ==
    \/ ConnectOk(t) \/ ConnectFails(t) \/ ConnectGivesUp(t)
    \/ ValidOk(t) \/ ValidFails(t) \/ ValidGivesUp(t) \/ CaclTask(t)

Fetching(t) ==
    \/ OpenFile(t) \/ ReadData(t) \/ EndOfData(t)
    \/ CheckSegment(t) \/ CloseSegment(t)

ReCaclTask(t) ==
    \/ StartRecacl(t) \/ ScanSkip(t) \/ ScanLonger(t) \/ ScanPick(t)
    \/ UseUninitialised(t) \/ FaultAgain(t) \/ TestStop(t) \/ TestSplit(t)
    \/ SetBegin(t) \/ SetTotal(t) \/ SetGot(t) \/ SetOwnState(t)
    \/ LoadVictim(t) \/ StoreVictim(t) \/ CloseVictim(t)

Leaving(t) == AfterRecacl(t) \/ Tail(t)

Thread(t) == Connecting(t) \/ Fetching(t) \/ ReCaclTask(t) \/ Leaving(t)

Main == CreateThreads \/ GiveUp \/ AllFinished

\* The process is gone.
Ended == main = "end" /\ UNCHANGED vars

Next == Main \/ (\E t \in Threads : Thread(t)) \/ Ended

Spec == Init /\ [][Next]_vars
\* Every thread is scheduled.  The network is as good as this much: an attempt
\* made again and again succeeds in the end, and data asked for again and again
\* arrives.
FairSpec ==
    /\ Spec
    /\ WF_vars(Main)
    /\ \A t \in Threads :
          /\ WF_vars(Thread(t))
          /\ SF_vars(ConnectOk(t))
          /\ SF_vars(ValidOk(t))
          /\ SF_vars(ReadData(t))

-----------------------------------------------------------------------------
(* Properties *)

\* The variables have their types.
TypeOK ==
    /\ length \in Lengths
    /\ begin \in [Threads -> Int]
    /\ got \in [Threads -> Nat]
    /\ total \in [Threads -> Int]
    /\ state \in [Threads -> States]
    /\ taskSize \in Nat
    /\ main \in {"wait", "run", "end"}
    /\ first \in {1, 0, -1}
    /\ pc \in [Threads -> Labels]
    /\ cycle \in {0, 1}
    /\ retry \in Nat
    /\ errors \in [Threads -> Nat]
    /\ fsize \in [Threads -> Int]
    /\ src \in [Threads -> Nat]
    /\ off \in [Threads -> Nat]
    /\ no \in [Threads -> 0 .. N]
    /\ left \in [Threads -> Int]
    /\ maxtc \in [Threads -> Threads \cup {NoVictim, Elsewhere}]
    /\ plan \in [Threads -> Plans]
    /\ reg \in [Threads -> Int]
    /\ good \subseteq Nat
    /\ bad \subseteq Nat

\* A thread with the output file open, fetching a segment.
Streaming(t) == pc[t] \in {"read", "check", "close"}

\* While a thread fetches, the place it writes at is the place its table entry
\* says it has reached, although other threads take over parts of the segment
\* in the middle of it (m_begin_position + m_got_size, mwget.cpp:497).
InPlace ==
    \A t \in Threads : Streaming(t) /\ begin[t] >= 0 => off[t] = begin[t] + got[t]

\* If the server honours ranges, no byte of the file is ever wrong, however the
\* threads' segments overlap: the request, the seek and the count agree.
NoWrongByte == "norange" \notin Faults => bad = {}

\* If no thread gives up and the uninitialised pointer hits nothing, the program
\* ends: connections may fail and break, but every takeover of a segment leaves
\* less to take, and a thread with nothing to take leaves.
Terminates == <>(main = "end")
=============================================================================
