---------------------------- MODULE Descriptors ----------------------------
(***************************************************************************)
(* The sockets and files of the download threads in the one table of       *)
(* descriptors of the process (ksocket.cpp, retrieve.cpp, http.cpp and the *)
(* file handling of retr_thread_func), for an HTTP download.               *)
(*                                                                         *)
(* A KSocket is a number.  After TaskValid both KSockets of a retriever    *)
(* hold the same one and TaskFinish closes both; the output file is closed *)
(* twice as well.  The kernel gives every new socket and file the lowest   *)
(* free number, so what the second close hits depends on what the other    *)
(* threads have opened since the first.                                    *)
(***************************************************************************)
EXTENDS Integers, FiniteSets, FiniteSetsExt

CONSTANTS
    N,          \* g_thread_count
    Slots,      \* descriptors the process may still open
    Failures    \* bound: failed attempts, all threads together

ASSUME NAssumption == N \in Nat \ {0}
ASSUME SlotsAssumption == Slots \in Nat \ {0}
ASSUME FailuresAssumption == Failures \in Nat

Threads == 0 .. N - 1

\* 0, 1 and 2 are the standard ones and stay open.
Fds == 3 .. Slots + 2

None == -1

VARIABLES
    open,               \* what each descriptor is: free or something of a thread
    ctrl, tran, wfp,    \* mCtrlSock->mSockFD, mTranSock->mSockFD, wfp
    pc,                 \* where each thread is
    failed,             \* attempts that have failed so far
    stray               \* history: has a close hit something it was not meant for?

vars == <<open, ctrl, tran, wfp, pc, failed, stray>>

Free == [is |-> "free", of |-> None]
Sock(t) == [is |-> "socket", of |-> t]
Conn(t) == [is |-> "connection", of |-> t]
File(t) == [is |-> "file", of |-> t]

Labels == {"absent", "ctor1", "ctor2", "socket", "connect", "valid", "open", "transfer",
           "finish1", "finish2", "close", "next", "dtor1", "dtor2", "gone"}

Init ==
    /\ open = [fd \in Fds |-> Free]
    /\ ctrl = [t \in Threads |-> None]
    /\ tran = [t \in Threads |-> None]
    /\ wfp = [t \in Threads |-> None]
    /\ pc = [t \in Threads |-> IF t = 0 THEN "ctor1" ELSE "absent"]
    /\ failed = 0
    /\ stray = FALSE

-----------------------------------------------------------------------------
Go(t, from, to) == pc[t] = from /\ pc' = [pc EXCEPT ![t] = to]

Unused == {fd \in Fds : open[fd] = Free}

\* socket() and open(): the lowest free descriptor, or -1.
Allocated == IF Unused = {} THEN None ELSE Min(Unused)

\* The table after it holds `what`.
Holding(what) ==
    IF Unused = {} THEN open ELSE [open EXCEPT ![Allocated] = what]

\* close() of a number that is meant to be one of `meant`, and may be none.
CloseFd(fd, meant) ==
    IF fd = None \/ open[fd] = Free
    THEN UNCHANGED <<open, stray>>
    ELSE /\ open' = [open EXCEPT ![fd] = Free]
         /\ stray' = (stray \/ open[fd] \notin meant)

Fail == failed < Failures /\ failed' = failed + 1

-----------------------------------------------------------------------------
(* One retriever and its KSockets *)

\* The constructor of a KSocket opens a socket.
MakeCtrl(t) ==
    /\ Go(t, "ctor1", "ctor2")
    /\ ctrl' = [ctrl EXCEPT ![t] = Allocated]
    /\ open' = Holding(Sock(t))
    /\ UNCHANGED <<tran, wfp, failed, stray>>

MakeTran(t) ==
    /\ Go(t, "ctor2", "socket")
    /\ tran' = [tran EXCEPT ![t] = Allocated]
    /\ open' = Holding(Sock(t))
    /\ UNCHANGED <<ctrl, wfp, failed, stray>>

\* Connect: `if (mSockFD = -1)` assigns, so a new socket is opened each time.
ConnectOpens(t) ==
    /\ Unused # {}
    /\ Go(t, "socket", "connect")
    /\ ctrl' = [ctrl EXCEPT ![t] = Allocated]
    /\ open' = Holding(Sock(t))
    /\ UNCHANGED <<tran, wfp, failed, stray>>

\* No descriptor is left: Connect fails without a socket.
ConnectExhausted(t) ==
    /\ Unused = {}
    /\ Go(t, "socket", "socket")
    /\ ctrl' = [ctrl EXCEPT ![t] = None]
    /\ UNCHANGED <<open, tran, wfp, failed, stray>>

\* connect() on whatever the number is by now.
Connected(t) ==
    /\ Go(t, "connect", "valid")
    /\ open[ctrl[t]].is = "socket"
    /\ open' = [open EXCEPT ![ctrl[t]].is = "connection"]
    /\ UNCHANGED <<ctrl, tran, wfp, failed, stray>>

Refused(t) ==
    /\ Fail
    /\ Go(t, "connect", "socket")
    /\ UNCHANGED <<open, ctrl, tran, wfp, stray>>

\* Mutant: the transfer socket's number is not that of the connection.
Valid_Apart(t) ==
    /\ pc[t] = "valid" /\ open[ctrl[t]].is = "connection"
    /\ pc' = [u \in Threads |->
                  IF u = t THEN "open"
                  ELSE IF t = 0 /\ pc[u] = "absent" THEN "ctor1" ELSE pc[u]]
    /\ ctrl' = [ctrl EXCEPT ![t] = tran[t]]
    /\ UNCHANGED <<open, tran, wfp, failed, stray>>

\* TaskValid: the transfer socket becomes the control socket; what it was is
\* forgotten, not closed.  The first success of thread 0 has the others created.
Valid(t) ==
    /\ pc[t] = "valid" /\ open[ctrl[t]].is = "connection"
    /\ pc' = [u \in Threads |->
                  IF u = t THEN "open"
                  ELSE IF t = 0 /\ pc[u] = "absent" THEN "ctor1" ELSE pc[u]]
    /\ tran' = [tran EXCEPT ![t] = ctrl[t]]
    /\ UNCHANGED <<open, ctrl, wfp, failed, stray>>

\* The request is refused, and the connection is left as it is.
Invalid(t) ==
    /\ Fail
    /\ \/ Go(t, "valid", "socket")
       \/ Go(t, "valid", "dtor1")
    /\ UNCHANGED <<open, ctrl, tran, wfp, stray>>

OpenFile(t) ==
    /\ Go(t, "open", "transfer")
    /\ wfp' = [wfp EXCEPT ![t] = Allocated]
    /\ open' = Holding(File(t))
    /\ UNCHANGED <<ctrl, tran, failed, stray>>

\* Mutant: closes the socket's number where it means the file's.
SegmentDone_Socket(t) ==
    /\ Go(t, "transfer", "finish1")
    /\ CloseFd(ctrl[t], {File(t)})
    /\ UNCHANGED <<ctrl, tran, wfp, failed>>

\* The segment is complete: the file is closed for the first time.
SegmentDone(t) ==
    /\ Go(t, "transfer", "finish1")
    /\ CloseFd(wfp[t], {File(t)})
    /\ UNCHANGED <<ctrl, tran, wfp, failed>>

\* The connection ends first.
SegmentBroken(t) ==
    /\ Fail
    /\ Go(t, "transfer", "finish1")
    /\ UNCHANGED <<open, ctrl, tran, wfp, stray>>

\* TaskFinish, and the destructor of the retriever: the transfer socket first.
CloseTran(t) ==
    /\ Go(t, "finish1", "finish2") \/ Go(t, "dtor1", "dtor2")
    /\ CloseFd(tran[t], {Sock(t), Conn(t)})
    /\ tran' = [tran EXCEPT ![t] = None]
    /\ UNCHANGED <<ctrl, wfp, failed>>

CloseCtrl(t) ==
    /\ Go(t, "finish2", "close") \/ Go(t, "dtor2", "gone")
    /\ CloseFd(ctrl[t], {Sock(t), Conn(t)})
    /\ ctrl' = [ctrl EXCEPT ![t] = None]
    /\ UNCHANGED <<tran, wfp, failed>>

\* The close after TaskFinish, of a file that may be closed already.
CloseFile(t) ==
    /\ Go(t, "close", "next")
    /\ CloseFd(wfp[t], {File(t)})
    /\ wfp' = [wfp EXCEPT ![t] = None]
    /\ UNCHANGED <<ctrl, tran, failed>>

\* Another segment, or the end of the thread.
Again(t) ==
    /\ Go(t, "next", "socket") \/ Go(t, "next", "dtor1")
    /\ UNCHANGED <<open, ctrl, tran, wfp, failed, stray>>

-----------------------------------------------------------------------------
Thread(t) ==
    \/ MakeCtrl(t) \/ MakeTran(t)
    \/ ConnectOpens(t) \/ ConnectExhausted(t) \/ Connected(t) \/ Refused(t)
    \/ Valid(t) \/ Invalid(t)
    \/ OpenFile(t) \/ SegmentDone(t) \/ SegmentBroken(t)
    \/ CloseTran(t) \/ CloseCtrl(t) \/ CloseFile(t) \/ Again(t)

Next == \E t \in Threads : Thread(t)

Spec == Init /\ [][Next]_vars

-----------------------------------------------------------------------------
(* Properties *)

\* The variables have their types.
TypeOK ==
    /\ open \in [Fds -> {Free} \cup {Sock(t) : t \in Threads}
                   \cup {Conn(t) : t \in Threads} \cup {File(t) : t \in Threads}]
    /\ {ctrl, tran, wfp} \subseteq [Threads -> Fds \cup {None}]
    /\ pc \in [Threads -> Labels]
    /\ failed \in 0 .. Failures
    /\ stray \in BOOLEAN

\* Descriptors that are open and that nobody can close any more.
Orphans ==
    {fd \in Fds : open[fd] # Free /\ \A t \in Threads : fd \notin {ctrl[t], tran[t], wfp[t]}}

\* Until a close has hit something it was not meant for, a thread that transfers
\* reads its own connection and writes its own file, however the other threads
\* open, close and lose descriptors (mwget.cpp:521-545).
OwnDescriptors ==
    ~ stray =>
        \A t \in Threads : pc[t] = "transfer" =>
            /\ open[ctrl[t]] = Conn(t)
            /\ wfp[t] # None => open[wfp[t]] = File(t)

\* Closing twice does no harm by itself (mwget.cpp:590-604, retrieve.cpp:76-81):
\* as long as the other threads have opened nothing, no close hits anything it was
\* not meant for, whatever thread 0 opens, loses and closes.
HarmlessAlone ==
    (\A t \in Threads \ {0} : pc[t] \in {"absent", "ctor1"}) => ~ stray

\* A descriptor is lost for good only to the two sockets a retriever is made
\* with and to attempts that fail: a segment fetched in full loses none.
LeaksAreFailures == Cardinality(Orphans) <= 2 * N + failed

\* With four descriptors for each thread and one for each failed attempt, no file
\* is ever written through a descriptor that open() failed to give.
RoomToWrite ==
    Slots >= 4 * N + failed =>
        \A t \in Threads : pc[t] = "transfer" => wfp[t] # None

\* The attempts that leave a descriptor behind are counted, and so the process
\* has one left for every file it writes.
DescriptorsCounted == LeaksAreFailures /\ RoomToWrite

\* "A connection must established before this method can be called"
\* (ksocket.h:124-128, Close).
ClosesAConnection ==
    \A t \in Threads : pc[t] = "finish2" => open[ctrl[t]].is = "connection"
============================================================================
