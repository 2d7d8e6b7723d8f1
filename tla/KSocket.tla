------------------------------ MODULE KSocket ------------------------------
(***************************************************************************)
(* ksocket.cpp over a TCP connection: the loops of Read, Reads, Peek,      *)
(* Readline and Write around select, each system call one action.  Bytes   *)
(* are known by their position in the stream they belong to.               *)
(***************************************************************************)
EXTENDS Integers

CONSTANTS
    Stream,         \* lengths of what the peer sends before it closes
    Lengths,        \* lengths asked of Read and given to Write
    PeekMax,        \* sizeof(tbuf) in Reads and Peek, 1024
    TORetry,        \* mTORetry, 5
    LineEnds        \* positions in the stream of "\n" after "\r"

ASSUME SocketAssumption ==
    /\ Stream \subseteq Nat /\ Lengths \subseteq Nat \ {0} /\ LineEnds \subseteq Nat
    /\ PeekMax \in Nat \ {0} /\ TORetry \in Nat

VARIABLES
    size,           \* what the peer will have sent in all
    next, arrived,  \* first byte not read yet; bytes that have arrived in all
    conn,           \* "up"; "reset" by the peer, which no call has reported
                    \* yet; "broken" when one has
    op,             \* the method running, "none" if none
    want, got,      \* pLength and len of the running loop
    start,          \* next when the loop began
    toRetry, errRetry,
    buf,            \* pBuffer, from 0 .. got - 1 to positions in the stream
    out,            \* what Write has sent, as positions in pData
    last            \* history: the method that returned last

world == <<size, next, arrived, conn>>
locals == <<op, want, got, start, toRetry, errRetry, buf, out, last>>
svars == <<world, locals>>

Ops == {"none", "Read", "Reads", "ReadsRead", "Peek", "Readline",
        "Write", "killed"}
Reading == {"Read", "ReadsRead", "Readline"}        \* in the loop of Read
Peeking == {"Reads", "Peek"}                        \* in a loop that peeks

Least(a, b) == IF a <= b THEN a ELSE b
EmptyBuf == [i \in {} |-> 0]
Filled(f, from, n, first) ==
    [i \in 0 .. from + n - 1 |-> IF i < from THEN f[i] ELSE first + (i - from)]

SocketInit ==
    /\ size \in Stream
    /\ next = 0 /\ arrived = 0 /\ conn = "up"
    /\ op = "none" /\ want = 0 /\ got = 0 /\ start = 0
    /\ toRetry = 0 /\ errRetry = 0
    /\ buf = EmptyBuf /\ out = EmptyBuf /\ last = "none"

-----------------------------------------------------------------------------
(* The network. *)

Arrive(n) ==
    /\ conn = "up" /\ arrived + n <= size
    /\ arrived' = arrived + n
    /\ UNCHANGED <<size, next, conn, locals>>

\* A reset discards what has not been read.
PeerResets ==
    /\ conn = "up" /\ arrived < size
    /\ conn' = "reset" /\ arrived' = next /\ size' = next
    /\ UNCHANGED <<next, locals>>

Readable == next < arrived \/ arrived = size

-----------------------------------------------------------------------------
(* The methods. *)

Begin(o, n) ==
    /\ op = "none"
    /\ op' = o /\ want' = n /\ got' = 0 /\ start' = next
    /\ toRetry' = 0 /\ errRetry' = 0 /\ buf' = EmptyBuf /\ out' = EmptyBuf
    /\ UNCHANGED <<world, last>>

Return == op' = "none" /\ last' = op

\* select returned 0.  Read goes on to test a set select has cleared, and
\* loops; Write loops; Reads and Peek leave, and Reads asks Read for nothing.
SelectTimesOut ==
    /\ \/ op \in Reading \cup Peeking /\ ~ Readable
       \/ op = "Write"
    /\ IF op \in Peeking \/ toRetry >= TORetry
       THEN Return /\ UNCHANGED toRetry
       ELSE toRetry' = toRetry + 1 /\ UNCHANGED <<op, last>>
    /\ UNCHANGED <<world, want, got, start, errRetry, buf, out>>

SelectFails ==
    /\ op \notin {"none", "killed"}
    /\ IF errRetry >= TORetry
       THEN Return /\ UNCHANGED errRetry
       ELSE errRetry' = errRetry + 1 /\ UNCHANGED <<op, last>>
    /\ UNCHANGED <<world, want, got, start, toRetry, buf, out>>

\* Mutant: what read has returned is enough.
ReadSome_Once(n) ==
    /\ op \in Reading
    /\ n \in 1 .. Least(arrived - next, want - got)
    /\ buf' = Filled(buf, got, n, next)
    /\ next' = next + n /\ got' = got + n
    /\ Return
    /\ UNCHANGED <<size, arrived, conn, start, out, want, toRetry, errRetry>>

\* read returned n > 0 bytes.  Readline calls Read for one byte at a time,
\* and ends when the last two are "\r\n".
ReadSome(n) ==
    /\ op \in Reading
    /\ n \in 1 .. Least(arrived - next, want - got)
    /\ buf' = Filled(buf, got, n, next)
    /\ next' = next + n /\ got' = got + n
    /\ \/ /\ op # "Readline"
          /\ IF got + n = want THEN Return ELSE UNCHANGED <<op, last>>
          /\ UNCHANGED <<want, toRetry, errRetry>>
       \/ /\ op = "Readline"
          /\ IF next \in LineEnds /\ got > 0 THEN Return ELSE UNCHANGED <<op, last>>
          /\ want' = want + 1 /\ toRetry' = 0 /\ errRetry' = 0
    /\ UNCHANGED <<size, arrived, conn, start, out>>

\* read returned 0.
ReadEnd ==
    /\ op \in Reading /\ next = size /\ conn # "reset"
    /\ Return
    /\ UNCHANGED <<world, want, got, start, toRetry, errRetry, buf, out>>

\* read or write returned -1: the loop goes on; the error is reported once.
ReportsReset ==
    /\ op \in Reading \cup {"Write"} /\ conn = "reset"
    /\ conn' = "broken"
    /\ UNCHANGED <<size, next, arrived, locals>>

\* Mutant: recv without MSG_PEEK.
PeekSome_Takes(n) ==
    /\ op \in Peeking
    /\ n \in 1 .. Least(arrived - next, PeekMax)
    /\ next' = next + n
    /\ IF op = "Peek"
       THEN Return /\ buf' = Filled(EmptyBuf, 0, n, next) /\ got' = n
            /\ UNCHANGED <<want, start, toRetry, errRetry>>
       ELSE op' = "ReadsRead" /\ want' = n /\ toRetry' = 0 /\ errRetry' = 0
            /\ UNCHANGED <<got, start, buf, last>>
    /\ UNCHANGED <<size, arrived, conn, out>>

\* recv with MSG_PEEK.  Reads then reads as much as it has seen; Peek
\* returns, and not the length.
PeekSome(n) ==
    /\ op \in Peeking
    /\ n \in 1 .. Least(arrived - next, PeekMax)
    /\ IF op = "Peek"
       THEN Return /\ buf' = Filled(EmptyBuf, 0, n, next) /\ got' = n
            /\ UNCHANGED <<want, start, toRetry, errRetry>>
       ELSE op' = "ReadsRead" /\ want' = n /\ toRetry' = 0 /\ errRetry' = 0
            /\ UNCHANGED <<got, start, buf, last>>
    /\ UNCHANGED <<world, out>>

PeekEnd ==
    /\ op \in Peeking /\ next = size
    /\ Return
    /\ conn' = IF conn = "reset" THEN "broken" ELSE conn
    /\ UNCHANGED <<size, next, arrived, want, got, start, toRetry, errRetry, buf, out>>

\* write returned n > 0.
WriteSome(n) ==
    /\ op = "Write" /\ conn = "up"
    /\ n \in 1 .. want - got
    /\ out' = Filled(out, got, n, got)
    /\ got' = got + n
    /\ IF got + n = want THEN Return ELSE UNCHANGED <<op, last>>
    /\ UNCHANGED <<world, want, start, toRetry, errRetry, buf>>

\* No handler for SIGPIPE is installed: a write to a connection known to be
\* broken ends the process.
WriteBroken ==
    /\ op = "Write" /\ conn = "broken"
    /\ op' = "killed"
    /\ UNCHANGED <<world, want, got, start, toRetry, errRetry, buf, out, last>>

Call ==
    \/ \E n \in Lengths : Begin("Read", n) \/ Begin("Write", n)
    \/ Begin("Reads", 0)
    \/ Begin("Peek", PeekMax)
    \/ Begin("Readline", 1)

Step ==
    \/ SelectTimesOut
    \/ SelectFails
    \/ \E n \in 1 .. size : ReadSome(n)
    \/ ReadEnd
    \/ ReportsReset
    \/ \E n \in 1 .. size : PeekSome(n)
    \/ PeekEnd
    \/ \E n \in 1 .. want : WriteSome(n)
    \/ WriteBroken

SocketNext ==
    \/ \E n \in 1 .. size : Arrive(n)
    \/ PeerResets
    \/ Call
    \/ Step

SocketSpec == SocketInit /\ [][SocketNext]_svars

\* The caller runs; the network owes it nothing.
SocketFairness == WF_svars(Step)

-----------------------------------------------------------------------------
SocketTypeOK ==
    /\ size \in Nat /\ next \in 0 .. arrived /\ arrived \in 0 .. size
    /\ conn \in {"up", "reset", "broken"} /\ op \in Ops
    /\ want \in Nat /\ got \in 0 .. want /\ start \in Nat
    /\ toRetry \in 0 .. TORetry /\ errRetry \in 0 .. TORetry
    /\ buf = [i \in DOMAIN buf |-> buf[i]] /\ out = [i \in DOMAIN out |-> out[i]]
    /\ DOMAIN buf \subseteq 0 .. want /\ DOMAIN out \subseteq 0 .. want

\* What a call of Read, Reads or Readline has put in the buffer is what
\* follows, in the stream, on what the calls before took: however it comes in
\* pieces, no byte is lost, repeated or read past by peeking, and no more is
\* stored than asked for.  What Peek stores is there to be read again.
DeliversInOrder ==
    /\ \A i \in DOMAIN buf : buf[i] = start + i
    /\ out = EmptyBuf => DOMAIN buf = 0 .. got - 1
    /\ op \in Reading => next = start + got
    /\ op = "none" /\ last = "Peek" => next = start

\* What Write has sent is a prefix of its data, whatever part each write takes.
SendsInOrder ==
    \A i \in DOMAIN out : out[i] = i /\ i < want

\* Read returns less than it was asked for, and Readline less than a line,
\* only at the end of the stream or after TORetry retries: a call that returns
\* early for a piece of data would make a header or a segment look complete.
ShortForAReason ==
    op = "none" /\ last \in Reading /\ got < want =>
        \/ next = size
        \/ toRetry = TORetry \/ errRetry = TORetry
        \/ last = "Readline" /\ next - 1 \in LineEnds

\* Every call returns, or a write to a broken connection kills the process.
CallsReturn == op # "none" ~> op \in {"none", "killed"}

\* However select, recv and send cut a transfer up, both directions of the
\* connection carry every byte once and in its place.
BytesInOrder == DeliversInOrder /\ SendsInOrder
=============================================================================
