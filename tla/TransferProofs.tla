--------------------------- MODULE TransferProofs ---------------------------
(***************************************************************************)
(* KSocket and HttpRetriever proved.  Whatever the network delivers, in    *)
(* whatever pieces, and however often a call retries, Read, Reads and      *)
(* Readline store the bytes of the stream in order and Write sends those of *)
(* its data in order; SocketInv adds what the loops know of each other: that *)
(* nothing has been taken off the stream while a call still peeks.  For    *)
(* every length of header and document, what TaskValid hands over starts   *)
(* behind the header (BodyBehindHeader), comes from a good answer          *)
(* (GoodAnswers), and HttpRetriever implements what Retriever promises     *)
(* (ImplementsRetriever).  HttpInv follows the header from the Peek that has *)
(* seen it whole to the Read that takes it away.                           *)
(*                                                                         *)
(* RtspSession proved: the requests are numbered from the answers          *)
(* (RequestsInSequence), and rtsp_session_read hands out the packets in    *)
(* order and whole (PacketsInSequence).  DialogueInv says what is scheduled *)
(* between an answer and the next request; in StreamInv, Flow relates what *)
(* has been taken off the connection to what is still to come.             *)
(***************************************************************************)
EXTENDS KSocket, HttpRetriever, RtspSession, SequenceTheorems, TLAPS

-----------------------------------------------------------------------------
(* The socket wrapper *)

\* What the running method has done so far.
LoopInv ==
    /\ op \in Peeking => next = start /\ got = 0
    /\ op = "Peek" => want = PeekMax
    /\ op = "Readline" => want = got + 1
    /\ op \in Peeking \cup Reading => out = EmptyBuf
    /\ op \in Peeking \cup {"Write"} => buf = EmptyBuf
    /\ op = "Write" => DOMAIN out = 0 .. got - 1

\* Types, order and LoopInv together are inductive.
SocketInv == SocketTypeOK /\ DeliversInOrder /\ SendsInOrder /\ LoopInv

\* A buffer with nothing in it.
LEMMA EmptyBy == EmptyBuf = [i \in DOMAIN EmptyBuf |-> EmptyBuf[i]] /\ DOMAIN EmptyBuf = {}
  BY DEF EmptyBuf

\* At first nothing has been read or written.
LEMMA SocketInvInit == SocketInit => SocketInv
<1> SUFFICES ASSUME SocketInit PROVE SocketInv
  OBVIOUS
<1>1. SocketTypeOK
  BY SocketAssumption, EmptyBy DEF SocketInit, SocketTypeOK, Ops
<1>2. DeliversInOrder /\ SendsInOrder
  BY EmptyBy DEF SocketInit, DeliversInOrder, SendsInOrder, Reading
<1>3. LoopInv
  BY DEF SocketInit, LoopInv, Reading, Peeking
<1> QED
  BY <1>1, <1>2, <1>3 DEF SocketInv

\* No step of the network or of a method breaks SocketInv.
LEMMA SocketInvStep == SocketInv /\ [SocketNext]_svars => SocketInv'
<1> SUFFICES ASSUME SocketInv, [SocketNext]_svars PROVE SocketInv'
  OBVIOUS
<1> USE SocketAssumption
<1>1. ASSUME NEW n \in 1 .. size, Arrive(n) PROVE SocketInv'
  <2>1. SocketTypeOK'
    BY <1>1 DEF Arrive, locals, SocketInv, SocketTypeOK
  <2>2. DeliversInOrder' /\ SendsInOrder' /\ LoopInv'
    BY <1>1 DEF Arrive, locals, SocketInv, DeliversInOrder, SendsInOrder, LoopInv
  <2> QED
    BY <2>1, <2>2 DEF SocketInv
<1>2. ASSUME PeerResets PROVE SocketInv'
  <2>1. SocketTypeOK'
    BY <1>2 DEF PeerResets, locals, SocketInv, SocketTypeOK
  <2>2. DeliversInOrder' /\ SendsInOrder' /\ LoopInv'
    BY <1>2 DEF PeerResets, locals, SocketInv, DeliversInOrder, SendsInOrder, LoopInv
  <2> QED
    BY <2>1, <2>2 DEF SocketInv
<1>3. ASSUME NEW o \in Ops \ {"none", "killed", "ReadsRead"}, NEW n \in Nat,
             o = "Peek" => n = PeekMax, o = "Readline" => n = 1, Begin(o, n)
      PROVE  SocketInv'
  <2>1. SocketTypeOK'
    BY <1>3, EmptyBy DEF Begin, world, SocketInv, SocketTypeOK
  <2>2. DeliversInOrder' /\ SendsInOrder'
    BY <1>3, EmptyBy DEF Begin, world, SocketInv, SocketTypeOK, DeliversInOrder,
                SendsInOrder, Reading, Ops
  <2>3. LoopInv'
    BY <1>3, EmptyBy DEF Begin, world, LoopInv, Peeking, Reading, Ops
  <2> QED
    BY <2>1, <2>2, <2>3 DEF SocketInv
<1>4. ASSUME SelectTimesOut \/ SelectFails \/ ReadEnd \/ PeekEnd \/ ReportsReset \/ WriteBroken
      PROVE  SocketInv'
  <2>1. /\ UNCHANGED <<size, next, arrived, want, got, start, buf, out>>
        /\ op' \in {op, "killed"} \/ (op' = "none" /\ last' = op)
        /\ op' = op => last' = last
        /\ conn' \in {"up", "reset", "broken"}
        /\ toRetry' \in 0 .. TORetry /\ errRetry' \in 0 .. TORetry
    BY <1>4 DEF SelectTimesOut, SelectFails, ReadEnd, PeekEnd, ReportsReset, WriteBroken,
                Return, world, locals, SocketInv, SocketTypeOK, Reading, Peeking
  <2>2. SocketTypeOK'
    BY <2>1 DEF SocketInv, SocketTypeOK, Ops
  <2>3. DeliversInOrder' /\ SendsInOrder'
    BY <2>1 DEF SocketInv, DeliversInOrder, SendsInOrder, LoopInv, Reading, Peeking
  <2>4. LoopInv'
    BY <2>1 DEF SocketInv, LoopInv, Reading, Peeking
  <2> QED
    BY <2>2, <2>3, <2>4 DEF SocketInv
<1>5. ASSUME NEW n \in 1 .. size, ReadSome(n) PROVE SocketInv'
  <2>1. n \in Nat \ {0} /\ next + n <= arrived /\ got + n <= want
    BY <1>5 DEF ReadSome, Least, SocketInv, SocketTypeOK
  <2>2. /\ buf' = Filled(buf, got, n, next)
        /\ next' = next + n /\ got' = got + n
        /\ want' \in {want, want + 1}
        /\ op' = op \/ (op' = "none" /\ last' = op)
        /\ op \in Reading
        /\ UNCHANGED <<size, arrived, conn, start, out>>
        /\ toRetry' \in 0 .. TORetry /\ errRetry' \in 0 .. TORetry
    BY <1>5 DEF ReadSome, Return, SocketInv, SocketTypeOK
  <2>3. /\ buf' = [i \in DOMAIN buf' |-> buf'[i]]
        /\ DOMAIN buf' = 0 .. got' - 1
        /\ \A i \in DOMAIN buf' : buf'[i] = IF i < got THEN buf[i] ELSE next + (i - got)
    BY <2>1, <2>2 DEF Filled, SocketInv, SocketTypeOK
  <2>4. out = EmptyBuf /\ next = start + got /\ DOMAIN buf = 0 .. got - 1
    BY <2>2 DEF SocketInv, LoopInv, DeliversInOrder
  <2>5. SocketTypeOK'
    <3>1. /\ want' \in Nat /\ got' \in 0 .. want' /\ next' \in 0 .. arrived'
          /\ arrived' \in 0 .. size' /\ size' \in Nat
      BY <2>1, <2>2 DEF SocketInv, SocketTypeOK
    <3>2. DOMAIN buf' \subseteq 0 .. want' /\ DOMAIN out' \subseteq 0 .. want'
      BY <2>2, <2>3, <2>4, <3>1, EmptyBy
    <3> QED
      BY <2>2, <2>3, <3>1, <3>2 DEF SocketInv, SocketTypeOK, Ops
  <2>6. ASSUME NEW i \in DOMAIN buf' PROVE buf'[i] = start + i
    <3>1. /\ i \in 0 .. got + n - 1 /\ got \in Nat /\ start \in Nat
          /\ buf'[i] = IF i < got THEN buf[i] ELSE next + (i - got)
      BY <2>1, <2>2, <2>3, <2>6, SMTT(30) DEF SocketInv, SocketTypeOK
    <3>2. CASE i < got
      <4>1. i \in DOMAIN buf
        BY <2>4, <3>1, <3>2
      <4> QED
        BY <3>1, <3>2, <4>1 DEF SocketInv, DeliversInOrder
    <3>3. CASE ~ (i < got)
      BY <2>1, <2>4, <3>1, <3>3
    <3> QED
      BY <3>2, <3>3
  <2>7. DeliversInOrder' /\ SendsInOrder'
    BY <2>1, <2>2, <2>3, <2>4, <2>6, EmptyBy, SMTT(30) DEF SocketInv, SocketTypeOK, DeliversInOrder,
                SendsInOrder, Reading
  <2>8. LoopInv'
    <3>1. op' = "Readline" => want' = got' + 1
      BY <1>5, <2>1, <2>2 DEF ReadSome, Return, SocketInv, SocketTypeOK, LoopInv, Reading
    <3> QED
      BY <2>2, <2>4, <3>1 DEF LoopInv, Reading, Peeking
  <2> QED
    BY <2>5, <2>7, <2>8 DEF SocketInv
<1>6. ASSUME NEW n \in 1 .. size, PeekSome(n) PROVE SocketInv'
  <2>1. n \in Nat \ {0} /\ n <= PeekMax
    BY <1>6 DEF PeekSome, Least, SocketInv, SocketTypeOK
  <2>2. next = start /\ got = 0 /\ out = EmptyBuf /\ buf = EmptyBuf /\ op \in Peeking
    BY <1>6 DEF PeekSome, SocketInv, LoopInv
  <2>3. CASE op = "Peek"
    <3>1. /\ op' = "none" /\ last' = "Peek" /\ got' = n
          /\ buf' = Filled(EmptyBuf, 0, n, next)
          /\ UNCHANGED <<size, next, arrived, conn, want, start, toRetry, errRetry, out>>
          /\ want = PeekMax
      BY <1>6, <2>3 DEF PeekSome, Return, world, SocketInv, LoopInv
    <3>2. /\ buf' = [i \in DOMAIN buf' |-> buf'[i]] /\ DOMAIN buf' = 0 .. n - 1
          /\ \A i \in DOMAIN buf' : buf'[i] = next + i
      BY <2>1, <3>1 DEF Filled, SocketInv, SocketTypeOK
    <3>3. SocketTypeOK'
      BY <2>1, <3>1, <3>2 DEF SocketInv, SocketTypeOK, Ops
    <3>4. DeliversInOrder' /\ SendsInOrder' /\ LoopInv'
      BY <2>1, <2>2, <3>1, <3>2, EmptyBy DEF DeliversInOrder, SendsInOrder, LoopInv, Reading,
                  Peeking
    <3> QED
      BY <3>3, <3>4 DEF SocketInv
  <2>4. CASE op # "Peek"
    <3>1. /\ op' = "ReadsRead" /\ want' = n /\ toRetry' = 0 /\ errRetry' = 0
          /\ UNCHANGED <<size, next, arrived, conn, got, start, buf, last, out>>
      BY <1>6, <2>4 DEF PeekSome, world
    <3>2. SocketTypeOK'
      BY <2>1, <2>2, <3>1, EmptyBy DEF SocketInv, SocketTypeOK, Ops
    <3>3. DeliversInOrder' /\ SendsInOrder' /\ LoopInv'
      BY <2>1, <2>2, <3>1, EmptyBy DEF SocketInv, SocketTypeOK, DeliversInOrder, SendsInOrder,
                  LoopInv, Reading, Peeking
    <3> QED
      BY <3>2, <3>3 DEF SocketInv
  <2> QED
    BY <2>3, <2>4
<1>7. ASSUME NEW n \in 1 .. want, WriteSome(n) PROVE SocketInv'
  <2>1. n \in Nat \ {0} /\ got + n <= want
    BY <1>7 DEF WriteSome, SocketInv, SocketTypeOK
  <2>2. /\ out' = Filled(out, got, n, got) /\ got' = got + n
        /\ op = "Write" /\ (op' = op \/ (op' = "none" /\ last' = op))
        /\ UNCHANGED <<size, next, arrived, conn, want, start, toRetry, errRetry, buf>>
    BY <1>7 DEF WriteSome, Return, world
  <2>3. /\ out' = [i \in DOMAIN out' |-> out'[i]] /\ DOMAIN out' = 0 .. got' - 1
        /\ \A i \in DOMAIN out' : out'[i] = IF i < got THEN out[i] ELSE got + (i - got)
    BY <2>1, <2>2 DEF Filled, SocketInv, SocketTypeOK
  <2>4. buf = EmptyBuf /\ DOMAIN out = 0 .. got - 1
    BY <2>2 DEF SocketInv, LoopInv
  <2>5. SocketTypeOK'
    BY <2>1, <2>2, <2>3, <2>4, EmptyBy, SMTT(30) DEF SocketInv, SocketTypeOK, Ops
  <2>6. out' # EmptyBuf
    <3>1. 0 \in DOMAIN out'
      BY <2>1, <2>2, <2>3 DEF SocketInv, SocketTypeOK
    <3> QED
      BY <3>1, EmptyBy
  <2>7. DeliversInOrder' /\ LoopInv'
    BY <2>2, <2>3, <2>4, <2>6, EmptyBy DEF DeliversInOrder, LoopInv, Reading, Peeking
  <2>8. \A i \in DOMAIN out' : out'[i] = i /\ i < want
    BY <2>1, <2>2, <2>3, <2>4, SMTT(30) DEF SocketInv, SocketTypeOK, SendsInOrder
  <2>9. SendsInOrder'
    BY <2>2, <2>8 DEF SendsInOrder
  <2> QED
    BY <2>5, <2>7, <2>9 DEF SocketInv
<1>8. ASSUME UNCHANGED svars PROVE SocketInv'
  BY <1>8 DEF svars, world, locals, SocketInv, SocketTypeOK, DeliversInOrder, SendsInOrder,
              LoopInv
<1>9. Call => \E o \in Ops \ {"none", "killed", "ReadsRead"}, n \in Nat :
                 (o = "Peek" => n = PeekMax) /\ (o = "Readline" => n = 1) /\ Begin(o, n)
  BY DEF Call, Ops
<1> QED
  BY <1>1, <1>2, <1>3, <1>4, <1>5, <1>6, <1>7, <1>8, <1>9 DEF SocketNext, Step

\* The counters of the loops (ksocket.cpp:273-356, 363-548) stay within their
\* limits and no loop stores more than it was asked for.
THEOREM SocketTypes == SocketSpec => []SocketTypeOK
<1>1. SocketInv => SocketTypeOK
  BY DEF SocketInv
<1> QED
  BY <1>1, SocketInvInit, SocketInvStep, PTL DEF SocketSpec

\* What Read, Reads and Readline (ksocket.cpp:273-455, 554-583) have stored follows
\* in the stream on what the calls before took.
THEOREM InOrderIn == SocketSpec => []DeliversInOrder
<1>1. SocketInv => DeliversInOrder
  BY DEF SocketInv
<1> QED
  BY <1>1, SocketInvInit, SocketInvStep, PTL DEF SocketSpec

\* What Write (ksocket.cpp:134-240) has sent is a prefix of its data.
THEOREM InOrderOut == SocketSpec => []SendsInOrder
<1>1. SocketInv => SendsInOrder
  BY DEF SocketInv
<1> QED
  BY <1>1, SocketInvInit, SocketInvStep, PTL DEF SocketSpec

\* Both directions of a connection: BytesInOrder, which the run "retrieval" checks.
COROLLARY InOrder == SocketSpec => []BytesInOrder
<1>1. DeliversInOrder /\ SendsInOrder => BytesInOrder
  BY DEF BytesInOrder
<1> QED
  BY <1>1, InOrderIn, InOrderOut, PTL
-----------------------------------------------------------------------------
\* A read that has ended early keeps its reason, whatever the network does next.
LEMMA ShortStep == SocketInv /\ ShortForAReason /\ [SocketNext]_svars => ShortForAReason'
<1> SUFFICES ASSUME SocketInv, ShortForAReason, [SocketNext]_svars,
                    op' = "none", last' \in Reading, got' < want'
             PROVE  \/ next' = size'
                    \/ toRetry' = TORetry \/ errRetry' = TORetry
                    \/ last' = "Readline" /\ next' - 1 \in LineEnds
  BY DEF ShortForAReason
<1> USE SocketAssumption
<1>1. ASSUME NEW n \in 1 .. size, Arrive(n) PROVE next' = size' \/ ShortForAReason'
  BY <1>1 DEF Arrive, locals, ShortForAReason
<1>2. CASE PeerResets
  BY <1>2 DEF PeerResets
<1>3. ASSUME NEW o \in Ops \ {"none", "killed"}, NEW n \in Nat, Begin(o, n) PROVE FALSE
  BY <1>3 DEF Begin
<1>4. ASSUME SelectTimesOut \/ SelectFails
      PROVE  toRetry' = TORetry \/ errRetry' = TORetry
  BY <1>4 DEF SelectTimesOut, SelectFails, Return, SocketInv, SocketTypeOK, Reading, Peeking
<1>5. CASE ReadEnd
  BY <1>5 DEF ReadEnd, world
<1>6. ASSUME PeekEnd \/ ReportsReset \/ WriteBroken PROVE FALSE
  BY <1>6 DEF PeekEnd, ReportsReset, WriteBroken, Return, locals, Reading, Peeking
<1>7. ASSUME NEW n \in 1 .. size, ReadSome(n)
      PROVE  last' = "Readline" /\ next' - 1 \in LineEnds
  <2>1. op = "Readline" /\ last' = op /\ next \in LineEnds
    BY <1>7 DEF ReadSome, Return, SocketInv, SocketTypeOK, Reading
  <2>2. n = 1
    BY <1>7, <2>1 DEF ReadSome, Least, SocketInv, SocketTypeOK, LoopInv
  <2> QED
    BY <1>7, <2>1, <2>2 DEF ReadSome, SocketInv, SocketTypeOK
<1>8. ASSUME NEW n \in 1 .. size, PeekSome(n) PROVE FALSE
  BY <1>8 DEF PeekSome, Return, Reading, Peeking
<1>9. ASSUME NEW n \in 1 .. want, WriteSome(n) PROVE FALSE
  BY <1>9 DEF WriteSome, Return, Reading
<1>10. CASE UNCHANGED svars
  BY <1>10 DEF svars, world, locals, ShortForAReason
<1>11. Call => \E o \in Ops \ {"none", "killed"}, n \in Nat : Begin(o, n)
  BY DEF Call, Ops
<1> QED
  BY <1>1, <1>2, <1>3, <1>4, <1>5, <1>6, <1>7, <1>8, <1>9, <1>10, <1>11
     DEF SocketNext, Step, ShortForAReason

\* A call that has read less than it was asked for (ksocket.cpp:273-356, 554-583)
\* has met the end of the stream or has used up its retries.
THEOREM ShortReads == SocketSpec => []ShortForAReason
<1>1. SocketInit => SocketInv /\ ShortForAReason
  BY SocketInvInit DEF SocketInit, ShortForAReason, Reading
<1>2. SocketInv /\ ShortForAReason /\ [SocketNext]_svars => (SocketInv /\ ShortForAReason)'
  BY SocketInvStep, ShortStep
<1>3. SocketInv /\ ShortForAReason => ShortForAReason
  OBVIOUS
<1> QED
  BY <1>1, <1>2, <1>3, PTL DEF SocketSpec

-----------------------------------------------------------------------------
(* The HTTP retriever *)

HttpTypes ==
    /\ hpc \in {"peek", "parse", "read", "valid", "ready", "finished", "refused", "astray"}
    /\ asked \in HttpBegins /\ bsize \in Int /\ contentLength \in Int
    /\ response \in [status : {"2xx", "3xx", "4xx"}, head : Heads, from : Int, says : BOOLEAN]
    /\ sent \in Nat /\ read \in Int /\ rlen \in Nat /\ tidy \in BOOLEAN
    /\ rbuff \in [0 .. RBuff - 1 -> Int]

\* While nothing has gone wrong, the header has been seen, then measured, then read.
HeaderInv ==
    /\ hpc = "peek" /\ tidy => rlen = 0 /\ \A i \in 0 .. RBuff - 1 : rbuff[i] = NUL
    /\ hpc \in {"parse", "read"} /\ tidy => bsize = response.head /\ Ends(rbuff) # {}
    /\ hpc = "valid" /\ tidy => read = response.head
    /\ hpc = "ready" /\ tidy => read >= response.head
    /\ hpc \in {"valid", "ready"} /\ tidy => contentLength = Said

\* The buffer starts with the status line or with nothing.
StatusInv ==
    /\ rbuff[0] \in {NUL, 0}
    /\ hpc \in {"read", "valid", "ready", "finished"} /\ response.status # "2xx" => rbuff[0] = NUL

HttpInv == HttpTypes /\ HeaderInv /\ StatusInv

\* The answers a server may give have their types.
LEMMA ResponseTypes ==
    ASSUME NEW b \in HttpBegins
    PROVE  Responses(b) \subseteq
              [status : {"2xx", "3xx", "4xx"}, head : Heads, from : Int, says : BOOLEAN]
  BY HttpAssumption DEF Responses

\* At first nothing has been peeked at.
LEMMA HttpInvInit == HttpInit => HttpInv
<1> SUFFICES ASSUME HttpInit PROVE HttpInv
  OBVIOUS
<1>1. HttpTypes
  BY HttpAssumption, ResponseTypes DEF HttpInit, HttpTypes, NUL
<1>2. HeaderInv /\ StatusInv
  BY HttpAssumption DEF HttpInit, HeaderInv, StatusInv, NUL
<1> QED
  BY <1>1, <1>2 DEF HttpInv

\* The lengths an answer states are numbers, and a header has at least a line.
LEMMA SaidTypes == HttpTypes => Said \in Int /\ response.head \in Nat \ {0}
<1> SUFFICES ASSUME HttpTypes PROVE Said \in Int /\ response.head \in Nat \ {0}
  OBVIOUS
<1>1. response.from \in Int /\ response.head \in Heads
  BY DEF HttpTypes
<1>2. HttpLength - response.from \in Int
  BY <1>1, HttpAssumption
<1>3. 0 \in Int
  OBVIOUS
<1>4. Body \in Int
  BY <1>2, <1>3, Zenon DEF Body
<1>5. Said \in Int
  BY <1>3, <1>4, Zenon DEF Said
<1> QED
  BY <1>1, <1>5, HttpAssumption

\* No step of the client or of the network breaks HttpInv.
LEMMA HttpInvStep == HttpInv /\ [HttpNext]_htvars => HttpInv'
<1> SUFFICES ASSUME HttpInv, [HttpNext]_htvars PROVE HttpInv'
  OBVIOUS
<1> USE HttpAssumption
<1>1. CASE Delivers
  <2>1. HttpTypes'
    BY <1>1 DEF Delivers, HttpInv, HttpTypes
  <2>2. HeaderInv' /\ StatusInv'
    BY <1>1 DEF Delivers, HttpInv, HeaderInv, StatusInv, Ends, Said, Body
  <2> QED
    BY <2>1, <2>2 DEF HttpInv
<1>2. CASE PeekTurn
  <2>1. /\ hpc = "peek" /\ rlen' \in Nat /\ rbuff' = Copied(rlen)
        /\ hpc' \in {"peek", "parse"}
        /\ UNCHANGED <<asked, contentLength, response, sent, read>>
        /\ tidy' = (tidy /\ rlen = 0 /\ hpc' = "parse" /\ rlen' > 0)
    BY <1>2 DEF PeekTurn
  <2>2. bsize' \in Int
    BY <1>2, SMTT(30) DEF PeekTurn, HttpInv, HttpTypes, Copied, Ends
  <2>3. rbuff' \in [0 .. RBuff - 1 -> Int]
    BY <2>1 DEF Copied, HttpInv, HttpTypes
  <2>4. HttpTypes'
    BY <2>1, <2>2, <2>3 DEF HttpInv, HttpTypes
  <2>5. rbuff'[0] \in {NUL, 0}
    <3>1. 0 \in 0 .. RBuff - 1 /\ DOMAIN rbuff = 0 .. RBuff - 1
      BY DEF HttpInv, HttpTypes
    <3>2. rbuff'[0] = IF 0 \in rlen .. rlen + sent - 1 THEN 0 - rlen ELSE rbuff[0]
      BY <2>1, <3>1 DEF Copied
    <3> QED
      BY <3>2 DEF HttpInv, HttpTypes, StatusInv
  <2>6. ASSUME tidy'
        PROVE  bsize' = response'.head /\ Ends(rbuff)' # {}
    <3>1. tidy /\ rlen = 0 /\ hpc' = "parse" /\ rlen' > 0
      BY <2>1, <2>6
    <3>2. \A i \in 0 .. RBuff - 1 : rbuff[i] = NUL
      BY <2>1, <3>1 DEF HttpInv, HeaderInv
    <3>3. PICK i \in Ends(rbuff') : bsize' = i + 1
      BY <1>2, <2>1, <3>1 DEF PeekTurn, HttpInv, HttpTypes
    <3>4. i \in 0 .. RBuff - 1 /\ rbuff'[i] = response.head - 1
      BY <2>3, <3>3 DEF Ends
    <3>5. rbuff'[i] = IF i \in 0 .. sent - 1 THEN i ELSE NUL
      BY <2>1, <3>1, <3>2, <3>4 DEF Copied, HttpInv, HttpTypes
    <3>6. response.head \in Nat \ {0}
      BY SaidTypes DEF HttpInv
    <3>7. bsize' = response.head
      BY <3>3, <3>4, <3>5, <3>6 DEF NUL
    <3>8. Ends(rbuff)' = Ends(rbuff')
      BY <2>1 DEF Ends
    <3> QED
      BY <2>1, <3>3, <3>7, <3>8
  <2>7. HeaderInv'
    BY <2>1, <2>6 DEF HeaderInv
  <2>8. StatusInv'
    BY <2>1, <2>5 DEF StatusInv
  <2> QED
    BY <2>4, <2>7, <2>8 DEF HttpInv
<1>3. CASE Judge
  <2>1. /\ hpc = "parse" /\ hpc' \in {"read", "refused"}
        /\ hpc' = "read" /\ response.status # "2xx" => rbuff[0] # 0
        /\ UNCHANGED <<asked, bsize, contentLength, response, sent, read, rlen, rbuff, tidy>>
    BY <1>3 DEF Judge
  <2>2. HttpTypes' /\ StatusInv'
    BY <2>1 DEF HttpInv, HttpTypes, StatusInv
  <2>3. HeaderInv'
    BY <2>1 DEF HttpInv, HeaderInv, Ends
  <2> QED
    BY <2>2, <2>3 DEF HttpInv
<1>4. CASE Astray
  <2>1. HttpTypes' /\ StatusInv'
    BY <1>4 DEF Astray, HttpInv, HttpTypes, StatusInv
  <2>2. HeaderInv'
    BY <1>4 DEF Astray, HeaderInv
  <2> QED
    BY <2>1, <2>2 DEF HttpInv
<1>5. CASE Accept
  <2>1. PICK n \in 0 .. bsize : n <= sent /\ read' = n /\ tidy' = (tidy /\ n = bsize)
    BY <1>5 DEF Accept
  <2>2. /\ hpc = "read" /\ hpc' = "valid"
        /\ contentLength' \in IF Ends(rbuff) # {} /\ tidy THEN {Said} ELSE {0, 1, Said}
        /\ bsize' = contentLength'
        /\ UNCHANGED <<asked, response, sent, rlen, rbuff>>
    BY <1>5 DEF Accept
  <2>3. contentLength' \in Int
    BY <2>2, SaidTypes DEF HttpInv
  <2>4. HttpTypes'
    BY <2>1, <2>2, <2>3 DEF HttpInv, HttpTypes
  <2>5. tidy' => read' = response'.head /\ contentLength' = Said'
    BY <2>1, <2>2 DEF HttpInv, HeaderInv, Said, Body
  <2>6. HeaderInv'
    BY <2>2, <2>5 DEF HeaderInv
  <2>7. StatusInv'
    BY <2>2 DEF HttpInv, StatusInv
  <2> QED
    BY <2>4, <2>6, <2>7 DEF HttpInv
<1>6. CASE Prepair
  <2>1. HttpTypes' /\ StatusInv'
    BY <1>6 DEF Prepair, HttpInv, HttpTypes, StatusInv
  <2>2. HeaderInv'
    BY <1>6, SaidTypes DEF Prepair, HttpInv, HeaderInv, Said, Body
  <2> QED
    BY <2>1, <2>2 DEF HttpInv
<1>7. CASE Retrieve
  <2>1. HttpTypes' /\ StatusInv'
    BY <1>7 DEF Retrieve, HttpInv, HttpTypes, StatusInv
  <2>2. HeaderInv'
    <3>1. tidy => read' >= response.head
      BY <1>7, SaidTypes DEF Retrieve, HttpInv, HttpTypes, HeaderInv
    <3> QED
      BY <1>7, <3>1 DEF Retrieve, HttpInv, HeaderInv, Said, Body
  <2> QED
    BY <2>1, <2>2 DEF HttpInv
<1>8. CASE Finished
  <2>1. HttpTypes' /\ StatusInv'
    BY <1>8 DEF Finished, HttpInv, HttpTypes, StatusInv
  <2>2. HeaderInv'
    BY <1>8 DEF Finished, HeaderInv
  <2> QED
    BY <2>1, <2>2 DEF HttpInv
<1>9. CASE UNCHANGED htvars
  BY <1>9 DEF htvars, HttpInv, HttpTypes, HeaderInv, StatusInv, Ends, Said, Body
<1> QED
  BY <1>1, <1>2, <1>3, <1>4, <1>5, <1>6, <1>7, <1>8, <1>9 DEF HttpNext

\* HttpInv holds in every state.
LEMMA HttpInvariant == HttpSpec => []HttpInv
  BY HttpInvInit, HttpInvStep, PTL DEF HttpSpec

\* As long as one Peek saw the whole header and it was read away in time, the data
\* handed over (http.cpp:165-211) start behind it and the length is the server's.
THEOREM BodyBehindHeader == HttpSpec => []BodyAfterHeader
<1>1. HttpInv => BodyAfterHeader
  BY SaidTypes DEF HttpInv, HttpTypes, HeaderInv, BodyAfterHeader
<1> QED
  BY <1>1, HttpInvariant, PTL

\* What is taken for the document (http.cpp:184) comes from a 2xx answer, unless
\* the status line had not come when it was looked at.
THEOREM GoodAnswers == HttpSpec => []OnlyGoodAnswers
<1>1. HttpInv => OnlyGoodAnswers
  BY DEF HttpInv, StatusInv, OnlyGoodAnswers
<1> QED
  BY <1>1, HttpInvariant, PTL

\* Neither a header nor the page of an error reaches the file (http.cpp:56-213).
COROLLARY OnlyTheDocument == HttpSpec => []DocumentOnly
<1>1. BodyAfterHeader /\ OnlyGoodAnswers => DocumentOnly
  BY DEF DocumentOnly
<1> QED
  BY <1>1, BodyBehindHeader, GoodAnswers, PTL

-----------------------------------------------------------------------------
\* The state of the promise that a state of the HTTP retriever stands for.
At == IF hpc \in {"ready", "finished"} THEN response.from + read - response.head ELSE Unknown
Kept == tidy /\ response.from = asked /\ response.status = "2xx"

\* Every step of HttpRetriever is a step of Retriever or changes nothing there.
LEMMA HttpStep ==
    ASSUME HttpInv, [HttpNext]_htvars
    PROVE  [AskedHttp!Next]_(AskedHttp!rvars)
<1> USE DEF AskedHttp!Next, AskedHttp!rvars, HttpPhase
<1>1. CASE Delivers
  BY <1>1 DEF Delivers
<1>2. CASE PeekTurn
  <2>1. hpc = "peek" /\ hpc' \in {"peek", "parse"} /\ (tidy' => tidy)
        /\ UNCHANGED <<asked, response>>
    BY <1>2 DEF PeekTurn
  <2> QED
    BY <2>1 DEF AskedHttp!Worsens, AskedHttp!Breaks
<1>3. CASE Judge
  <2>1. hpc = "parse" /\ hpc' \in {"read", "refused"}
        /\ UNCHANGED <<asked, response, read, tidy>>
    BY <1>3 DEF Judge
  <2> QED
    BY <2>1 DEF AskedHttp!Fails, AskedHttp!Breaks
<1>4. CASE Astray
  BY <1>4 DEF Astray, AskedHttp!Fails, AskedHttp!Breaks
<1>5. CASE Accept
  <2>1. hpc = "read" /\ hpc' = "valid" /\ (tidy' => tidy) /\ UNCHANGED <<asked, response>>
    BY <1>5 DEF Accept
  <2> QED
    BY <2>1 DEF AskedHttp!Valid, AskedHttp!Breaks
<1>6. CASE Prepair
  <2>1. /\ hpc = "valid" /\ hpc' = "ready"
        /\ UNCHANGED <<asked, response, read, tidy>>
    BY <1>6 DEF Prepair
  <2>2. response.from + read - response.head \in Int
    BY SaidTypes DEF HttpInv, HttpTypes
  <2>3. Kept => response.from + read - response.head = asked
    BY <2>1, SaidTypes, HttpAssumption DEF Kept, HttpInv, HttpTypes, HeaderInv
  <2> QED
    BY <2>1, <2>2, <2>3 DEF Kept, AskedHttp!Ready, AskedHttp!Data, AskedHttp!Breaks
<1>7. CASE Retrieve
  <2>1. /\ hpc = "ready" /\ read' = read + 1
        /\ UNCHANGED <<hpc, asked, response, tidy>>
    BY <1>7 DEF Retrieve
  <2>2. response.from \in Int /\ read \in Int /\ response.head \in Nat
    BY SaidTypes DEF HttpInv, HttpTypes
  <2>3. /\ response.from + read - response.head # Unknown
        /\ response.from + (read + 1) - response.head = response.from + read - response.head + 1
    BY <2>2, HttpAssumption
  <2> QED
    BY <2>1, <2>3 DEF AskedHttp!Receive
<1>8. CASE Finished
  BY <1>8 DEF Finished, AskedHttp!Finish
<1>9. CASE UNCHANGED htvars
  BY <1>9 DEF htvars
<1> QED
  BY <1>1, <1>2, <1>3, <1>4, <1>5, <1>6, <1>7, <1>8, <1>9 DEF HttpNext

\* The HTTP retriever keeps the promise of retrieve.h: the data socket delivers
\* the document from the offset asked for, if the server honours Range and the
\* header was seen and read whole.
THEOREM ImplementsRetriever == HttpSpec => HttpRetrieves
<1>1. HttpInit => AskedHttp!Init
  BY DEF HttpInit, AskedHttp!Init, HttpPhase
<1>2. HttpInv /\ [HttpNext]_htvars => [AskedHttp!Next]_(AskedHttp!rvars)
  BY HttpStep
<1> QED
  BY <1>1, <1>2, HttpInvariant, PTL DEF HttpSpec, HttpRetrieves, AskedHttp!Spec

-----------------------------------------------------------------------------
(* The requests of the RTSP library *)

Fields == [name : {"Cseq", "Session", "ClientChallenge", "Accept", "Bandwidth", "RealChallenge2",
                   "If-Match", "Transport", "Subscribe", "Range"},
           val : Nat \cup SessionIds]
Later == {"DESCRIBE", "SETUP0", "SETUP1", "SET_PARAMETER", "PLAY"}
Request == [type : Later \cup {"OPTIONS"}, fields : Seq(Fields)]
Answer == [number : Nat, session : SessionIds \cup {0}]

\* The session named last in a sequence of answers, before the one at i.
NamedBefore(A, i) == {j \in 1 .. i - 1 : A[j].session # 0}
IsLast(A, i, id) ==
    \/ NamedBefore(A, i) = {} /\ id = 0
    \/ \E j \in NamedBefore(A, i) : id = A[j].session /\ \A k \in NamedBefore(A, i) : k <= j

\* What the fields of one request must be: the number n and the session id.
Proper(fields, n, id) ==
    /\ \E f \in DOMAIN fields : fields[f].name = "Cseq"
    /\ \A f \in DOMAIN fields : fields[f].name = "Cseq" => fields[f].val = n
    /\ id # 0 => \E f \in DOMAIN fields : fields[f].name = "Session"
    /\ \A f \in DOMAIN fields : fields[f].name = "Session" => id # 0 /\ fields[f].val = id
    /\ \A f, g \in DOMAIN fields : fields[f].name = fields[g].name => f = g

\* The fields of real.c for one request, none of them a standard one.
Plain(fields) ==
    /\ fields \in Seq(Fields)
    /\ \A f \in DOMAIN fields : fields[f].name \notin {"Cseq", "Session"}
    /\ \A f, g \in DOMAIN fields : fields[f].name = fields[g].name => f = g

\* Number n is one more than what was answered, or sent, before request i.
Continues(R, A, i, n) ==
    \E f \in DOMAIN R[i - 1].fields :
        /\ R[i - 1].fields[f].name = "Cseq"
        /\ n = 1 + IF A[i - 1].number # 0 THEN A[i - 1].number ELSE R[i - 1].fields[f].val

\* Request i carries number n and the session named before it.
Numbered(R, A, i, n) ==
    /\ IF i = 1 THEN n = 1 ELSE Continues(R, A, i, n)
    /\ \E id \in SessionIds \cup {0} : IsLast(A, i, id) /\ Proper(R[i].fields, n, id)

AllNumbered(R, A) == \A i \in DOMAIN R : \E n \in Nat : Numbered(R, A, i, n)

\* Types, and where the dialogue stands.
DialogueTypes ==
    /\ cseq \in Nat /\ session \in SessionIds \cup {0}
    /\ progress \in Seq(Later \cup {"OPTIONS"})
    /\ requests \in Seq(Request) /\ answered \in Seq(Answer) /\ scheduled \in Seq(Fields)

Ready ==
    /\ Len(answered) = Len(requests)
    /\ IsLast(answered, Len(requests) + 1, session)
    /\ IF requests = <<>> THEN scheduled = <<>> /\ cseq = 1 /\ progress # <<>> /\ Head(progress) = "OPTIONS"
       ELSE /\ scheduled = Standard(cseq, session)
            /\ Continues(requests, answered, Len(requests) + 1, cseq)
            /\ progress \in Seq(Later)

Waiting ==
    /\ Len(requests) = Len(answered) + 1 /\ scheduled = <<>> /\ progress # <<>>
    /\ IsLast(answered, Len(requests), session)
    /\ Numbered(requests, answered, Len(requests), cseq)

OthersFollow ==
    \A i \in 1 .. Len(progress) :
        /\ i > 1 => progress[i] \in Later
        /\ progress[i] = "SETUP0" => i < Len(progress)

DialogueInv ==
    /\ DialogueTypes
    /\ AllNumbered(requests, answered)
    /\ status = "ready" => Ready
    /\ status = "waiting" => Waiting
    /\ OthersFollow

\* The last session is one only, and what SessionBefore finds.
LEMMA LastIsOne ==
  ASSUME NEW A, NEW i \in Int, NEW x, NEW y, IsLast(A, i, x), IsLast(A, i, y)
  PROVE  x = y
<1>1. CASE NamedBefore(A, i) = {}
  BY <1>1 DEF IsLast
<1>2. CASE NamedBefore(A, i) # {}
  <2>1. PICK j \in NamedBefore(A, i) : x = A[j].session /\ \A k \in NamedBefore(A, i) : k <= j
    BY <1>2 DEF IsLast
  <2>2. PICK l \in NamedBefore(A, i) : y = A[l].session /\ \A k \in NamedBefore(A, i) : k <= l
    BY <1>2 DEF IsLast
  <2>3. j = l
    BY <2>1, <2>2 DEF NamedBefore
  <2> QED
    BY <2>1, <2>2, <2>3
<1> QED
  BY <1>1, <1>2

\* SessionBefore names it.
LEMMA SessionIsLast ==
  ASSUME NEW i \in Int, NEW id, IsLast(answered, i, id)
  PROVE  SessionBefore(i) = id
<1> DEFINE named == {j \in 1 .. i - 1 : answered[j].session # 0}
<1>1. named = NamedBefore(answered, i)
  BY DEF NamedBefore
<1>2. CASE named = {}
  BY <1>1, <1>2 DEF IsLast, SessionBefore
<1>3. CASE named # {}
  <2>1. PICK j \in named : id = answered[j].session /\ \A k \in named : k <= j
    BY <1>1, <1>3 DEF IsLast
  <2>2. \A l \in named : (\A k \in named : k <= l) => l = j
    BY <2>1
  <2>3. (CHOOSE l \in named : \A k \in named : k <= l) = j
    BY <2>1, <2>2
  <2> QED
    BY <1>3, <2>1, <2>3 DEF SessionBefore
<1> QED
  BY <1>2, <1>3

\* An answer more does not change what was named before it.
LEMMA LastStays ==
  ASSUME NEW A \in Seq(Answer), NEW B \in Seq(Answer), NEW i \in Int, NEW id,
         \A j \in 1 .. i - 1 : A[j] = B[j], IsLast(A, i, id)
  PROVE  IsLast(B, i, id)
<1>1. NamedBefore(A, i) = NamedBefore(B, i)
  BY DEF NamedBefore
<1>2. \A j \in NamedBefore(A, i) : A[j] = B[j]
  BY DEF NamedBefore
<1> QED
  BY <1>1, <1>2 DEF IsLast

\* Nor what was asked before.
LEMMA NumberedStays ==
  ASSUME NEW A \in Seq(Answer), NEW B \in Seq(Answer), NEW R, NEW Q,
         NEW i \in Nat \ {0}, NEW n,
         \A j \in 1 .. i - 1 : A[j] = B[j], \A j \in 1 .. i : R[j] = Q[j], Numbered(R, A, i, n)
  PROVE  Numbered(Q, B, i, n)
<1>1. PICK id \in SessionIds \cup {0} : IsLast(A, i, id) /\ Proper(R[i].fields, n, id)
  BY DEF Numbered
<1>2. IsLast(B, i, id)
  BY <1>1, LastStays
<1>3. IF i = 1 THEN n = 1 ELSE Continues(Q, B, i, n)
  <2>1. CASE i = 1
    BY <2>1 DEF Numbered
  <2>2. CASE i # 1
    <3>1. i - 1 \in 1 .. i /\ i - 1 \in 1 .. i - 1
      BY <2>2
    <3>2. R[i - 1] = Q[i - 1] /\ A[i - 1] = B[i - 1]
      BY <3>1
    <3>3. Continues(R, A, i, n)
      BY <2>2 DEF Numbered
    <3> QED
      BY <2>2, <3>2, <3>3 DEF Continues
  <2> QED
    BY <2>1, <2>2
<1>4. R[i] = Q[i]
  OBVIOUS
<1> QED
  BY <1>1, <1>2, <1>3, <1>4 DEF Numbered

\* Two sequences of one element make one of two.
LEMMA PairOf == ASSUME NEW a, NEW b PROVE <<a>> \o <<b>> = <<a, b>>
<1> DEFINE S == {a, b}
<1>1. <<a>> \in Seq(S) /\ <<b>> \in Seq(S) /\ <<a, b>> \in Seq(S)
  OBVIOUS
<1>2. PICK s : s = <<a>> \o <<b>>
  OBVIOUS
<1>3. s \in Seq(S) /\ Len(s) = 2 /\ s[1] = a /\ s[2] = b
  BY <1>1, <1>2
<1>4. PICK t : t = <<a, b>>
  OBVIOUS
<1>5. t \in Seq(S) /\ Len(t) = 2 /\ t[1] = a /\ t[2] = b
  BY <1>1, <1>4
<1>6. \A i \in 1 .. Len(s) : s[i] = t[i]
  <2>1. 1 .. Len(s) = {1, 2}
    BY <1>3
  <2> QED
    BY <1>3, <1>5, <2>1
<1> HIDE DEF S
<1> QED
  BY <1>2, <1>3, <1>4, <1>5, <1>6, SeqEqual

\* The standard fields: a number, and the session once there is one.
LEMMA StandardIs ==
  ASSUME NEW n \in Nat, NEW id \in SessionIds \cup {0}
  PROVE  /\ Standard(n, id) \in Seq(Fields)
         /\ Proper(Standard(n, id), n, id)
         /\ \A f \in DOMAIN Standard(n, id) : Standard(n, id)[f].name \in {"Cseq", "Session"}
<1>1. CASE id = 0
  <2>1. Standard(n, id) = <<[name |-> "Cseq", val |-> n]>>
    BY <1>1 DEF Standard, Field
  <2>2. PICK s : s = Standard(n, id)
    OBVIOUS
  <2>3. s \in Seq(Fields) /\ DOMAIN s = {1} /\ s[1].name = "Cseq" /\ s[1].val = n
    BY <2>1, <2>2 DEF Fields
  <2>4. Proper(s, n, id)
    BY <1>1, <2>3 DEF Proper
  <2>5. \A f \in DOMAIN s : s[f].name \in {"Cseq", "Session"}
    BY <2>3
  <2> QED
    BY <2>2, <2>3, <2>4, <2>5
<1>2. CASE id # 0
  <2>1. Standard(n, id) = <<[name |-> "Cseq", val |-> n], [name |-> "Session", val |-> id]>>
    <3>1. Standard(n, id) = <<[name |-> "Cseq", val |-> n]>> \o <<[name |-> "Session", val |-> id]>>
      BY <1>2, Zenon DEF Standard, Field
    <3> QED
      BY <3>1, PairOf, Zenon
  <2>2. PICK s : s = Standard(n, id)
    OBVIOUS
  <2>3. /\ s \in Seq(Fields) /\ DOMAIN s = {1, 2} /\ s[1].name = "Cseq" /\ s[1].val = n
        /\ s[2].name = "Session" /\ s[2].val = id
    BY <1>2, <2>1, <2>2 DEF Fields
  <2>4. Proper(s, n, id)
    BY <1>2, <2>3 DEF Proper
  <2>5. \A f \in DOMAIN s : s[f].name \in {"Cseq", "Session"}
    BY <2>3
  <2> QED
    BY <2>2, <2>3, <2>4, <2>5
<1> QED
  BY <1>1, <1>2

\* Fields of another name behind them change nothing of this.
LEMMA PlainBehind ==
  ASSUME NEW s \in Seq(Fields), NEW t, Plain(t), NEW n \in Nat, NEW id \in SessionIds \cup {0},
         Proper(s, n, id), \A f \in DOMAIN s : s[f].name \in {"Cseq", "Session"}
  PROVE  s \o t \in Seq(Fields) /\ Proper(s \o t, n, id)
<1>1. t \in Seq(Fields)
  BY DEF Plain
<1> DEFINE u == s \o t
<1>2. /\ u \in Seq(Fields) /\ DOMAIN u = 1 .. Len(s) + Len(t) /\ DOMAIN s = 1 .. Len(s)
      /\ DOMAIN t = 1 .. Len(t) /\ Len(s) \in Nat /\ Len(t) \in Nat
      /\ \A i \in DOMAIN u : u[i] = IF i <= Len(s) THEN s[i] ELSE t[i - Len(s)]
  BY <1>1, ConcatProperties, LenProperties
<1> HIDE DEF u
<1>3. \A i \in DOMAIN s : i \in DOMAIN u /\ u[i] = s[i]
  BY <1>2
<1>4. \A i \in DOMAIN u : \/ i \in DOMAIN s /\ u[i] = s[i]
                          \/ i - Len(s) \in DOMAIN t /\ u[i] = t[i - Len(s)] /\ i \in Int
  BY <1>2
<1>5. \A i \in DOMAIN u : u[i].name \in {"Cseq", "Session"} => i \in DOMAIN s /\ u[i] = s[i]
  BY <1>4 DEF Plain
<1>6. \A f, g \in DOMAIN u : u[f].name = u[g].name => f = g
  <2> SUFFICES ASSUME NEW f \in DOMAIN u, NEW g \in DOMAIN u, u[f].name = u[g].name PROVE f = g
    OBVIOUS
  <2>1. CASE u[f].name \in {"Cseq", "Session"}
    BY <1>5, <2>1 DEF Proper
  <2>2. CASE u[f].name \notin {"Cseq", "Session"}
    <3>1. /\ f - Len(s) \in DOMAIN t /\ u[f] = t[f - Len(s)] /\ f \in Int
          /\ g - Len(s) \in DOMAIN t /\ u[g] = t[g - Len(s)] /\ g \in Int
      BY <1>4, <2>2
    <3>2. f - Len(s) = g - Len(s)
      BY <3>1 DEF Plain
    <3> QED
      BY <1>2, <3>1, <3>2
  <2> QED
    BY <2>1, <2>2
<1>7. Proper(u, n, id)
  BY <1>3, <1>5, <1>6 DEF Proper
<1> QED
  BY <1>2, <1>7 DEF u

\* What real.c schedules for the later requests is plain, and the first has the
\* number.
LEMMA ScheduledIs ==
  /\ \A t \in Later : Plain(Scheduled[t])
  /\ Scheduled["OPTIONS"] \in Seq(Fields) /\ Proper(Scheduled["OPTIONS"], 1, 0)
<1>1. \A x \in {"Cseq", "Session", "ClientChallenge", "Accept", "Bandwidth", "RealChallenge2",
                "If-Match", "Transport", "Subscribe", "Range"}, v \in Nat :
         Field(x, v) \in Fields /\ Field(x, v).name = x /\ Field(x, v).val = v
  BY DEF Field, Fields
<1>2. Plain(Scheduled["DESCRIBE"])
  BY <1>1 DEF Scheduled, Plain
<1>3. Plain(Scheduled["SETUP0"])
  BY <1>1 DEF Scheduled, Plain
<1>4. Plain(Scheduled["SETUP1"])
  BY <1>1 DEF Scheduled, Plain
<1>5. Plain(Scheduled["SET_PARAMETER"]) /\ Plain(Scheduled["PLAY"])
  BY <1>1 DEF Scheduled, Plain
<1>6. Scheduled["OPTIONS"] \in Seq(Fields) /\ Proper(Scheduled["OPTIONS"], 1, 0)
  BY <1>1 DEF Scheduled, Proper
<1> QED
  BY <1>2, <1>3, <1>4, <1>5, <1>6 DEF Later

\* What a request may be is known.
LEMMA RequestTypes == \A t \in Later \cup {"OPTIONS"}, f \in Seq(Fields) :
                        [type |-> t, fields |-> f] \in Request
  BY DEF Request

\* A request goes out with the number and the session the client has.
LEMMA SendKeeps ==
  ASSUME DialogueInv, rtsp_send_request
  PROVE  DialogueInv'
<1> DEFINE type == Head(progress)
           fields == scheduled \o Scheduled[type]
           r == [type |-> type, fields |-> fields]
           n == Len(requests)
<1>1. /\ status = "ready" /\ progress # <<>> /\ requests' = Append(requests, r)
      /\ scheduled' = <<>> /\ status' = "waiting"
      /\ UNCHANGED <<progress, cseq, session, answered>>
  BY DEF rtsp_send_request
<1>2. DialogueTypes /\ AllNumbered(requests, answered) /\ Ready
  BY <1>1 DEF DialogueInv
<1>3. type \in Later \cup {"OPTIONS"} /\ type = progress[1]
  BY <1>1, <1>2 DEF DialogueTypes
<1>4. fields \in Seq(Fields) /\ Proper(fields, cseq, session)
  <2>1. CASE requests = <<>>
    <3>1. scheduled = <<>> /\ cseq = 1 /\ type = "OPTIONS"
      BY <1>2, <2>1 DEF Ready
    <3>2. IsLast(answered, 1, session) /\ NamedBefore(answered, 1) = {}
      BY <1>2, <2>1 DEF Ready, NamedBefore
    <3>3. session = 0
      BY <3>2 DEF IsLast
    <3>4. fields = Scheduled["OPTIONS"]
      BY <3>1, ScheduledIs, ConcatEmptySeq
    <3> QED
      BY <3>1, <3>3, <3>4, ScheduledIs
  <2>2. CASE requests # <<>>
    <3>1. scheduled = Standard(cseq, session) /\ progress \in Seq(Later)
      BY <1>2, <2>2 DEF Ready
    <3>2. Plain(Scheduled[type])
      BY <1>1, <3>1, ScheduledIs
    <3>3. cseq \in Nat /\ session \in SessionIds \cup {0}
      BY <1>2 DEF DialogueTypes
    <3>4. /\ scheduled \in Seq(Fields) /\ Proper(scheduled, cseq, session)
          /\ \A f \in DOMAIN scheduled : scheduled[f].name \in {"Cseq", "Session"}
      BY <3>1, <3>3, StandardIs
    <3> QED
      BY <3>2, <3>3, <3>4, PlainBehind
  <2> QED
    BY <2>1, <2>2
<1> HIDE DEF fields, type
<1>5. r \in Request /\ r.fields = fields
  BY <1>3, <1>4, RequestTypes
<1> HIDE DEF r
<1>6. PICK R : R = requests'
  OBVIOUS
<1>7. /\ requests \in Seq(Request) /\ n \in Nat /\ R \in Seq(Request) /\ Len(R) = n + 1 /\ R[n + 1] = r
      /\ \A i \in 1 .. n : R[i] = requests[i]
      /\ DOMAIN R = 1 .. n + 1 /\ DOMAIN requests = 1 .. n
  BY <1>1, <1>2, <1>5, <1>6, AppendProperties, LenProperties DEF DialogueTypes
<1> HIDE DEF n
<1>8. /\ answered \in Seq(Answer) /\ Len(answered) = n /\ IsLast(answered, n + 1, session)
      /\ cseq \in Nat /\ session \in SessionIds \cup {0}
  BY <1>2 DEF DialogueTypes, Ready, n
<1>9. IF n + 1 = 1 THEN cseq = 1 ELSE Continues(R, answered, n + 1, cseq)
  <2>1. CASE n = 0
    <3>1. requests = <<>>
      BY <1>7, <2>1, EmptySeq DEF n
    <3> QED
      BY <1>2, <2>1, <3>1 DEF Ready
  <2>2. CASE n # 0
    <3>1. requests # <<>>
      BY <2>2 DEF n
    <3>2. Continues(requests, answered, n + 1, cseq)
      BY <1>2, <3>1 DEF Ready, n
    <3>3. (n + 1) - 1 \in 1 .. n
      BY <1>7, <2>2
    <3>4. R[(n + 1) - 1] = requests[(n + 1) - 1]
      BY <1>7, <3>3
    <3>5. Continues(R, answered, n + 1, cseq)
      BY <3>2, <3>4 DEF Continues
    <3> QED
      BY <1>7, <2>2, <3>5
  <2> QED
    BY <2>1, <2>2
<1>10. Numbered(R, answered, n + 1, cseq)
  BY <1>4, <1>5, <1>7, <1>8, <1>9 DEF Numbered
<1>11. AllNumbered(R, answered)
  <2> SUFFICES ASSUME NEW i \in 1 .. n + 1 PROVE \E m \in Nat : Numbered(R, answered, i, m)
    BY <1>7 DEF AllNumbered
  <2>1. CASE i = n + 1
    BY <1>8, <1>10, <2>1
  <2>2. CASE i \in 1 .. n
    <3>1. PICK m \in Nat : Numbered(requests, answered, i, m)
      BY <1>2, <1>7, <2>2 DEF AllNumbered
    <3>2. \A j \in 1 .. i : requests[j] = R[j]
      BY <1>7, <2>2
    <3>3. Numbered(R, answered, i, m)
      BY <1>8, <2>2, <3>1, <3>2, NumberedStays
    <3> QED
      BY <3>3
  <2> QED
    BY <1>7, <2>1, <2>2
<1>12. DialogueTypes'
  BY <1>1, <1>2, <1>6, <1>7 DEF DialogueTypes
<1>13. AllNumbered(requests, answered)'
  BY <1>1, <1>6, <1>11 DEF AllNumbered
<1>14. Waiting'
  BY <1>1, <1>6, <1>7, <1>8, <1>10 DEF Waiting
<1> QED
  BY <1>1, <1>2, <1>12, <1>13, <1>14 DEF DialogueInv, OthersFollow

\* The session the server has just named, or the one before.
LEMMA NamesSession ==
  ASSUME NEW A \in Seq(Answer), NEW B \in Seq(Answer), NEW id, NEW old, NEW new,
         Len(B) = Len(A) + 1, \A j \in 1 .. Len(A) : B[j] = A[j],
         B[Len(A) + 1].session = id, IsLast(A, Len(A) + 1, old),
         new = IF id = 0 THEN old ELSE id
  PROVE  IsLast(B, Len(B) + 1, new)
<1> DEFINE n == Len(A)
<1>1. n \in Nat
  OBVIOUS
<1>2. \A j \in 1 .. n : A[j].session = B[j].session
  OBVIOUS
<1> HIDE DEF n
<1>3. NamedBefore(A, n + 1) = {j \in 1 .. n : A[j].session # 0}
  BY <1>1 DEF NamedBefore
<1>4. NamedBefore(B, n + 2) = {j \in 1 .. n + 1 : B[j].session # 0}
  BY <1>1 DEF NamedBefore
<1>5. CASE id = 0
  <2>1. \A j \in NamedBefore(B, n + 2) : j \in 1 .. n /\ j \in NamedBefore(A, n + 1)
    BY <1>1, <1>2, <1>3, <1>4, <1>5 DEF n
  <2>2. \A j \in NamedBefore(A, n + 1) : j \in NamedBefore(B, n + 2) /\ A[j].session = B[j].session
    BY <1>1, <1>2, <1>3, <1>4
  <2>3. NamedBefore(B, n + 2) = NamedBefore(A, n + 1)
    BY <2>1, <2>2
  <2>4. IsLast(A, n + 1, old) /\ new = old
    BY <1>5 DEF n
  <2>5. IsLast(B, n + 2, new)
    BY <2>2, <2>3, <2>4 DEF IsLast
  <2> QED
    BY <1>1, <2>5 DEF n
<1>6. CASE id # 0
  <2>1. n + 1 \in NamedBefore(B, n + 2) /\ B[n + 1].session = new
    BY <1>1, <1>4, <1>6 DEF n
  <2>2. \A k \in NamedBefore(B, n + 2) : k <= n + 1
    BY <1>1, <1>4
  <2>3. IsLast(B, n + 2, new)
    BY <2>1, <2>2 DEF IsLast
  <2> QED
    BY <1>1, <2>3 DEF n
<1> QED
  BY <1>5, <1>6

\* An answer gives the next request its number and session.
LEMMA AnswerKeeps ==
  ASSUME DialogueInv, NEW n \in Nat, NEW id \in SessionIds \cup {0}, Answers(n, id)
  PROVE  /\ cseq' \in Nat /\ session' \in SessionIds \cup {0}
         /\ requests' \in Seq(Request) /\ answered' \in Seq(Answer) /\ scheduled' \in Seq(Fields)
         /\ AllNumbered(requests, answered)'
         /\ Len(answered') = Len(requests')
         /\ IsLast(answered, Len(requests) + 1, session)'
         /\ requests' # <<>> /\ scheduled' = Standard(cseq, session)'
         /\ Continues(requests, answered, Len(requests) + 1, cseq)'
<1> DEFINE seen == IF n = 0 THEN cseq ELSE n
           name == IF id = 0 THEN session ELSE id
           a == [number |-> n, session |-> id]
           m == Len(answered)
<1>1. /\ status = "waiting" /\ cseq' = seen + 1 /\ session' = name
      /\ scheduled' = scheduled \o Standard(seen + 1, name)
      /\ answered' = Append(answered, a) /\ requests' = requests
  BY DEF Answers
<1>2. DialogueTypes /\ AllNumbered(requests, answered) /\ Waiting
  BY <1>1 DEF DialogueInv
<1>3. seen + 1 \in Nat /\ name \in SessionIds \cup {0} /\ a \in Answer
  BY <1>2 DEF DialogueTypes, Answer
<1>4. PICK B : B = answered'
  OBVIOUS
<1>5. /\ answered \in Seq(Answer) /\ m \in Nat /\ B \in Seq(Answer) /\ Len(B) = m + 1
      /\ B[m + 1] = a /\ \A j \in 1 .. m : B[j] = answered[j]
  BY <1>1, <1>2, <1>3, <1>4, AppendProperties, LenProperties DEF DialogueTypes
<1>6. a.number = n /\ a.session = id
  OBVIOUS
<1>7. PICK q : q = cseq'
  OBVIOUS
<1>8. q = 1 + IF a.number # 0 THEN a.number ELSE cseq
  BY <1>1, <1>2, <1>6, <1>7 DEF DialogueTypes
<1>9. /\ requests \in Seq(Request) /\ Len(requests) = m + 1 /\ DOMAIN requests = 1 .. m + 1
      /\ scheduled = <<>> /\ IsLast(answered, m + 1, session)
      /\ Numbered(requests, answered, m + 1, cseq)
  BY <1>2, LenProperties DEF DialogueTypes, Waiting
<1>10. scheduled' = Standard(seen + 1, name) /\ scheduled' \in Seq(Fields)
  <2>1. Standard(seen + 1, name) \in Seq(Fields)
    BY <1>3, StandardIs
  <2> QED
    BY <1>1, <1>9, <2>1, ConcatEmptySeq
<1>11. IsLast(B, Len(B) + 1, name)
  <2>1. B[m + 1].session = id /\ name = IF id = 0 THEN session ELSE id
    BY <1>5, <1>6
  <2>2. IsLast(answered, Len(answered) + 1, session)
    BY <1>9
  <2> QED
    BY <1>5, <2>1, <2>2, NamesSession
<1> HIDE DEF a, m, seen, name
<1>12. AllNumbered(requests, B)
  <2> SUFFICES ASSUME NEW i \in 1 .. m + 1 PROVE \E k \in Nat : Numbered(requests, B, i, k)
    BY <1>9 DEF AllNumbered
  <2>1. PICK k \in Nat : Numbered(requests, answered, i, k)
    BY <1>2, <1>9 DEF AllNumbered
  <2>2. \A j \in 1 .. i - 1 : answered[j] = B[j]
    BY <1>5
  <2>3. i \in Nat \ {0} /\ \A j \in 1 .. i : requests[j] = requests[j]
    BY <1>5
  <2>4. Numbered(requests, B, i, k)
    BY <1>5, <2>1, <2>2, <2>3, NumberedStays
  <2> QED
    BY <2>4
<1>13. Continues(requests, B, m + 2, q)
  <2>1. PICK f \in DOMAIN requests[m + 1].fields :
          requests[m + 1].fields[f].name = "Cseq" /\ requests[m + 1].fields[f].val = cseq
    <3>1. PICK x : Proper(requests[m + 1].fields, cseq, x)
      BY <1>9 DEF Numbered
    <3> QED
      BY <3>1 DEF Proper
  <2>2. (m + 2) - 1 = m + 1
    BY <1>5
  <2> QED
    BY <1>5, <1>8, <2>1, <2>2 DEF Continues
<1>14. Len(requests) + 1 = m + 2 /\ Len(B) + 1 = m + 2 /\ requests # <<>>
  BY <1>5, <1>9, EmptySeq
<1>15. AllNumbered(requests, answered)'
  BY <1>1, <1>4, <1>12 DEF AllNumbered
<1>16. IsLast(answered, Len(requests) + 1, session)'
  BY <1>1, <1>4, <1>11, <1>14
<1>17. Continues(requests, answered, Len(requests) + 1, cseq)'
  BY <1>1, <1>4, <1>7, <1>13, <1>14
<1>18. scheduled' = Standard(cseq, session)'
  BY <1>1, <1>10
<1>19. cseq' \in Nat /\ session' \in SessionIds \cup {0}
  BY <1>1, <1>3
<1> QED
  BY <1>1, <1>4, <1>5, <1>9, <1>10, <1>14, <1>15, <1>16, <1>17, <1>18, <1>19

\* Behind the first request are later ones only.
LEMMA TailsAreLater ==
  ASSUME DialogueTypes, OthersFollow, progress # <<>>
  PROVE  /\ Tail(progress) \in Seq(Later)
         /\ \A i \in 1 .. Len(Tail(progress)) : Tail(progress)[i] = "SETUP0" => i < Len(Tail(progress))
         /\ Head(progress) = "SETUP0" =>
              /\ Tail(Tail(progress)) \in Seq(Later)
              /\ \A i \in 1 .. Len(Tail(Tail(progress))) :
                    Tail(Tail(progress))[i] = "SETUP0" => i < Len(Tail(Tail(progress)))
<1>1. PICK p : p = progress
  OBVIOUS
<1>2. p \in Seq(Later \cup {"OPTIONS"}) /\ p # <<>> /\ Len(p) \in Nat \ {0} /\ Head(p) = p[1]
  BY <1>1, EmptySeq DEF DialogueTypes
<1>3. PICK t : t = Tail(p)
  OBVIOUS
<1>4. Len(t) = Len(p) - 1 /\ \A i \in 1 .. Len(t) : t[i] = p[i + 1]
  BY <1>2, <1>3, HeadTailProperties
<1>5. \A i \in 1 .. Len(t) : t[i] \in Later /\ (t[i] = "SETUP0" => i < Len(t))
  <2> SUFFICES ASSUME NEW i \in 1 .. Len(t)
               PROVE  t[i] \in Later /\ (t[i] = "SETUP0" => i < Len(t))
    OBVIOUS
  <2>1. i + 1 \in 1 .. Len(p) /\ i + 1 > 1
    BY <1>2, <1>4
  <2>2. p[i + 1] \in Later /\ (p[i + 1] = "SETUP0" => i + 1 < Len(p))
    BY <1>1, <2>1 DEF OthersFollow
  <2> QED
    BY <1>2, <1>4, <2>2
<1>6. t \in Seq(Later)
  <2>1. t \in Seq(Later \cup {"OPTIONS"})
    BY <1>2, <1>3, HeadTailProperties
  <2> QED
    BY <1>5, <2>1
<1>7. ASSUME Head(p) = "SETUP0"
      PROVE  Tail(t) \in Seq(Later) /\ \A i \in 1 .. Len(Tail(t)) : Tail(t)[i] = "SETUP0" => i < Len(Tail(t))
  <2>1. 1 < Len(p)
    BY <1>1, <1>2, <1>7 DEF OthersFollow
  <2>2. t # <<>>
    BY <1>2, <1>4, <2>1, EmptySeq
  <2>3. PICK u : u = Tail(t)
    OBVIOUS
  <2>4. u \in Seq(Later) /\ Len(u) = Len(t) - 1 /\ \A i \in 1 .. Len(u) : u[i] = t[i + 1]
    BY <1>6, <2>2, <2>3, HeadTailProperties
  <2>5. \A i \in 1 .. Len(u) : u[i] = "SETUP0" => i < Len(u)
    BY <1>2, <1>4, <1>5, <2>4
  <2> QED
    BY <2>3, <2>4, <2>5
<1> QED
  BY <1>1, <1>3, <1>5, <1>6, <1>7

\* The dialogue goes on, or ends.
LEMMA AnswersKeep ==
  ASSUME RtspAssumption, DialogueInv, rtsp_get_answers
  PROVE  DialogueInv'
<1>1. PICK n \in {0, cseq} \cup Numbers, id \in {0} \cup SessionIds :
        \/ \E two \in BOOLEAN :
              /\ Served(n, id)
              /\ progress' = IF Head(progress) = "SETUP0" /\ ~ two
                             THEN Tail(Tail(progress)) ELSE Tail(progress)
              /\ two => Head(progress) = "SETUP0"
        \/ Answers(n, id) /\ Head(progress) \in {"OPTIONS", "DESCRIBE"}
              /\ status' = "refused" /\ UNCHANGED progress
  BY DEF rtsp_get_answers
<1>2. n \in Nat /\ id \in SessionIds \cup {0}
  BY <1>1 DEF RtspAssumption, DialogueInv, DialogueTypes
<1>3. Answers(n, id) /\ status = "waiting"
  BY <1>1 DEF Served, Answers
<1>4. /\ cseq' \in Nat /\ session' \in SessionIds \cup {0}
      /\ requests' \in Seq(Request) /\ answered' \in Seq(Answer) /\ scheduled' \in Seq(Fields)
      /\ AllNumbered(requests, answered)'
      /\ Len(answered') = Len(requests')
      /\ IsLast(answered, Len(requests) + 1, session)'
      /\ requests' # <<>> /\ scheduled' = Standard(cseq, session)'
      /\ Continues(requests, answered, Len(requests) + 1, cseq)'
  BY <1>2, <1>3, AnswerKeeps
<1>5. DialogueTypes /\ OthersFollow /\ progress # <<>>
  BY <1>3 DEF DialogueInv, Waiting
<1>6. CASE status' = "refused" /\ progress' = progress
  <2>1. DialogueTypes'
    BY <1>4, <1>5, <1>6 DEF DialogueTypes
  <2>2. OthersFollow'
    BY <1>5, <1>6 DEF OthersFollow
  <2> QED
    BY <1>4, <1>6, <2>1, <2>2 DEF DialogueInv
<1>7. CASE /\ status' = "ready"
           /\ \/ progress' = Tail(progress)
              \/ Head(progress) = "SETUP0" /\ progress' = Tail(Tail(progress))
  <2>1. progress' \in Seq(Later)
        /\ \A i \in 1 .. Len(progress') : progress'[i] = "SETUP0" => i < Len(progress')
    BY <1>5, <1>7, TailsAreLater
  <2>2. OthersFollow' /\ progress' \in Seq(Later \cup {"OPTIONS"})
    BY <2>1 DEF OthersFollow
  <2>3. DialogueTypes'
    BY <1>4, <2>2 DEF DialogueTypes
  <2>4. Ready'
    BY <1>4, <2>1 DEF Ready
  <2> QED
    BY <1>4, <1>7, <2>2, <2>3, <2>4 DEF DialogueInv
<1> QED
  BY <1>1, <1>6, <1>7 DEF Served

\* The steps of the stream leave the dialogue alone.
LEMMA StreamKeeps ==
  ASSUME DialogueInv, UNCHANGED <<progress, cseq, session, scheduled, requests, answered>>,
         status' = status \/ status' \notin {"ready", "waiting"}
  PROVE  DialogueInv'
<1>1. DialogueTypes' /\ AllNumbered(requests, answered)' /\ OthersFollow'
  BY DEF DialogueInv, DialogueTypes, AllNumbered, OthersFollow
<1>2. status' = "ready" => Ready'
  BY DEF DialogueInv, Ready
<1>3. status' = "waiting" => Waiting'
  BY DEF DialogueInv, Waiting
<1> QED
  BY <1>1, <1>2, <1>3 DEF DialogueInv

\* At PLAY there are no requests left.
LEMMA PlaysKeeps == ASSUME DialogueInv, Plays PROVE DialogueInv'
<1>1. /\ cseq' = cseq + 1 /\ scheduled' = Standard(cseq + 1, session) /\ session' = session
      /\ requests' = <<>> /\ answered' = <<>> /\ progress' = <<>> /\ status' = "playing"
  BY DEF Plays
<1>2. cseq + 1 \in Nat /\ session \in SessionIds \cup {0}
  BY DEF DialogueInv, DialogueTypes
<1>3. scheduled' \in Seq(Fields)
  BY <1>1, <1>2, StandardIs
<1>4. DialogueTypes'
  BY <1>1, <1>2, <1>3 DEF DialogueTypes
<1>5. AllNumbered(requests, answered)' /\ OthersFollow'
  BY <1>1 DEF AllNumbered, OthersFollow
<1> QED
  BY <1>1, <1>4, <1>5 DEF DialogueInv

\* Nothing has been asked at first.
LEMMA DialogueInit == RtspStart => DialogueInv
<1> SUFFICES ASSUME RtspStart PROVE DialogueInv
  OBVIOUS
<1>1. /\ progress = <<"OPTIONS", "DESCRIBE", "SETUP0", "SETUP1", "SET_PARAMETER", "PLAY">>
      /\ status = "ready" /\ cseq = 1 /\ session = 0 /\ scheduled = <<>>
      /\ requests = <<>> /\ answered = <<>>
  BY DEF RtspStart
<1>2. progress \in Seq(Later \cup {"OPTIONS"}) /\ OthersFollow
  BY <1>1 DEF Later, OthersFollow
<1>3. DialogueTypes
  BY <1>1, <1>2 DEF DialogueTypes
<1>4. AllNumbered(requests, answered)
  BY <1>1 DEF AllNumbered
<1>5. Ready
  BY <1>1 DEF Ready, IsLast, NamedBefore
<1> QED
  BY <1>1, <1>2, <1>3, <1>4, <1>5 DEF DialogueInv

\* No step breaks the dialogue.
LEMMA DialogueStep ==
  ASSUME RtspAssumption, DialogueInv, [RtspNext]_rtspvars
  PROVE  DialogueInv'
<1>1. CASE rtsp_send_request
  BY <1>1, SendKeeps
<1>2. CASE rtsp_get_answers
  BY <1>2, AnswersKeep
<1>3. CASE Plays
  BY <1>3, PlaysKeeps
<1>4. CASE rtsp_get_AtEndOfStream \/ ReadBegins \/ ReadAfterFailure
  <2>1. UNCHANGED <<progress, cseq, session, scheduled, requests, answered>>
        /\ status' \in {"exit", "reading", "crash"}
    BY <1>4 DEF rtsp_get_AtEndOfStream, ReadBegins, ReadAfterFailure
  <2> QED
    BY <2>1, StreamKeeps
<1>5. CASE NextChunk \/ LastCopy
  <2>1. UNCHANGED <<progress, cseq, session, scheduled, requests, answered>>
        /\ (status' = status \/ status' = "playing")
    BY <1>5 DEF NextChunk, LastCopy, HandsOut
  <2> QED
    BY <2>1, StreamKeeps
<1>6. CASE UNCHANGED rtspvars
  BY <1>6, StreamKeeps DEF rtspvars, sessionVars
<1> QED
  BY <1>1, <1>2, <1>3, <1>4, <1>5, <1>6 DEF RtspNext

\* What the invariant says of every request is what RequestsNumbered asks.
LEMMA InvNumbers == DialogueInv => RequestsNumbered
<1> SUFFICES ASSUME DialogueInv, NEW i \in DOMAIN requests
             PROVE  /\ i = 1 => ValuesOf(requests[i], "Cseq") = {1}
                    /\ i > 1 => \A before \in ValuesOf(requests[i - 1], "Cseq") :
                          ValuesOf(requests[i], "Cseq") =
                            {1 + IF answered[i - 1].number # 0 THEN answered[i - 1].number ELSE before}
                    /\ ValuesOf(requests[i], "Session") = {SessionBefore(i)} \ {0}
                    /\ \A f, g \in DOMAIN requests[i].fields :
                          requests[i].fields[f].name = requests[i].fields[g].name => f = g
  BY Zenon DEF RequestsNumbered
<1>1. DialogueTypes /\ AllNumbered(requests, answered)
  BY DEF DialogueInv
<1>2. PICK n \in Nat : Numbered(requests, answered, i, n)
  BY <1>1 DEF AllNumbered
<1>3. PICK id \in SessionIds \cup {0} : IsLast(answered, i, id) /\ Proper(requests[i].fields, n, id)
  BY <1>2 DEF Numbered
<1>4. i \in Nat \ {0} /\ DOMAIN requests = 1 .. Len(requests) /\ Len(requests) \in Nat
  BY <1>1, LenProperties DEF DialogueTypes
<1>5. ValuesOf(requests[i], "Cseq") = {n}
  BY <1>3 DEF ValuesOf, Named, Proper
<1>6. ValuesOf(requests[i], "Session") = {SessionBefore(i)} \ {0}
  <2>1. SessionBefore(i) = id
    BY <1>3, <1>4, SessionIsLast
  <2>2. ValuesOf(requests[i], "Session") = {id} \ {0}
    BY <1>3 DEF ValuesOf, Named, Proper
  <2> QED
    BY <2>1, <2>2
<1>7. ASSUME i > 1, NEW before \in ValuesOf(requests[i - 1], "Cseq")
      PROVE  n = 1 + IF answered[i - 1].number # 0 THEN answered[i - 1].number ELSE before
  <2>1. i - 1 \in DOMAIN requests
    BY <1>4, <1>7
  <2>2. PICK m \in Nat : \E x \in SessionIds \cup {0} : Proper(requests[i - 1].fields, m, x)
    BY <1>1, <2>1 DEF AllNumbered, Numbered
  <2>3. before = m
    BY <1>7, <2>2 DEF ValuesOf, Named, Proper
  <2>4. PICK f \in DOMAIN requests[i - 1].fields :
          /\ requests[i - 1].fields[f].name = "Cseq"
          /\ n = 1 + IF answered[i - 1].number # 0 THEN answered[i - 1].number
                     ELSE requests[i - 1].fields[f].val
    BY <1>2, <1>7 DEF Numbered, Continues
  <2>5. requests[i - 1].fields[f].val = m
    BY <2>2, <2>4 DEF Proper
  <2> QED
    BY <2>3, <2>4, <2>5
<1>8. i = 1 => n = 1
  BY <1>2 DEF Numbered
<1>9. \A f, g \in DOMAIN requests[i].fields :
        requests[i].fields[f].name = requests[i].fields[g].name => f = g
  BY <1>3 DEF Proper
<1> QED
  BY <1>5, <1>6, <1>7, <1>8, <1>9

\* Every request of an RTSP session carries one number, one more than the answer
\* before it, and the session the server has named (rtsp.c, real.c).
THEOREM RequestsInSequence == RtspSpec => []RequestsNumbered
<1>1. RtspStart => DialogueInv
  BY DialogueInit
<1>2. DialogueInv /\ [RtspNext]_rtspvars => DialogueInv'
  BY DialogueStep, RtspAssumption
<1>3. DialogueInv => RequestsNumbered
  BY InvNumbers
<1> QED
  BY <1>1, <1>2, <1>3, PTL DEF RtspSpec

-----------------------------------------------------------------------------
(* The packets of the RTSP library *)

Byte == Nat \X Nat
Item == [is : {"packet", "cut", "set", "eof"}, bytes : Seq(Byte)]

\* The bytes of one packet, from its first.
OfPacket(s, m) == \A i \in 1 .. Len(s) : s[i] = <<m, i>>

\* Every byte comes behind the one before it.
Ordered(s) ==
    \A i \in 1 .. Len(s) - 1 :
        \/ s[i + 1] = <<s[i][1], s[i][2] + 1>>
        \/ s[i][1] < s[i + 1][1] /\ s[i + 1][2] = 1

\* What is on the connection has packets later than n, in order.
Ahead(w, n) ==
    /\ w \in Seq(Item)
    /\ \A j \in 1 .. Len(w) : w[j].is = "packet" => w[j].bytes # <<>>
    /\ \E number \in [1 .. Len(w) -> Nat] :
          /\ \A j \in 1 .. Len(w) : number[j] > n /\ OfPacket(w[j].bytes, number[j])
          /\ \A j, l \in 1 .. Len(w) : j < l => number[j] < number[l]

\* The bytes s have been taken off a connection on which w is still to come.
Flow(s, w) ==
    /\ s \in Seq(Byte) /\ Ordered(s)
    /\ \E n \in Nat : Ahead(w, n) /\ \A i \in 1 .. Len(s) : s[i][1] <= n

StreamTypes ==
    /\ recv \in Seq(Byte) /\ recvRead \in 0 .. Len(recv)
    /\ delivered \in Seq(Byte) /\ copied \in Seq(Byte) /\ left \in Nat /\ wanted \in Nat

StreamInv ==
    /\ StreamTypes
    /\ status \in {"ready", "waiting"} =>
          recv = <<>> /\ recvRead = 0 /\ delivered = <<>> /\ copied = <<>> /\ left = 0
    /\ status = "playing" => Flow(delivered \o Unread, wire) /\ ShortReadsAtEnd
    /\ status = "reading" =>
          Flow((delivered \o copied) \o Unread, wire) /\ left + Len(copied) = wanted

\* What is ordered is ordered up to any place.
LEMMA FlowPrefix ==
  ASSUME NEW s \in Seq(Byte), NEW t \in Seq(Byte), NEW w, Flow(s \o t, w)
  PROVE  Flow(s, w)
<1> DEFINE u == s \o t
<1>1. /\ u \in Seq(Byte) /\ Len(u) = Len(s) + Len(t) /\ Len(s) \in Nat /\ Len(t) \in Nat
      /\ \A i \in 1 .. Len(s) : u[i] = s[i]
  BY ConcatProperties, LenProperties
<1>2. Flow(u, w)
  OBVIOUS
<1> HIDE DEF u
<1>3. PICK n \in Nat : Ahead(w, n) /\ \A i \in 1 .. Len(u) : u[i][1] <= n
  BY <1>2 DEF Flow
<1>4. \A i \in 1 .. Len(s) : s[i][1] <= n
  BY <1>1, <1>3
<1>5. Ordered(s)
  <2> SUFFICES ASSUME NEW i \in 1 .. Len(s) - 1
               PROVE  \/ s[i + 1] = <<s[i][1], s[i][2] + 1>>
                      \/ s[i][1] < s[i + 1][1] /\ s[i + 1][2] = 1
    BY DEF Ordered
  <2>1. /\ i \in 1 .. Len(s) /\ i + 1 \in 1 .. Len(s)
        /\ i \in 1 .. (Len(s) + Len(t)) - 1
    BY <1>1
  <2>2. u[i] = s[i] /\ u[i + 1] = s[i + 1] /\ i \in 1 .. Len(u) - 1
    BY <1>1, <2>1
  <2>3. Ordered(u)
    BY <1>2 DEF Flow
  <2> QED
    BY <2>2, <2>3 DEF Ordered
<1> QED
  BY <1>3, <1>4, <1>5 DEF Flow

\* One packet more, later than all before it.
LEMMA FlowGrows ==
  ASSUME NEW s \in Seq(Byte), NEW t \in Seq(Byte), NEW w, NEW n \in Nat, NEW m \in Nat,
         Ordered(s), \A i \in 1 .. Len(s) : s[i][1] <= n,
         n < m, OfPacket(t, m), Ahead(w, m)
  PROVE  Flow(s \o t, w)
<1> DEFINE u == s \o t
<1>1. /\ u \in Seq(Byte) /\ Len(u) = Len(s) + Len(t) /\ Len(s) \in Nat /\ Len(t) \in Nat
      /\ \A i \in 1 .. Len(u) : u[i] = IF i <= Len(s) THEN s[i] ELSE t[i - Len(s)]
  BY ConcatProperties, LenProperties
<1> HIDE DEF u
<1>2. \A i \in 1 .. Len(s) : u[i] = s[i]
  BY <1>1
<1>3. \A i \in 1 .. Len(t) : u[Len(s) + i] = <<m, i>>
  <2> TAKE i \in 1 .. Len(t)
  <2>1. Len(s) + i \in 1 .. Len(u) /\ ~ (Len(s) + i <= Len(s)) /\ (Len(s) + i) - Len(s) = i
    BY <1>1
  <2>2. u[Len(s) + i] = t[i]
    BY <1>1, <2>1
  <2> QED
    BY <2>2 DEF OfPacket
<1>4. \A i \in 1 .. Len(u) : i \in 1 .. Len(s) \/ \E l \in 1 .. Len(t) : i = Len(s) + l
  <2> TAKE i \in 1 .. Len(u)
  <2>1. CASE i <= Len(s)
    BY <1>1, <2>1
  <2>2. CASE ~ (i <= Len(s))
    <3>1. i - Len(s) \in 1 .. Len(t) /\ i = Len(s) + (i - Len(s))
      BY <1>1, <2>2
    <3> QED
      BY <3>1
  <2> QED
    BY <2>1, <2>2
<1>5. \A i \in 1 .. Len(u) : u[i][1] <= m
  <2> TAKE i \in 1 .. Len(u)
  <2>1. CASE i \in 1 .. Len(s)
    <3>1. s[i][1] <= n /\ s[i] \in Byte /\ u[i] = s[i]
      BY <1>2, <2>1, ElementOfSeq
    <3>2. s[i][1] \in Nat
      BY <3>1 DEF Byte
    <3> QED
      BY <3>1, <3>2
  <2>2. ASSUME NEW l \in 1 .. Len(t), i = Len(s) + l PROVE u[i][1] <= m
    BY <1>3, <2>2
  <2> QED
    BY <1>4, <2>1, <2>2
<1>6. Ordered(u)
  <2> SUFFICES ASSUME NEW i \in 1 .. Len(u) - 1
               PROVE  \/ u[i + 1] = <<u[i][1], u[i][2] + 1>>
                      \/ u[i][1] < u[i + 1][1] /\ u[i + 1][2] = 1
    BY DEF Ordered
  <2>1. CASE i + 1 <= Len(s)
    <3>1. i \in 1 .. Len(s) - 1 /\ u[i] = s[i] /\ u[i + 1] = s[i + 1]
      BY <1>1, <1>2, <2>1
    <3> QED
      BY <3>1 DEF Ordered
  <2>2. CASE i = Len(s)
    <3>1. i \in 1 .. Len(s) /\ 1 \in 1 .. Len(t) /\ u[i] = s[i]
      BY <1>1, <1>2, <2>2
    <3>2. u[i + 1] = <<m, 1>>
      BY <1>3, <2>2, <3>1
    <3>3. s[i][1] <= n /\ s[i] \in Byte
      BY <3>1, ElementOfSeq
    <3>4. s[i][1] \in Nat
      BY <3>3 DEF Byte
    <3>5. s[i][1] < m
      BY <3>3, <3>4
    <3> QED
      BY <3>1, <3>2, <3>5
  <2>3. CASE i > Len(s)
    <3>1. PICK l \in Int : i = Len(s) + l /\ l \in 1 .. Len(t) /\ l + 1 \in 1 .. Len(t)
      <4>1. i - Len(s) \in Int /\ i = Len(s) + (i - Len(s))
        BY <1>1
      <4>2. i - Len(s) \in 1 .. Len(t) /\ (i - Len(s)) + 1 \in 1 .. Len(t)
        BY <1>1, <2>3
      <4> QED
        BY <4>1, <4>2
    <3>2. u[i] = <<m, l>> /\ u[Len(s) + (l + 1)] = <<m, l + 1>>
      BY <1>3, <3>1
    <3>3. i + 1 = Len(s) + (l + 1)
      BY <1>1, <3>1
    <3> QED
      BY <3>2, <3>3
  <2> QED
    BY <1>1, <2>1, <2>2, <2>3
<1>7. Flow(u, w)
  BY <1>1, <1>5, <1>6 DEF Flow
<1> QED
  BY <1>7 DEF u

\* The rest of what is ahead is ahead, and of the packet at its beginning, too.
LEMMA AheadRest ==
  ASSUME NEW w, NEW n \in Nat, Ahead(w, n), w # <<>>
  PROVE  /\ Tail(w) \in Seq(Item) /\ Head(w) \in Item /\ Ahead(Tail(w), n)
         /\ Head(w).is = "packet" => Head(w).bytes # <<>>
         /\ \E m \in Nat : n < m /\ OfPacket(Head(w).bytes, m) /\ Ahead(Tail(w), m)
<1>1. w \in Seq(Item) /\ Len(w) \in Nat \ {0} /\ Head(w) = w[1]
  BY EmptySeq DEF Ahead
<1>2. PICK t : t = Tail(w)
  OBVIOUS
<1>3. t \in Seq(Item) /\ Len(t) = Len(w) - 1 /\ \A i \in 1 .. Len(t) : t[i] = w[i + 1]
  BY <1>1, <1>2, HeadTailProperties
<1>4. PICK number \in [1 .. Len(w) -> Nat] :
        /\ \A j \in 1 .. Len(w) : number[j] > n /\ OfPacket(w[j].bytes, number[j])
        /\ \A j, l \in 1 .. Len(w) : j < l => number[j] < number[l]
  BY DEF Ahead
<1>5. PICK later \in [1 .. Len(t) -> Nat] : \A j \in 1 .. Len(t) : later[j] = number[j + 1]
  <2>1. \A j \in 1 .. Len(t) : j + 1 \in 1 .. Len(w)
    BY <1>1, <1>3
  <2>2. [j \in 1 .. Len(t) |-> number[j + 1]] \in [1 .. Len(t) -> Nat]
    BY <2>1
  <2> QED
    BY <2>2
<1>6. \A j \in 1 .. Len(t) : j + 1 \in 1 .. Len(w) /\ 1 < j + 1 /\ j \in Int
  BY <1>1, <1>3
<1>7. 1 \in 1 .. Len(w) /\ number[1] \in Nat
  BY <1>1
<1>8. \A j \in 1 .. Len(t) :
        /\ later[j] > n /\ later[j] > number[1]
        /\ OfPacket(t[j].bytes, later[j])
        /\ t[j].is = "packet" => t[j].bytes # <<>>
  <2> TAKE j \in 1 .. Len(t)
  <2>1. t[j] = w[j + 1] /\ later[j] = number[j + 1] /\ j + 1 \in 1 .. Len(w) /\ 1 < j + 1
    BY <1>3, <1>5, <1>6
  <2>2. number[1] < number[j + 1] /\ number[j + 1] \in Nat
    BY <1>4, <1>7, <2>1
  <2>3. w[j + 1].is = "packet" => w[j + 1].bytes # <<>>
    BY <2>1 DEF Ahead
  <2> QED
    BY <1>4, <1>7, <2>1, <2>2, <2>3
<1>9. \A j, l \in 1 .. Len(t) : j < l => later[j] < later[l]
  <2> SUFFICES ASSUME NEW j \in 1 .. Len(t), NEW l \in 1 .. Len(t), j < l PROVE later[j] < later[l]
    OBVIOUS
  <2>1. j + 1 \in 1 .. Len(w) /\ l + 1 \in 1 .. Len(w) /\ j + 1 < l + 1
    BY <1>6
  <2> QED
    BY <1>4, <1>5, <2>1
<1>10. Ahead(t, n) /\ Ahead(t, number[1])
  BY <1>3, <1>8, <1>9 DEF Ahead
<1>11. n < number[1] /\ OfPacket(Head(w).bytes, number[1])
  BY <1>1, <1>4, <1>7
<1>12. Head(w).is = "packet" => Head(w).bytes # <<>>
  BY <1>1, <1>7 DEF Ahead
<1> QED
  BY <1>1, <1>2, <1>3, <1>7, <1>10, <1>11, <1>12

\* Nothing ahead.
LEMMA NothingAhead == \A n \in Nat : Ahead(<<>>, n)
<1> TAKE n \in Nat
<1>1. <<>> \in Seq(Item) /\ Len(<<>>) = 0 /\ 1 .. 0 = {}
  BY EmptySeq
<1>2. [j \in 1 .. 0 |-> 0] \in [1 .. 0 -> Nat]
  OBVIOUS
<1> QED
  BY <1>1, <1>2 DEF Ahead

\* What real_get_rdt_chunk takes off the connection is the next packet or
\* nothing, and if its size is 0 there is nothing more.
LEMMA ChunkIs ==
  ASSUME NEW w, NEW n \in Nat, Ahead(w, n), NEW c, c = real_get_rdt_chunk(w)
  PROVE  /\ c.size \in Int /\ c.bytes \in Seq(Byte)
         /\ c.size > 0 => /\ Len(c.bytes) = c.size
                          /\ \E m \in Nat : n < m /\ OfPacket(c.bytes, m) /\ Ahead(c.rest, m)
         /\ ~ (c.size > 0) => c.bytes = <<>> /\ Ahead(c.rest, n)
         /\ c.size = 0 => c.rest = <<>>
<1>1. PICK v : v = rtsp_read_data(w) /\ Ahead(v, n)
  <2>1. CASE w # <<>> /\ Head(w).is = "set"
    BY <2>1, AheadRest DEF rtsp_read_data
  <2>2. CASE ~ (w # <<>> /\ Head(w).is = "set")
    BY <2>2 DEF rtsp_read_data
  <2> QED
    BY <2>1, <2>2
<1>2. CASE c = Chunk(0, <<>>, <<>>)
  BY <1>2, NothingAhead DEF Chunk
<1>3. v # <<>> => /\ Head(v).bytes \in Seq(Byte) /\ Ahead(Tail(v), n)
                  /\ Head(v).is = "packet" => Head(v).bytes # <<>>
                  /\ \E m \in Nat : n < m /\ OfPacket(Head(v).bytes, m) /\ Ahead(Tail(v), m)
  BY <1>1, AheadRest DEF Item
<1>4. PICK b, t : b = Head(v).bytes /\ t = Tail(v)
  OBVIOUS
<1>9. \A x, y, z : Chunk(x, y, z).size = x /\ Chunk(x, y, z).bytes = y /\ Chunk(x, y, z).rest = z
  BY DEF Chunk
<1>5. ASSUME b # <<>>, b \in Seq(Byte) PROVE Len(b) \in Int /\ Len(b) > 0
  BY <1>5, EmptySeq
<1>6. CASE v # <<>> /\ Head(v).is = "packet" /\ c = Chunk(Len(Head(v).bytes), Head(v).bytes, Tail(v))
  <2>1. c.size = Len(b) /\ c.bytes = b /\ c.rest = t
    <3>1. c = Chunk(Len(b), b, t)
      BY <1>4, <1>6
    <3> QED
      BY <1>9, <3>1
  <2>2. /\ b \in Seq(Byte) /\ b # <<>>
        /\ \E m \in Nat : n < m /\ OfPacket(b, m) /\ Ahead(t, m)
    BY <1>3, <1>4, <1>6
  <2>3. Len(b) \in Int /\ Len(b) > 0
    BY <1>5, <2>2
  <2> QED
    BY <2>1, <2>2, <2>3
<1>7. CASE /\ v # <<>> /\ ~ (Len(Head(v).bytes) <= 1)
           /\ c = Chunk(Len(Head(v).bytes), Head(v).bytes, <<>>)
  <2>1. c.size = Len(b) /\ c.bytes = b /\ c.rest = <<>> /\ ~ (Len(b) <= 1)
    BY <1>4, <1>7, <1>9
  <2>2. b \in Seq(Byte) /\ \E m \in Nat : n < m /\ OfPacket(b, m) /\ Ahead(<<>>, m)
    BY <1>3, <1>4, <1>7, NothingAhead
  <2>3. Len(b) \in Int /\ Len(b) > 0
    BY <2>1, <2>2
  <2> QED
    BY <2>1, <2>2, <2>3
<1>8. CASE v # <<>> /\ c = Chunk(-1, <<>>, Tail(v))
  <2>1. c.size = -1 /\ c.bytes = <<>> /\ c.rest = t
    <3>1. c = Chunk(-1, <<>>, t)
      BY <1>4, <1>8
    <3> QED
      BY <1>9, <3>1
  <2>2. Ahead(t, n) /\ <<>> \in Seq(Byte)
    BY <1>3, <1>4, <1>8
  <2> QED
    BY <2>1, <2>2
<1> QED
  BY <1>1, <1>2, <1>6, <1>7, <1>8 DEF real_get_rdt_chunk

\* A chunk carries the flow on.
LEMMA FlowGoesOn ==
  ASSUME NEW s, NEW w, Flow(s, w), NEW c, c = real_get_rdt_chunk(w)
  PROVE  Flow(s \o c.bytes, c.rest)
<1>1. PICK n \in Nat : Ahead(w, n) /\ \A i \in 1 .. Len(s) : s[i][1] <= n
  BY DEF Flow
<1>2. s \in Seq(Byte) /\ Ordered(s)
  BY DEF Flow
<1>3. CASE c.size > 0
  <2>1. c.bytes \in Seq(Byte)
    BY <1>1, ChunkIs
  <2>2. PICK m \in Nat : n < m /\ OfPacket(c.bytes, m) /\ Ahead(c.rest, m)
    BY <1>1, <1>3, ChunkIs
  <2> QED
    BY <1>1, <1>2, <2>1, <2>2, FlowGrows
<1>4. CASE ~ (c.size > 0)
  <2>1. c.bytes = <<>> /\ Ahead(c.rest, n)
    BY <1>1, <1>4, ChunkIs
  <2>2. s \o c.bytes = s
    BY <1>2, <2>1, ConcatEmptySeq
  <2> QED
    BY <1>1, <1>2, <2>1, <2>2 DEF Flow
<1> QED
  BY <1>3, <1>4

\* The part of the buffer that has not been read.
LEMMA UnreadIs ==
  ASSUME StreamTypes
  PROVE  Unread \in Seq(Byte) /\ Len(Unread) = Len(recv) - recvRead
<1>1. \A i \in recvRead + 1 .. Len(recv) : recv[i] \in Byte
  BY ElementOfSeq DEF StreamTypes
<1>2. recvRead + 1 \in Int /\ Len(recv) \in Int /\ recvRead \in Int /\ recvRead <= Len(recv)
  BY DEF StreamTypes
<1> QED
  BY <1>1, <1>2, SubSeqProperties DEF Unread

\* A packet whose end is missing.
CutPacket(k, len) == SubSeq(Packet(k, len), 1, len)

\* Its bytes are those of the packet.
LEMMA CutIs ==
  ASSUME NEW k \in Nat, NEW len \in Nat
  PROVE  /\ CutPacket(k, len) \in Seq(Byte) /\ Len(CutPacket(k, len)) = len
         /\ \A i \in 1 .. len : CutPacket(k, len)[i] = <<k, i>>
<1>1. PICK p : p = Packet(k, len)
  OBVIOUS
<1>2. p \in Seq(Byte) /\ Len(p) = len + 1 /\ \A i \in 1 .. len + 1 : p[i] = <<k, i>>
  BY <1>1 DEF Packet, Byte
<1>3. \A i \in 1 .. len : p[i] \in Byte
  BY <1>2, ElementOfSeq
<1>4. /\ SubSeq(p, 1, len) \in Seq(Byte) /\ Len(SubSeq(p, 1, len)) = len
      /\ \A i \in 1 .. len : SubSeq(p, 1, len)[i] = p[i]
  BY <1>3, SubSeqProperties
<1> QED
  BY <1>1, <1>2, <1>4 DEF CutPacket

\* The buffer begins with the header, and the packets are numbered.
LEMMA PlaysStream ==
  ASSUME RtspAssumption, StreamInv, Plays
  PROVE  StreamInv'
<1>1. PICK chosen \in SeqOf(Messages, MaxItems) :
        wire' = [k \in DOMAIN chosen |-> [is |-> chosen[k].is, bytes |->
                    IF chosen[k].is = "cut" THEN SubSeq(Packet(k, chosen[k].len), 1, chosen[k].len)
                    ELSE Packet(k, chosen[k].len)]]
  BY DEF Plays
<1>2. /\ status = "waiting" /\ status' = "playing" /\ recv' = Packet(0, HeaderLength - 1)
      /\ recvRead' = recvRead /\ failed' = failed /\ left' = left
      /\ copied' = copied /\ delivered' = delivered /\ wanted' = wanted
  BY DEF Plays
<1>3. PICK n \in Nat : chosen \in [1 .. n -> Messages]
  BY DEF SeqOf, RtspAssumption
<1>4. PICK w : w = wire'
  OBVIOUS
<1> DEFINE item(k) == [is |-> chosen[k].is, bytes |->
                         IF chosen[k].is = "cut" THEN SubSeq(Packet(k, chosen[k].len), 1, chosen[k].len)
                         ELSE Packet(k, chosen[k].len)]
<1>5. w = [k \in 1 .. n |-> item(k)]
  BY <1>1, <1>3, <1>4
<1>6. \A k, len \in Nat : /\ Packet(k, len) \in Seq(Byte) /\ Len(Packet(k, len)) = len + 1
                         /\ \A i \in 1 .. len + 1 : Packet(k, len)[i] = <<k, i>>
  BY DEF Packet, Byte
<1>8. ASSUME NEW k \in 1 .. n
      PROVE  /\ item(k) \in Item /\ OfPacket(item(k).bytes, k)
             /\ item(k).is = "packet" => item(k).bytes # <<>>
  <2>1. chosen[k] \in Messages
    BY <1>3
  <2>2. chosen[k].is \in {"packet", "cut", "set", "eof"} /\ chosen[k].len \in Nat
    BY <2>1 DEF Messages, RtspAssumption
  <2>3. PICK l \in Nat : l = chosen[k].len
    BY <2>2
  <2>4. PICK b : b = item(k).bytes
    OBVIOUS
  <2>5. /\ item(k) = [is |-> chosen[k].is, bytes |-> b] /\ item(k).is = chosen[k].is
        /\ b = IF chosen[k].is = "cut" THEN SubSeq(Packet(k, l), 1, l) ELSE Packet(k, l)
    BY <2>3, <2>4
  <2> HIDE DEF item
  <2>6. k \in Nat
    OBVIOUS
  <2>7. b \in Seq(Byte) /\ \A i \in 1 .. Len(b) : b[i] = <<k, i>>
    <3>1. CASE chosen[k].is = "cut"
      <4>1. b = CutPacket(k, l)
        BY <2>5, <3>1 DEF CutPacket
      <4> QED
        <5>1. b \in Seq(Byte) /\ Len(b) = l /\ \A i \in 1 .. l : b[i] = <<k, i>>
          BY <2>6, <4>1, CutIs
        <5> QED
          BY <5>1
    <3>2. CASE chosen[k].is # "cut"
      <4>1. b = Packet(k, l)
        BY <2>5, <3>2
      <4> QED
        BY <1>6, <2>6, <4>1
    <3> QED
      BY <3>1, <3>2
  <2>8. chosen[k].is = "packet" => b # <<>>
    <3> SUFFICES ASSUME chosen[k].is = "packet" PROVE b # <<>>
      OBVIOUS
    <3>1. b = Packet(k, l)
      BY <2>5
    <3>2. Len(b) = l + 1
      BY <1>6, <2>6, <3>1
    <3> QED
      BY <3>2
  <2> QED
    BY <2>2, <2>4, <2>5, <2>7, <2>8 DEF Item, OfPacket
<1>9. Ahead(w, 0)
  <2> HIDE DEF item
  <2>1. w \in Seq(Item) /\ Len(w) = n /\ \A j \in 1 .. n : w[j] = item(j)
    BY <1>5, <1>8
  <2>2. PICK number \in [1 .. n -> Nat] : \A j \in 1 .. n : number[j] = j
    <3>1. [j \in 1 .. n |-> j] \in [1 .. n -> Nat]
      OBVIOUS
    <3> QED
      BY <3>1
  <2>3. \A j \in 1 .. Len(w) : w[j].is = "packet" => w[j].bytes # <<>>
    BY <1>8, <2>1
  <2>4. \A j \in 1 .. Len(w) : number[j] > 0 /\ OfPacket(w[j].bytes, number[j])
    BY <1>8, <2>1, <2>2
  <2>5. \A j, l \in 1 .. Len(w) : j < l => number[j] < number[l]
    BY <2>1, <2>2
  <2> QED
    BY <2>1, <2>2, <2>3, <2>4, <2>5 DEF Ahead
<1>10. PICK r : r = recv'
  OBVIOUS
<1>11. r \in Seq(Byte) /\ \A i \in 1 .. Len(r) : r[i] = <<0, i>>
  <2>1. HeaderLength \in Nat /\ (HeaderLength - 1) + 1 = HeaderLength
    BY DEF RtspAssumption
  <2>2. r = [i \in 1 .. HeaderLength |-> <<0, i>>]
    BY <1>2, <1>10, <2>1 DEF Packet
  <2> QED
    BY <2>1, <2>2 DEF Byte
<1>12. recvRead' = 0 /\ delivered' = <<>> /\ copied' = <<>> /\ left' = 0
  BY <1>2 DEF StreamInv
<1>13. StreamTypes'
  BY <1>2, <1>10, <1>11, <1>12 DEF StreamInv, StreamTypes
<1>14. Unread' = r
  <2>1. Unread' = SubSeq(r, 1, Len(r))
    BY <1>10, <1>12 DEF Unread
  <2> QED
    BY <1>11, <2>1, SubSeqFull
<1>15. Flow(r, w)
  <2>1. Ordered(r)
    BY <1>11 DEF Ordered
  <2>2. \A i \in 1 .. Len(r) : r[i][1] <= 0
    BY <1>11
  <2> QED
    BY <1>9, <1>11, <2>1, <2>2 DEF Flow
<1>16. Flow(delivered \o Unread, wire)'
  <2>1. <<>> \o r = r
    BY <1>11, ConcatEmptySeq
  <2> QED
    BY <1>4, <1>12, <1>14, <1>15, <2>1
<1>17. ShortReadsAtEnd'
  BY <1>12 DEF ShortReadsAtEnd
<1> QED
  BY <1>2, <1>13, <1>16, <1>17 DEF StreamInv

\* A read begins where the last one has ended.
LEMMA BeginsStream == ASSUME RtspAssumption, StreamInv, ReadBegins PROVE StreamInv'
<1>1. PICK len \in ReadLengths :
        /\ status = "playing" /\ ~ failed
        /\ wanted' = len /\ left' = len /\ copied' = <<>> /\ status' = "reading"
        /\ UNCHANGED <<wire, recv, recvRead, failed, delivered>>
  BY DEF ReadBegins
<1>2. len \in Nat
  BY DEF RtspAssumption
<1>3. StreamTypes /\ Flow(delivered \o Unread, wire)
  BY <1>1 DEF StreamInv
<1>4. StreamTypes'
  BY <1>1, <1>2, <1>3 DEF StreamTypes
<1>5. Unread' = Unread
  BY <1>1 DEF Unread
<1>6. delivered \o <<>> = delivered
  BY <1>3, ConcatEmptySeq DEF StreamTypes
<1>7. Flow((delivered \o copied) \o Unread, wire)'
  BY <1>1, <1>3, <1>5, <1>6
<1>8. (left + Len(copied) = wanted)'
  BY <1>1, <1>2
<1> QED
  BY <1>1, <1>4, <1>7, <1>8 DEF StreamInv

\* The last piece of a read is cut off what is unread.
LEMMA LastStream == ASSUME RtspAssumption, StreamInv, LastCopy PROVE StreamInv'
<1>1. PICK u : u = Unread
  OBVIOUS
<1> DEFINE a == SubSeq(u, 1, left)
           b == SubSeq(u, left + 1, Len(u))
<1>2. /\ status = "reading" /\ left <= Len(u) /\ delivered' = delivered \o (copied \o a)
      /\ status' = "playing" /\ recvRead' = recvRead + left /\ left' = 0
      /\ UNCHANGED <<wire, recv, failed, copied, wanted>>
  BY <1>1 DEF LastCopy, HandsOut
<1>3. StreamTypes /\ Flow((delivered \o copied) \o u, wire)
  BY <1>1, <1>2 DEF StreamInv
<1>4. u \in Seq(Byte) /\ Len(u) = Len(recv) - recvRead
  BY <1>1, <1>3, UnreadIs
<1>5. left \in 0 .. Len(u) /\ Len(u) \in Nat
  BY <1>2, <1>3, <1>4, LenProperties DEF StreamTypes
<1>6. a \in Seq(Byte) /\ b \in Seq(Byte)
  <2>1. \A i \in 1 .. left : u[i] \in Byte
    BY <1>4, <1>5, ElementOfSeq
  <2>2. \A i \in left + 1 .. Len(u) : u[i] \in Byte
    BY <1>4, <1>5, ElementOfSeq
  <2> QED
    BY <1>5, <2>1, <2>2, SubSeqProperties
<1>7. a \o b = u
  <2>1. 1 \in 1 .. Len(u) + 1 /\ left \in 1 - 1 .. Len(u) /\ Len(u) \in left .. Len(u)
    BY <1>5
  <2>2. a \o b = SubSeq(u, 1, Len(u))
    BY <1>4, <2>1, ConcatAdjacentSubSeq
  <2> QED
    BY <1>4, <2>2, SubSeqFull
<1>8. Unread' = b
  <2>1. PICK s : s = recv
    OBVIOUS
  <2>2. PICK r : r = recvRead
    OBVIOUS
  <2>3. PICK l : l = left
    OBVIOUS
  <2>4. /\ s \in Seq(Byte) /\ r \in 0 .. Len(s) /\ Len(s) \in Nat
        /\ u = SubSeq(s, r + 1, Len(s)) /\ Len(u) = Len(s) - r /\ l \in 0 .. Len(u)
    BY <1>1, <1>3, <1>4, <1>5, <2>1, <2>2, <2>3, LenProperties DEF StreamTypes, Unread
  <2>5. SubSeq(u, l + 1, Len(u)) = SubSeq(s, (r + l) + 1, Len(s))
    <3>1. CASE l = Len(u)
      <4>1. SubSeq(u, l + 1, Len(u)) = <<>>
        BY <2>4, <3>1, SubSeqEmpty
      <4>2. (r + l) + 1 \in Int /\ Len(s) \in Int /\ Len(s) < (r + l) + 1
        BY <2>4, <3>1
      <4>3. SubSeq(s, (r + l) + 1, Len(s)) = <<>>
        BY <4>2, SubSeqEmpty
      <4> QED
        BY <4>1, <4>3
    <3>2. CASE l # Len(u)
      <4>1. /\ r + 1 \in 1 .. Len(s) /\ Len(s) \in 1 .. Len(s)
            /\ l + 1 \in 1 .. Len(s) - (r + 1) + 1 /\ Len(u) \in 1 .. Len(s) - (r + 1) + 1
            /\ (r + 1) + (l + 1) - 1 = (r + l) + 1 /\ (r + 1) + Len(u) - 1 = Len(s)
        <5>1. Len(u) = Len(s) - r /\ l < Len(u) /\ r \in Nat /\ l \in Nat /\ Len(s) \in Nat
          BY <2>4, <3>2
        <5>2. r + 1 \in 1 .. Len(s) /\ Len(s) \in 1 .. Len(s)
          BY <5>1
        <5>3. Len(s) - (r + 1) + 1 = Len(u)
          BY <5>1
        <5>4. l + 1 \in 1 .. Len(u) /\ Len(u) \in 1 .. Len(u)
          BY <5>1
        <5>5. (r + 1) + (l + 1) - 1 = (r + l) + 1 /\ (r + 1) + Len(u) - 1 = Len(s)
          BY <5>1
        <5> QED
          BY <5>2, <5>3, <5>4, <5>5
      <4>2. SubSeq(SubSeq(s, r + 1, Len(s)), l + 1, Len(u)) =
              SubSeq(s, (r + 1) + (l + 1) - 1, (r + 1) + Len(u) - 1)
        BY <2>4, <4>1, SubSeqOfSubSeq
      <4> QED
        BY <2>4, <4>1, <4>2
    <3> QED
      BY <3>1, <3>2
  <2>6. recv' = s /\ recvRead' = r + l
    BY <1>2, <2>1, <2>2, <2>3
  <2> QED
    BY <2>3, <2>5, <2>6 DEF Unread
<1> HIDE DEF a, b
<1>9. (delivered \o (copied \o a)) \o b = (delivered \o copied) \o u
  <2>1. delivered \in Seq(Byte) /\ copied \in Seq(Byte) /\ delivered \o copied \in Seq(Byte)
    BY <1>3, ConcatProperties DEF StreamTypes
  <2>2. delivered \o (copied \o a) = (delivered \o copied) \o a
    BY <1>6, <2>1, ConcatAssociative, SMTT(30)
  <2>3. ((delivered \o copied) \o a) \o b = (delivered \o copied) \o (a \o b)
    BY <1>6, <2>1, ConcatAssociative, SMTT(30)
  <2> QED
    BY <1>7, <2>2, <2>3
<1>10. Flow(delivered \o Unread, wire)'
  BY <1>2, <1>3, <1>8, <1>9
<1>11. StreamTypes'
  <2>1. delivered' \in Seq(Byte)
    BY <1>2, <1>3, <1>6, ConcatProperties DEF StreamTypes
  <2>2. recvRead' \in 0 .. Len(recv')
    BY <1>2, <1>3, <1>4, <1>5 DEF StreamTypes
  <2> QED
    BY <1>2, <1>3, <2>1, <2>2 DEF StreamTypes
<1>12. ShortReadsAtEnd'
  BY <1>2 DEF ShortReadsAtEnd
<1> QED
  BY <1>2, <1>10, <1>11, <1>12 DEF StreamInv

\* The rest of the buffer is copied and the next chunk taken, or the read ends.
LEMMA ChunkStream == ASSUME RtspAssumption, StreamInv, NextChunk PROVE StreamInv'
<1>1. PICK u : u = Unread
  OBVIOUS
<1>2. PICK c : c = real_get_rdt_chunk(wire)
  OBVIOUS
<1>3. /\ status = "reading" /\ left > Len(u)
      /\ copied' = copied \o u /\ left' = left - Len(u)
      /\ recv' = c.bytes /\ recvRead' = 0 /\ wire' = c.rest
      /\ failed' = (c.size < 0) /\ wanted' = wanted
      /\ \/ c.size > 0 /\ UNCHANGED <<delivered, status>>
         \/ c.size = 0 /\ delivered' = delivered \o copied' /\ status' = "playing"
         \/ c.size < 0 /\ delivered' = delivered \o <<>> /\ status' = "playing"
  BY <1>1, <1>2, Zenon DEF NextChunk, HandsOut
<1>4. StreamTypes /\ Flow((delivered \o copied) \o u, wire) /\ left + Len(copied) = wanted
  BY <1>1, <1>3 DEF StreamInv
<1>5. u \in Seq(Byte) /\ Len(u) \in Nat
  BY <1>1, <1>4, UnreadIs, LenProperties
<1>6. PICK n \in Nat : Ahead(wire, n)
  BY <1>4 DEF Flow
<1>7. /\ c.size \in Int /\ c.bytes \in Seq(Byte)
      /\ ~ (c.size > 0) => c.bytes = <<>>
      /\ c.size = 0 => c.rest = <<>>
  BY <1>2, <1>6, ChunkIs
<1>8. Unread' = c.bytes
  <2>1. PICK r : r = c.bytes
    OBVIOUS
  <2>2. Unread' = SubSeq(r, 0 + 1, Len(r))
    BY <1>3, <2>1 DEF Unread
  <2>3. SubSeq(r, 1, Len(r)) = r
    BY <1>7, <2>1, SubSeqFull
  <2> QED
    BY <2>1, <2>2, <2>3
<1>9. PICK d, k : d = delivered /\ k = copied /\ d \in Seq(Byte) /\ k \in Seq(Byte)
  BY <1>4 DEF StreamTypes
<1>10. /\ copied' \in Seq(Byte) /\ Len(copied') = Len(k) + Len(u) /\ Len(k) \in Nat
       /\ (d \o k) \o u = d \o copied' /\ d \o copied' \in Seq(Byte)
  BY <1>3, <1>5, <1>9, ConcatProperties, ConcatAssociative, LenProperties, SMTT(30)
<1>11. Flow((d \o copied') \o c.bytes, c.rest)
  BY <1>2, <1>4, <1>9, <1>10, FlowGoesOn
<1>12. left \in Nat /\ wanted \in Nat /\ left' \in Nat /\ left' > 0 /\ left' + Len(copied') = wanted
  <2>1. left \in Nat /\ wanted \in Nat
    BY <1>4 DEF StreamTypes
  <2>2. left' = left - Len(u) /\ left > Len(u)
    BY <1>3
  <2>3. left' \in Nat /\ left' > 0
    BY <1>5, <2>1, <2>2
  <2>4. left + Len(k) = wanted
    BY <1>4, <1>9
  <2>5. left' + Len(copied') = wanted
    <3>1. PICK p \in Nat, q \in Nat : p = Len(k) /\ q = Len(u)
      BY <1>5, <1>10
    <3>2. Len(copied') = p + q
      BY <1>10, <3>1
    <3>3. left' = left - q /\ left + p = wanted
      BY <2>2, <2>4, <3>1
    <3>4. (left - q) + (p + q) = wanted
      BY <2>1, <3>1, <3>3
    <3> QED
      BY <3>2, <3>3, <3>4
  <2> QED
    BY <2>1, <2>3, <2>5
<1>13. delivered' \in Seq(Byte)
  BY <1>3, <1>9, <1>10, ConcatEmptySeq
<1>14. StreamTypes'
  BY <1>3, <1>7, <1>10, <1>12, <1>13, LenProperties DEF StreamTypes
<1>15. CASE c.size > 0
  <2>1. Flow((delivered \o copied) \o Unread, wire)'
    BY <1>3, <1>7, <1>8, <1>9, <1>11, <1>15
  <2>2. (left + Len(copied) = wanted)' /\ status' = "reading"
    BY <1>3, <1>7, <1>12, <1>15
  <2> QED
    BY <1>14, <2>1, <2>2 DEF StreamInv
<1>16. CASE c.size = 0
  <2>1. status' = "playing" /\ delivered' = d \o copied' /\ Unread' = <<>> /\ wire' = <<>>
    BY <1>3, <1>7, <1>8, <1>9, <1>16, SMTT(30)
  <2>2. Flow(delivered \o Unread, wire)'
    BY <1>3, <1>8, <1>11, <2>1
  <2>3. ~ (real_get_rdt_chunk(wire').size > 0)
    BY <2>1 DEF real_get_rdt_chunk, rtsp_read_data, Chunk
  <2>4. Len(copied') < wanted'
    BY <1>3, <1>10, <1>12
  <2>5. copied' = <<>> \/ Last(delivered') = Last(copied')
    <3> SUFFICES ASSUME copied' # <<>> PROVE Last(delivered') = Last(copied')
      OBVIOUS
    <3>1. PICK x : x = copied' /\ x \in Seq(Byte) /\ Len(x) \in Nat \ {0}
      BY <1>10, EmptySeq
    <3>2. PICK y : y = d \o x
      OBVIOUS
    <3>3. Len(y) = Len(d) + Len(x) /\ Len(d) \in Nat /\ y[Len(y)] = x[Len(x)]
      BY <1>9, <3>1, <3>2, ConcatProperties, LenProperties
    <3> QED
      BY <2>1, <3>1, <3>2, <3>3 DEF Last
  <2>6. ShortReadsAtEnd'
    BY <2>1, <2>3, <2>4, <2>5 DEF ShortReadsAtEnd
  <2> QED
    BY <1>14, <2>1, <2>2, <2>6 DEF StreamInv
<1>17. CASE c.size < 0
  <2>1. status' = "playing" /\ delivered' = d /\ Unread' = <<>> /\ failed'
    <3>1. delivered' = d \o <<>> /\ status' = "playing" /\ failed'
      <4>1. ~ (c.size > 0) /\ ~ (c.size = 0)
        BY <1>7, <1>17
      <4>2. delivered' = delivered \o <<>> /\ status' = "playing"
        BY <1>3, <4>1, Zenon
      <4>3. failed'
        BY <1>3, <1>17, Zenon
      <4> QED
        BY <1>9, <4>2, <4>3, Zenon
    <3>2. d \o <<>> = d
      BY <1>9, ConcatEmptySeq
    <3> QED
      BY <1>7, <1>8, <1>17, <3>1, <3>2
  <2>2. (d \o copied') \o c.bytes = d \o copied'
    <3>1. c.bytes = <<>>
      BY <1>7, <1>17
    <3>2. PICK x : x = d \o copied' /\ x \in Seq(Byte)
      BY <1>10
    <3>3. x \o <<>> = x
      BY <3>2, ConcatEmptySeq
    <3> QED
      BY <3>1, <3>2, <3>3
  <2>3. Flow(d, c.rest)
    BY <1>9, <1>10, <1>11, <2>2, FlowPrefix
  <2>4. d \o <<>> = d
    BY <1>9, ConcatEmptySeq
  <2>5. Flow(delivered \o Unread, wire)'
    BY <1>3, <2>1, <2>3, <2>4
  <2>6. Len(copied') < wanted'
    BY <1>3, <1>10, <1>12
  <2>7. ShortReadsAtEnd'
    BY <2>1, <2>6 DEF ShortReadsAtEnd
  <2> QED
    BY <1>14, <2>1, <2>5, <2>7 DEF StreamInv
<1> QED
  BY <1>7, <1>15, <1>16, <1>17

\* The dialogue leaves the stream alone.
LEMMA StreamStays ==
  ASSUME StreamInv, UNCHANGED streamVars,
         status' = status \/ status' \in {"refused", "exit", "crash"}
                         \/ (status \in {"ready", "waiting"} /\ status' \in {"ready", "waiting"})
  PROVE  StreamInv'
<1>1. StreamTypes'
  BY DEF StreamInv, StreamTypes, streamVars
<1>2. status' \in {"ready", "waiting"} =>
        recv' = <<>> /\ recvRead' = 0 /\ delivered' = <<>> /\ copied' = <<>> /\ left' = 0
  BY DEF StreamInv, streamVars
<1>3. Unread' = Unread
  BY DEF Unread, streamVars
<1>4. status' = "playing" => Flow(delivered \o Unread, wire)' /\ ShortReadsAtEnd'
  <2> SUFFICES ASSUME status' = "playing" PROVE Flow(delivered \o Unread, wire)' /\ ShortReadsAtEnd'
    OBVIOUS
  <2>1. status = "playing" /\ Flow(delivered \o Unread, wire) /\ ShortReadsAtEnd
    BY DEF StreamInv
  <2>2. /\ wire' = wire /\ delivered' = delivered /\ left' = left /\ copied' = copied
        /\ wanted' = wanted /\ failed' = failed
    BY DEF streamVars
  <2>3. Flow(delivered \o Unread, wire)'
    BY <1>3, <2>1, <2>2
  <2>4. real_get_rdt_chunk(wire) = real_get_rdt_chunk(wire)'
    BY <2>2
  <2>5. ShortReadsAtEnd'
    BY <1>3, <2>1, <2>2, <2>4 DEF ShortReadsAtEnd
  <2> QED
    BY <2>3, <2>5
<1>5. status' = "reading" => Flow((delivered \o copied) \o Unread, wire)' /\ (left + Len(copied) = wanted)'
  BY <1>3 DEF StreamInv, streamVars
<1> QED
  BY <1>1, <1>2, <1>4, <1>5 DEF StreamInv

\* No step breaks the flow.
LEMMA StreamStep ==
  ASSUME RtspAssumption, StreamInv, [RtspNext]_rtspvars
  PROVE  StreamInv'
<1>1. CASE rtsp_send_request \/ rtsp_get_answers
  <2>1. UNCHANGED streamVars /\ status \in {"ready", "waiting"}
        /\ status' \in {"ready", "waiting", "refused"}
    BY <1>1 DEF rtsp_send_request, rtsp_get_answers, Answers, Served
  <2> QED
    BY <2>1, StreamStays
<1>2. CASE Plays
  BY <1>2, PlaysStream
<1>3. CASE rtsp_get_AtEndOfStream \/ ReadAfterFailure
  <2>1. UNCHANGED streamVars /\ status' \in {"exit", "crash"}
    BY <1>3 DEF rtsp_get_AtEndOfStream, ReadAfterFailure
  <2> QED
    BY <2>1, StreamStays
<1>4. CASE ReadBegins
  BY <1>4, BeginsStream
<1>5. CASE NextChunk
  BY <1>5, ChunkStream
<1>6. CASE LastCopy
  BY <1>6, LastStream
<1>7. CASE UNCHANGED rtspvars
  BY <1>7, StreamStays DEF rtspvars, sessionVars
<1> QED
  BY <1>1, <1>2, <1>3, <1>4, <1>5, <1>6, <1>7 DEF RtspNext

\* What has been handed out is in order, and a short read is the last.
LEMMA InvHandsOut == StreamInv => PacketsHandedOut
<1> SUFFICES ASSUME StreamInv PROVE PacketsHandedOut
  OBVIOUS
<1>1. StreamTypes /\ Unread \in Seq(Byte)
  BY UnreadIs DEF StreamInv
<1>2. ASSUME status \in {"playing", "reading"} PROVE Ordered(delivered)
  <2>1. delivered \in Seq(Byte) /\ copied \in Seq(Byte) /\ delivered \o copied \in Seq(Byte)
    BY <1>1, ConcatProperties DEF StreamTypes
  <2>2. CASE status = "playing"
    <3>1. Flow(delivered \o Unread, wire)
      BY <2>2 DEF StreamInv
    <3> QED
      BY <1>1, <2>1, <3>1, FlowPrefix DEF Flow
  <2>3. CASE status = "reading"
    <3>1. Flow((delivered \o copied) \o Unread, wire)
      BY <2>3 DEF StreamInv
    <3>2. Flow(delivered \o copied, wire)
      BY <1>1, <2>1, <3>1, FlowPrefix
    <3> QED
      BY <2>1, <3>2, FlowPrefix DEF Flow
  <2> QED
    BY <1>2, <2>2, <2>3
<1>3. PacketsInOrder
  BY <1>2 DEF PacketsInOrder, Ordered
<1>4. ShortReadsAtEnd
  BY DEF StreamInv, ShortReadsAtEnd
<1> QED
  BY <1>3, <1>4 DEF PacketsHandedOut

\* rtsp_session_read hands out the header and the packets in order, whole and
\* once, whatever lengths it is asked for and however the stream ends.
THEOREM PacketsInSequence == RtspSpec => []PacketsHandedOut
<1>1. RtspStart => StreamInv
  <2> SUFFICES ASSUME RtspStart PROVE StreamInv
    OBVIOUS
  <2>1. /\ status = "ready" /\ recv = <<>> /\ recvRead = 0 /\ left = 0 /\ copied = <<>>
        /\ delivered = <<>> /\ wanted = 0
    BY DEF RtspStart
  <2> QED
    BY <2>1 DEF StreamInv, StreamTypes
<1>2. StreamInv /\ [RtspNext]_rtspvars => StreamInv'
  BY StreamStep, RtspAssumption
<1>3. StreamInv => PacketsHandedOut
  BY InvHandsOut
<1> QED
  BY <1>1, <1>2, <1>3, PTL DEF RtspSpec

=============================================================================
