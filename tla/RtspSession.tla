----------------------------- MODULE RtspSession -----------------------------
(***************************************************************************)
(* A session of the RTSP library: the requests (rtsp.c) in the order of    *)
(* real_setup_and_get_header (real.c), with the server answering; then the *)
(* packets, as real_get_rdt_chunk takes them off the connection and        *)
(* rtsp_session_read (rtsp_session.c) hands them out in other sizes.       *)
(***************************************************************************)
EXTENDS Integers, Sequences, SequencesExt

CONSTANTS
    SessionIds,     \* names a server may give the session
    Numbers,        \* numbers it may answer with, besides that of the request
    Payloads,       \* lengths of packets
    ReadLengths,    \* lengths rtsp_session_read is asked for
    MaxItems,       \* bound on what the server sends after PLAY (model)
    HeaderLength    \* length of the header the stream begins with

ASSUME RtspAssumption ==
    /\ 0 \notin SessionIds \cup ReadLengths
    /\ Numbers \cup Payloads \cup ReadLengths \cup {HeaderLength, MaxItems} \subseteq Nat

VARIABLES
    progress,       \* requests still to be made; what the session is doing
    status,
    cseq, session,  \* of rtsp_t; 0 for no session
    scheduled,      \* fields of the next request
    requests,       \* history: [type, fields]
    answered,       \* history: [number, session] of the answers, 0 if without
    wire,           \* what the server has sent and nobody has read
    recv, recvRead, \* the receive buffer: <<packet, byte>> and recv_read
    failed,         \* recv_size is -1
    left, copied,   \* rtsp_session_read: to_copy, and what is in data
    delivered,      \* history: what it has returned
    wanted          \* history: the length of the last read

sessionVars == <<progress, status, cseq, session, scheduled, requests, answered>>
streamVars == <<wire, recv, recvRead, failed, left, copied, delivered, wanted>>
rtspvars == <<sessionVars, streamVars>>

Field(name, val) == [name |-> name, val |-> val]

-----------------------------------------------------------------------------
(* The requests *)

\* What real.c schedules for each, besides the standard fields.
Scheduled ==
    [OPTIONS  |-> <<Field("Cseq", 1), Field("ClientChallenge", 0)>>,
     DESCRIBE |-> <<Field("Accept", 0), Field("Bandwidth", 0)>>,
     SETUP0   |-> <<Field("RealChallenge2", 0), Field("If-Match", 0), Field("Transport", 0)>>,
     SETUP1   |-> <<Field("Transport", 0), Field("If-Match", 0)>>,
     SET_PARAMETER |-> <<Field("Subscribe", 0)>>,
     PLAY     |-> <<Field("Range", 0)>>]

RtspStart ==
    /\ progress = <<"OPTIONS", "DESCRIBE", "SETUP0", "SETUP1", "SET_PARAMETER", "PLAY">>
    /\ status = "ready"
    /\ cseq = 1 /\ session = 0 /\ scheduled = <<>>
    /\ requests = <<>> /\ answered = <<>>
    /\ wire = <<>> /\ recv = <<>> /\ recvRead = 0 /\ failed = FALSE
    /\ left = 0 /\ copied = <<>> /\ delivered = <<>> /\ wanted = 0

\* Mutant: the fields stay scheduled.
rtsp_send_request_Keeps ==
    /\ status = "ready" /\ progress # <<>>
    /\ requests' = Append(requests, [type |-> Head(progress),
                                     fields |-> scheduled \o Scheduled[Head(progress)]])
    /\ scheduled' = scheduled \o Scheduled[Head(progress)]
    /\ status' = "waiting"
    /\ UNCHANGED <<progress, cseq, session, answered, streamVars>>

\* rtsp_send_request sends what is scheduled and unschedules it.
rtsp_send_request ==
    /\ status = "ready" /\ progress # <<>>
    /\ requests' = Append(requests, [type |-> Head(progress),
                                     fields |-> scheduled \o Scheduled[Head(progress)]])
    /\ scheduled' = <<>>
    /\ status' = "waiting"
    /\ UNCHANGED <<progress, cseq, session, answered, streamVars>>

\* rtsp_schedule_standard.
Standard(n, id) == <<Field("Cseq", n)>> \o IF id = 0 THEN <<>> ELSE <<Field("Session", id)>>

\* The answer that carries number n, or none it recognises, and a session, or
\* none.  The client goes on from the server's number.
Answers(n, id) ==
    LET seen == IF n = 0 THEN cseq ELSE n
        name == IF id = 0 THEN session ELSE id
    IN  /\ status = "waiting"
        /\ cseq' = seen + 1 /\ session' = name
        /\ scheduled' = scheduled \o Standard(seen + 1, name)
        /\ answered' = Append(answered, [number |-> n, session |-> id])
        /\ UNCHANGED <<requests, streamVars>>

Served(n, id) == Answers(n, id) /\ Head(progress) # "PLAY" /\ status' = "ready"

\* Only the status of DESCRIBE is looked at; a refusal, a redirection or a
\* server that is not a Real one ends the session.
rtsp_get_answers ==
    \E n \in {0, cseq} \cup Numbers, id \in {0} \cup SessionIds :
        \/ \E two \in BOOLEAN :
              /\ Served(n, id)
              /\ progress' = IF Head(progress) = "SETUP0" /\ ~ two
                             THEN Tail(Tail(progress)) ELSE Tail(progress)
              /\ two => Head(progress) = "SETUP0"
        \/ Answers(n, id) /\ Head(progress) \in {"OPTIONS", "DESCRIBE"}
              /\ status' = "refused" /\ UNCHANGED progress

\* Nobody tests what rtsp_get has read: at the end of the stream it fills its
\* buffer with what was there, and exits.
rtsp_get_AtEndOfStream ==
    /\ status = "waiting" /\ status' = "exit"
    /\ UNCHANGED <<progress, cseq, session, scheduled, requests, answered, streamVars>>

-----------------------------------------------------------------------------
(* The stream *)

Packet(k, len) == [i \in 1 .. len + 1 |-> <<k, i>>]     \* its own header is a byte
Messages == [is : {"packet", "cut"}, len : Payloads] \cup [is : {"set", "eof"}, len : {0}]

\* PLAY is answered with its number, and the server sends.
Plays ==
    /\ status = "waiting" /\ Head(progress) = "PLAY"
    /\ \E sent \in SeqOf(Messages, MaxItems) :
        /\ cseq' = cseq + 1 /\ scheduled' = Standard(cseq', session)
        /\ UNCHANGED session
        /\ requests' = <<>> /\ answered' = <<>>         \* there are no more
        /\ progress' = <<>> /\ status' = "playing"
        /\ wire' = [k \in DOMAIN sent |-> [is |-> sent[k].is, bytes |->
                        IF sent[k].is = "cut" THEN SubSeq(Packet(k, sent[k].len), 1, sent[k].len)
                        ELSE Packet(k, sent[k].len)]]
        /\ recv' = Packet(0, HeaderLength - 1)
        /\ UNCHANGED <<recvRead, failed, left, copied, delivered, wanted>>

\* rtsp_read_data answers a SET_PARAMETER in front of what it is to read, once.
rtsp_read_data(w) == IF w # <<>> /\ Head(w).is = "set" THEN Tail(w) ELSE w

\* real_get_rdt_chunk.  What follows must be a packet, with or without the nine
\* bytes that are skipped.  One whose end is missing counts as far as it goes.
Chunk(size, bytes, rest) == [size |-> size, bytes |-> bytes, rest |-> rest]

real_get_rdt_chunk(w) ==
    LET v == rtsp_read_data(w) IN
    IF v = <<>> THEN Chunk(0, <<>>, <<>>)
    ELSE IF Head(v).is = "packet" THEN Chunk(Len(Head(v).bytes), Head(v).bytes, Tail(v))
    ELSE IF Head(v).is = "cut"
    THEN IF Len(Head(v).bytes) <= 1 THEN Chunk(0, <<>>, <<>>)
         ELSE Chunk(Len(Head(v).bytes), Head(v).bytes, <<>>)
    ELSE IF Head(v).is = "eof" THEN Chunk(-1, <<>>, Tail(v))
    ELSE Chunk(0, <<>>, <<>>)       \* in the middle of a message, for good

Unread == SubSeq(recv, recvRead + 1, Len(recv))

ReadBegins ==
    \E len \in ReadLengths :
        /\ status = "playing" /\ ~ failed
        /\ wanted' = len /\ left' = len /\ copied' = <<>> /\ status' = "reading"
        /\ UNCHANGED <<progress, cseq, session, scheduled, requests, answered>>
        /\ UNCHANGED <<wire, recv, recvRead, failed, delivered>>

HandsOut(what) == delivered' = delivered \o what /\ status' = "playing"

\* Mutant: a new packet is read on from the old place.
NextChunk_KeepsRead ==
    LET c == real_get_rdt_chunk(wire) IN
    /\ status = "reading" /\ left > Len(Unread)
    /\ copied' = copied \o Unread /\ left' = left - Len(Unread)
    /\ recv' = c.bytes /\ wire' = c.rest
    /\ failed' = (c.size < 0)
    /\ \/ c.size > 0 /\ UNCHANGED <<delivered, status>>
       \/ c.size = 0 /\ HandsOut(copied')
       \/ c.size < 0 /\ HandsOut(<<>>)
    /\ UNCHANGED <<progress, cseq, session, scheduled, requests, answered, wanted, recvRead>>

\* to_copy > fill: the rest of the buffer, and the next packet.
NextChunk ==
    LET c == real_get_rdt_chunk(wire) IN
    /\ status = "reading" /\ left > Len(Unread)
    /\ copied' = copied \o Unread /\ left' = left - Len(Unread)
    /\ recv' = c.bytes /\ recvRead' = 0 /\ wire' = c.rest
    /\ failed' = (c.size < 0)
    /\ \/ c.size > 0 /\ UNCHANGED <<delivered, status>>
       \/ c.size = 0 /\ HandsOut(copied')
       \/ c.size < 0 /\ HandsOut(<<>>)
    /\ UNCHANGED <<progress, cseq, session, scheduled, requests, answered, wanted>>

LastCopy ==
    /\ status = "reading" /\ left <= Len(Unread)
    /\ HandsOut(copied \o SubSeq(Unread, 1, left))
    /\ recvRead' = recvRead + left /\ left' = 0
    /\ UNCHANGED <<progress, cseq, session, scheduled, requests, answered>>
    /\ UNCHANGED <<wire, recv, failed, copied, wanted>>

\* After -1, to_copy > fill = -1, and memcpy is asked for that many bytes.
ReadAfterFailure ==
    /\ status = "playing" /\ failed /\ status' = "crash"
    /\ UNCHANGED <<progress, cseq, session, scheduled, requests, answered, streamVars>>

RtspNext ==
    \/ rtsp_send_request \/ rtsp_get_answers \/ rtsp_get_AtEndOfStream
    \/ Plays \/ ReadBegins \/ NextChunk \/ LastCopy \/ ReadAfterFailure

RtspSpec == RtspStart /\ [][RtspNext]_rtspvars

-----------------------------------------------------------------------------
Named(r, name) == {f \in DOMAIN r.fields : r.fields[f].name = name}
ValuesOf(r, name) == {r.fields[f].val : f \in Named(r, name)}

\* The session the server last named before request i, 0 if it has not.
SessionBefore(i) ==
    LET named == {j \in 1 .. i - 1 : answered[j].session # 0}
    IN  IF named = {} THEN 0 ELSE answered[CHOOSE j \in named : \A k \in named : k <= j].session

\* Every request carries one sequence number, the one after that of the answer
\* before it, or after its own last one if the answer had none; and, once the
\* server has named the session, that name once.  No field of a request is
\* sent again with a later one.
RequestsNumbered ==
    \A i \in DOMAIN requests :
        /\ i = 1 => ValuesOf(requests[i], "Cseq") = {1}
        /\ i > 1 => \A before \in ValuesOf(requests[i - 1], "Cseq") :
              LET number == answered[i - 1].number IN
              ValuesOf(requests[i], "Cseq") = {1 + IF number # 0 THEN number ELSE before}
        /\ ValuesOf(requests[i], "Session") = {SessionBefore(i)} \ {0}
        /\ \A f, g \in DOMAIN requests[i].fields :
              requests[i].fields[f].name = requests[i].fields[g].name => f = g

\* The header and the packets are handed out in order, whole and once, in
\* whatever lengths they are asked for.
PacketsInOrder ==
    status \in {"playing", "reading"} =>
        \A i \in 1 .. Len(delivered) - 1 :
            LET a == delivered[i] b == delivered[i + 1] IN
            \/ b = <<a[1], a[2] + 1>>
            \/ a[1] < b[1] /\ b[2] = 1

\* A read that returns less than was asked for has left nothing behind; only
\* the end marker of the stream loses what had been copied, less than that.
ShortReadsAtEnd ==
    status = "playing" /\ left > 0 =>
        /\ Unread = <<>>
        /\ real_get_rdt_chunk(wire).size > 0 => failed
        /\ Len(copied) < wanted
        /\ ~ failed => copied = <<>> \/ Last(delivered) = Last(copied)

\* The reader of a session gets every packet once, in order, to the end,
\* however its reads cut them up.
PacketsHandedOut == PacketsInOrder /\ ShortReadsAtEnd
=============================================================================
