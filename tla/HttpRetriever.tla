---------------------------- MODULE HttpRetriever ----------------------------
(***************************************************************************)
(* http.cpp: HttpRetriever::TaskValid.  The header of the response is      *)
(* looked for by peeking: Peek copies what has arrived, from the start of  *)
(* the response, and returns a number it never sets.  Only the end of the  *)
(* header decides how much is then read away, and the rest is the data.    *)
(* Bytes are numbered from the start of the response: byte 0 stands for    *)
(* the status line, byte head - 1 for the blank line that ends the header, *)
(* and the body starts at head.                                            *)
(***************************************************************************)
EXTENDS Integers

CONSTANTS
    HttpBegins,     \* offsets a thread may ask for
    HttpLength,     \* length of the document
    Heads,          \* lengths of a header
    Garbage,        \* what Peek may return, what its rlen happens to hold; 0 for < 0
    RBuff,          \* sizeof(rbuff)
    Unknown         \* no data yet

ASSUME HttpAssumption ==
    /\ HttpBegins \subseteq Nat /\ HttpLength \in Nat /\ Heads \subseteq Nat \ {0}
    /\ Garbage \subseteq Nat /\ RBuff \in Nat \ {0} /\ Unknown \notin Int

VARIABLES
    hpc,            \* where the client is in TaskValid and after it
    asked,          \* the offset in the Range header
    bsize,          \* what `size' points to
    contentLength,
    response,       \* [status, head, from, says], what the server answers
    sent, read,     \* bytes of it that have arrived, that have been read
    rlen, rbuff,    \* what the last Peek returned, and what has been copied
    tidy            \* history: one Peek saw the whole header and returned > 0

htvars == <<hpc, asked, bsize, contentLength, response, sent, read, rlen, rbuff, tidy>>

NUL == -1

\* The document from `from' on: from the offset asked for, or from its start
\* when the server ignores Range.  Content-Length may be missing.
Responses(b) ==
    [status : {"2xx", "3xx", "4xx"}, head : Heads, from : {b, 0}, says : BOOLEAN]

Body  == IF response.status = "2xx" THEN HttpLength - response.from ELSE 0
Total == response.head + Body
Said  == IF response.says THEN Body ELSE 0

HttpInit ==
    /\ hpc = "peek" /\ asked \in HttpBegins /\ bsize = asked /\ contentLength = 0
    /\ response \in Responses(asked)
    /\ sent = 0 /\ read = 0
    /\ rlen = 0 /\ rbuff = [i \in 0 .. RBuff - 1 |-> NUL]
    /\ tidy = TRUE

-----------------------------------------------------------------------------
\* The network (external): more of the response arrives.
Delivers ==
    /\ \E n \in sent + 1 .. Total : sent' = n
    /\ UNCHANGED <<hpc, asked, bsize, contentLength, response, read, rlen, rbuff, tidy>>

\* rbuff after Peek(rbuff + where): what has arrived, from its first byte.
Copied(where) ==
    [i \in DOMAIN rbuff |-> IF i \in where .. where + sent - 1 THEN i - where ELSE rbuff[i]]

\* strstr(text, "\r\n\r\n"): the places a blank line ends at before any NUL.
Ends(text) ==
    {i \in DOMAIN text :
        text[i] = response.head - 1 /\ \A j \in 0 .. i : text[j] # NUL}

\* One turn of the loop.  What Peek returns says nothing of what it copied.
PeekTurn ==
    /\ hpc = "peek"
    /\ rlen' \in Garbage
    /\ LET text == Copied(rlen) IN
       /\ rbuff' = text
       /\ \/ rlen' <= 0 /\ hpc' = "parse" /\ UNCHANGED bsize
          \/ rlen' > 0 /\ Ends(text) = {} /\ UNCHANGED <<hpc, bsize>>
          \/ /\ rlen' > 0 /\ hpc' = "parse"
             /\ \E i \in Ends(text) : bsize' = i + 1 /\ \A j \in Ends(text) : i <= j
       /\ tidy' = (tidy /\ rlen = 0 /\ hpc' = "parse" /\ rlen' > 0)
    /\ UNCHANGED <<asked, contentLength, response, sent, read>>

\* HttpHeader::Parse and the test of the status.  Without the status line
\* the status is not the server's; without a blank line Parse reads on past
\* its copy.  3xx is refused too: redirections are not followed.
Judge ==
    /\ hpc = "parse"
    /\ \E status \in IF rbuff[0] = 0 THEN {response.status} ELSE {"2xx", "4xx"} :
          hpc' = IF status = "2xx" THEN "read" ELSE "refused"
    /\ UNCHANGED <<asked, bsize, contentLength, response, sent, read, rlen, rbuff, tidy>>

Astray ==
    /\ hpc = "parse" /\ Ends(rbuff) = {}
    /\ hpc' = "astray"
    /\ UNCHANGED <<asked, bsize, contentLength, response, sent, read, rlen, rbuff, tidy>>

\* Mutant: the last byte of the header is left.
Accept_OneLess ==
    /\ hpc = "read" /\ hpc' = "valid"
    /\ \E n \in 0 .. bsize : n <= sent /\ read' = n - 1 /\ tidy' = (tidy /\ n = bsize)
    /\ contentLength' \in IF Ends(rbuff) # {} /\ tidy THEN {Said} ELSE {0, 1, Said}
    /\ bsize' = contentLength'
    /\ UNCHANGED <<asked, response, sent, rlen, rbuff>>

\* csock->Read(rbuff, *size), less if it times out, and Content-Length, which
\* may have been seen in part; dsock is given the control socket.
Accept ==
    /\ hpc = "read" /\ hpc' = "valid"
    /\ \E n \in 0 .. bsize : n <= sent /\ read' = n /\ tidy' = (tidy /\ n = bsize)
    /\ contentLength' \in IF Ends(rbuff) # {} /\ tidy THEN {Said} ELSE {0, 1, Said}
    /\ bsize' = contentLength'
    /\ UNCHANGED <<asked, response, sent, rlen, rbuff>>

\* Retriever::PrepairData does nothing: the rest of the response is the data.
Prepair ==
    /\ hpc = "valid" /\ hpc' = "ready"
    /\ UNCHANGED <<asked, bsize, contentLength, response, sent, read, rlen, rbuff, tidy>>

Retrieve ==
    /\ hpc = "ready" /\ read < sent /\ read' = read + 1
    /\ UNCHANGED <<hpc, asked, bsize, contentLength, response, sent, rlen, rbuff, tidy>>

Finished ==
    /\ hpc = "ready" /\ hpc' = "finished"
    /\ UNCHANGED <<asked, bsize, contentLength, response, sent, read, rlen, rbuff, tidy>>

HttpNext ==
    Delivers \/ PeekTurn \/ Judge \/ Astray \/ Accept \/ Prepair \/ Retrieve \/ Finished

HttpSpec == HttpInit /\ [][HttpNext]_htvars

-----------------------------------------------------------------------------
\* The data start with the header, or without part of the body, only if some
\* Peek did not see the whole header, returned no positive number, or the
\* header could not be read away in time.
BodyAfterHeader ==
    hpc \in {"valid", "ready"} /\ tidy => read >= response.head /\ contentLength = Said

\* What is taken for the document comes from a 2xx answer, unless the status
\* line had not come when Peek returned.
OnlyGoodAnswers ==
    hpc \in {"valid", "ready", "finished"} /\ response.status # "2xx" => rbuff[0] = NUL

\* Only the document reaches the file: no header, and no page that reports an
\* error or a redirection.
DocumentOnly == BodyAfterHeader /\ OnlyGoodAnswers

HttpPhase ==
    CASE hpc \in {"peek", "parse", "read"} -> "asked"
      [] hpc = "astray" -> "refused"
      [] OTHER -> hpc

\* The data socket delivers the document from the offset asked for, if the
\* server honours Range and the header was seen and read whole.
AskedHttp == INSTANCE Retriever WITH
    Offsets <- HttpBegins, Nothing <- Unknown, phase <- HttpPhase,
    at <- IF hpc \in {"ready", "finished"} THEN response.from + read - response.head ELSE Unknown,
    kept <- tidy /\ response.from = asked /\ response.status = "2xx"

HttpRetrieves == AskedHttp!Spec
=============================================================================
