---------------------------- MODULE FtpRetriever ----------------------------
(***************************************************************************)
(* ftp.cpp: one session of an FtpRetreiver with a server.  Commands are    *)
(* sent down the control connection and answered in order, but nothing     *)
(* says when: Reads takes what has arrived, which may be several replies   *)
(* at once or part of one, or, after a timeout, none.                      *)
(***************************************************************************)
EXTENDS Integers, Sequences

CONSTANTS
    Begins,         \* offsets a thread may ask for
    DocLength,      \* length of the document
    Nothing         \* no data, no connection

ASSUME FtpAssumption ==
    Begins \subseteq Nat /\ DocLength \in Nat /\ Nothing \notin Int

VARIABLES
    at,             \* where the client is in TaskValid, PrepairData, RetrData
    begin,          \* bsize, and mContentBegin from TaskValid on
    length,         \* mContentLength; Nothing before
    cmds, replies,  \* commands and replies on their way
    dsock,          \* number of the data connection mTranSock is on, or Nothing
    from,           \* offset of the next byte on that connection, or Nothing
    server,         \* what the server knows: [logged, binary, passive, rest]
    done,           \* history: commands the server has carried out
    believed        \* history: commands the client took for carried out

fvars == <<at, begin, length, cmds, replies, dsock, from, server, done, believed>>

\* Text after the code of a reply that came separately matches nothing.
Junk == "..."
Has(read, codes) == \E i \in 1 .. Len(read) : read[i] \in codes

FtpInit ==
    /\ at = "greeting" /\ begin \in Begins /\ length = Nothing
    /\ cmds = <<>> /\ replies = <<>>
    /\ dsock = Nothing /\ from = Nothing
    /\ server = [logged |-> FALSE, binary |-> FALSE, passive |-> 0, rest |-> 0, greeted |-> FALSE]
    /\ done = {} /\ believed = {}

-----------------------------------------------------------------------------
(* The server (external). *)

client == <<at, begin, length, dsock, believed>>

\* A reply, whole or with its text arriving on its own.
Reply(codes) ==
    \E code \in codes, tail \in {<<>>, <<Junk>>} : replies' = replies \o <<code>> \o tail

Greets ==
    /\ ~ server.greeted
    /\ Reply({"220"})
    /\ server' = [server EXCEPT !.greeted = TRUE]
    /\ UNCHANGED <<client, cmds, from, done>>

Positive ==
    [USER |-> {"331"}, PASS |-> {"230"}, TYPE |-> {"200"}, PASV |-> {"227"},
     LIST |-> {"150", "125"}, REST |-> {"350"}, RETR |-> {"150"}, QUIT |-> {"221"}]

\* The client is on the data connection the server is listening on.
Connected == dsock = server.passive /\ server.passive > 0

\* What carrying out a command does: LIST and RETR send their data, then 226.
CarryOut(c) ==
    /\ c \in {"LIST", "RETR"} => Connected
    /\ done' = done \cup {c}
    /\ server' = [server EXCEPT
            !.logged = @ \/ c = "PASS",
            !.binary = @ \/ c = "TYPE",
            !.passive = IF c = "PASV" THEN @ + 1 ELSE @,
            !.rest = IF c = "REST" THEN begin ELSE @]
    /\ from' = IF c = "RETR" THEN server.rest ELSE from
    /\ IF c = "LIST"
       THEN \E code \in Positive[c], between \in {<<>>, <<Junk>>} :
                replies' = replies \o <<code>> \o between \o <<"226">>
       ELSE Reply(Positive[c])

Serves ==
    /\ server.greeted /\ cmds # <<>>
    /\ cmds' = Tail(cmds)
    /\ \/ CarryOut(Head(cmds))
       \/ Reply({"5xx"}) /\ UNCHANGED <<from, server, done>>
    /\ UNCHANGED client

-----------------------------------------------------------------------------
(* The client. *)

\* SendCmd, or the first half of the functions that send and read.
Send(here, cmd, there) ==
    /\ at = here /\ at' = there
    /\ cmds' = Append(cmds, cmd)
    /\ UNCHANGED <<begin, length, replies, dsock, from, server, done, believed>>

\* Reads on the control connection: the first n replies, or none in time.
ReadsTo(read) ==
    /\ \/ read = <<>> /\ replies = <<>>
       \/ \E n \in 1 .. Len(replies) : read = SubSeq(replies, 1, n)
    /\ replies' = SubSeq(replies, Len(read) + 1, Len(replies))

Pieces == {SubSeq(replies, 1, n) : n \in 0 .. Len(replies)}

Take(cmd, there) == believed' = believed \cup {cmd} /\ at' = there

\* RecvCmd: whatever is read, or nothing, is taken for the greeting.
RecvGreeting ==
    /\ at = "greeting" /\ at' = "user"
    /\ \E read \in Pieces : ReadsTo(read)
    /\ UNCHANGED <<begin, length, cmds, dsock, from, server, done, believed>>

\* Mutant: no answer is waited for.
LoginReads_Waits(here, cmd, code, there) ==
    /\ at = here
    /\ \E read \in Pieces :
          /\ ReadsTo(read)
          /\ IF Has(read, {code}) THEN Take(cmd, there) ELSE UNCHANGED <<at, believed>>
    /\ UNCHANGED <<begin, length, cmds, dsock, from, server, done>>

\* Login reads until it sees the reply it wants, or nothing.
LoginReads(here, cmd, code, there) ==
    /\ at = here
    /\ \E read \in Pieces :
          /\ ReadsTo(read)
          /\ \/ read = <<>> /\ at' = "refused" /\ UNCHANGED believed
             \/ Has(read, {code}) /\ Take(cmd, there)
             \/ read # <<>> /\ ~ Has(read, {code}) /\ UNCHANGED <<at, believed>>
    /\ UNCHANGED <<begin, length, cmds, dsock, from, server, done>>

\* Mutant: any answer will do.
Expects_Any(here, cmd, codes, there, otherwise) ==
    /\ at = here
    /\ \E read \in Pieces :
          /\ ReadsTo(read)
          /\ IF read # <<>> THEN Take(cmd, there) ELSE at' = otherwise /\ UNCHANGED believed
    /\ UNCHANGED <<begin, length, cmds, dsock, from, server, done>>

\* TypeSend, and RestSend and RetrSend, whose results PrepairData ignores.
Expects(here, cmd, codes, there, otherwise) ==
    /\ at = here
    /\ \E read \in Pieces :
          /\ ReadsTo(read)
          /\ IF Has(read, codes) THEN Take(cmd, there) ELSE at' = otherwise /\ UNCHANGED believed
    /\ UNCHANGED <<begin, length, cmds, dsock, from, server, done>>

\* PasvSend.  GetPASVAddr takes the first digits after the first four
\* characters of the whole read for the address: it needs 227 to come first.
PasvReads(here, there, otherwise) ==
    /\ at = here
    /\ \E read \in Pieces :
          /\ ReadsTo(read)
          /\ IF ~ Has(read, {"227"}) THEN at' = otherwise /\ UNCHANGED <<dsock, believed>>
             ELSE \/ Head(read) = "227" /\ Take("PASV", there) /\ dsock' = server.passive
                  \/ at' = otherwise /\ UNCHANGED <<dsock, believed>>   \* Connect failed
    /\ UNCHANGED <<begin, length, cmds, from, server, done>>

\* The replies to LIST: 226 is read once more unless it has been seen.
ListReads ==
    /\ at = "list?"
    /\ \E read \in Pieces :
          /\ ReadsTo(read)
          /\ \/ Has(read, {"226"}) /\ Take("LIST", "listing")
             \/ ~ Has(read, {"226"}) /\ Has(read, {"150", "125"}) /\ Take("LIST", "list226?")
             \/ ~ Has(read, {"150", "125", "226"}) /\ at' = "refused" /\ UNCHANGED believed
    /\ UNCHANGED <<begin, length, cmds, dsock, from, server, done>>

List226 ==
    /\ at = "list226?" /\ at' = "listing"
    /\ \E read \in Pieces : ReadsTo(read)
    /\ UNCHANGED <<begin, length, cmds, dsock, from, server, done, believed>>

\* Mutant: the size goes where the offset is kept.
ReadListing_OverBegin ==
    /\ at = "listing" /\ at' = "valid"
    /\ dsock' = Nothing
    /\ length' \in IF "LIST" \in done THEN {DocLength, begin} ELSE {begin}
    /\ begin' = length'
    /\ UNCHANGED <<cmds, replies, from, server, done, believed>>

\* dsock->Reads, Close, GetLISTSize.  Without a listing it can read, nothing is
\* stored through `size', which points to bsize; size <= 0 tests the pointer.
ReadListing ==
    /\ at = "listing" /\ at' = "valid"
    /\ dsock' = Nothing
    /\ length' \in IF "LIST" \in done THEN {DocLength, begin} ELSE {begin}
    /\ UNCHANGED <<begin, cmds, replies, from, server, done, believed>>

\* RetrData: without a connection Read returns -1.
Receive ==
    /\ at = "receiving" /\ dsock # Nothing /\ from # Nothing /\ from < DocLength
    /\ from' = from + 1
    /\ UNCHANGED <<client, cmds, replies, server, done>>

\* TaskFinish: QUIT, and both sockets are closed.  A session that TaskValid
\* has refused is left without it.
TaskFinish ==
    /\ at = "receiving" /\ at' = "finished"
    /\ cmds' = Append(cmds, "QUIT")
    /\ dsock' = Nothing
    /\ UNCHANGED <<begin, length, replies, from, server, done, believed>>

Login ==
    \/ Send("user", "USER", "user?")
    \/ LoginReads("user?", "USER", "331", "pass")
    \/ Send("pass", "PASS", "pass?")
    \/ LoginReads("pass?", "PASS", "230", "type")

TypeSend == Send("type", "TYPE", "type?") \/ Expects("type?", "TYPE", {"200"}, "pasv", "refused")
RestSend == Send("rest", "REST", "rest?") \/ Expects("rest?", "REST", {"350"}, "retr", "retr")
RetrSend == Send("retr", "RETR", "retr?") \/ Expects("retr?", "RETR", {"150"}, "receiving", "receiving")

PasvSend(first, here, there, otherwise) ==
    Send(first, "PASV", here) \/ PasvReads(here, there, otherwise)

TaskValid ==
    \/ RecvGreeting
    \/ Login
    \/ TypeSend
    \/ PasvSend("pasv", "pasv?", "list", "refused")
    \/ Send("list", "LIST", "list?")
    \/ ListReads
    \/ List226
    \/ ReadListing

PrepairData == PasvSend("valid", "pasv2?", "rest", "rest") \/ RestSend \/ RetrSend

FtpClient == TaskValid \/ PrepairData \/ TaskFinish

FtpNext == Greets \/ Serves \/ FtpClient \/ Receive

FtpSpec == FtpInit /\ [][FtpNext]_fvars
FtpFairness == WF_fvars(FtpClient)

-----------------------------------------------------------------------------
\* A command is taken for carried out only if it has been: though answers may
\* come late, several at once or not at all, and the session ignores some of
\* them, none is taken for the answer to another command.
BelievedIsDone == believed \subseteq done

\* Every session ends: each read returns, with or without an answer.
SessionEnds == <>(at \in {"refused", "finished"})

Phase ==
    IF at \in {"refused", "finished"} THEN at
    ELSE IF at = "receiving" THEN "ready"
    ELSE IF at \in {"valid", "pasv2?", "rest", "rest?", "retr", "retr?"} THEN "valid"
    ELSE "asked"

\* The server has sent a document it could not be made to start at begin.
FromTheStart == "RETR" \in done /\ "REST" \notin done /\ begin # 0

\* A session delivers the document from the offset asked for, unless the
\* server carries out RETR after refusing REST, which PrepairData ignores.
Asked == INSTANCE Retriever WITH
    Offsets <- Begins, phase <- Phase, asked <- begin,
    at <- IF Phase \in {"ready", "finished"} THEN from ELSE Nothing,
    kept <- ~ FromTheStart

FtpRetrieves == Asked!Spec
=============================================================================
