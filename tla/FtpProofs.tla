------------------------------ MODULE FtpProofs ------------------------------
(***************************************************************************)
(* For every document and offset: no answer of an FTP server is taken for  *)
(* the answer to another command, and a session implements Retriever.      *)
(* For every listing of the forms that FtpListParse's comments show, from  *)
(* any year on: size and date are read, days are counted and years guessed *)
(* as the calendar has them (ListingsRead).                                *)
(***************************************************************************)
EXTENDS FtpRetriever, FtpList, SequenceTheorems, TLAPS

-----------------------------------------------------------------------------
(* The inductive invariant. *)

Commands == {"USER", "PASS", "TYPE", "PASV", "LIST", "REST", "RETR", "QUIT"}
Codes ==
    {"220", "331", "230", "200", "227", "150", "125", "350", "221", "226", "5xx", Junk}

Servers ==
    [logged : BOOLEAN, binary : BOOLEAN, passive : Nat, rest : Nat, greeted : BOOLEAN]

FtpTypeOK ==
    /\ begin \in Begins
    /\ cmds \in Seq(Commands) /\ replies \in Seq(Codes)
    /\ from \in Nat \cup {Nothing}
    /\ server \in Servers

BeforeList ==
    {"greeting", "user", "user?", "pass", "pass?", "type", "type?", "pasv", "pasv?", "list"}
AfterList == {"list226?", "listing", "valid", "pasv2?", "rest", "rest?", "retr"}
Preparing == {"valid", "pasv2?", "rest", "rest?", "retr"}
AfterRetr == {"retr?", "receiving", "finished"}

\* A positive answer says that a command it answers is among those carried out.
Means(code, did) ==
    /\ code = "331" => "USER" \in did
    /\ code = "230" => "PASS" \in did
    /\ code = "200" => "TYPE" \in did
    /\ code = "227" => "PASV" \in did
    /\ code = "350" => "REST" \in did
    /\ code \in {"125", "226"} => "LIST" \in did
    /\ code = "150" => "LIST" \in did \/ "RETR" \in did

AnswersMean == \A i \in 1 .. Len(replies) : Means(replies[i], done)

\* LIST is sent once, and carried out before the client goes on.
ListOnce ==
    /\ at \in BeforeList => "LIST" \notin done /\ \A i \in 1 .. Len(cmds) : cmds[i] # "LIST"
    /\ \A i, j \in 1 .. Len(cmds) : cmds[i] = "LIST" /\ cmds[j] = "LIST" => i = j
    /\ "LIST" \in done => \A i \in 1 .. Len(cmds) : cmds[i] # "LIST"
    /\ at \in AfterList \cup AfterRetr => "LIST" \in done

\* RETR is sent once, and only QUIT after it.
RetrOnce ==
    /\ at \notin AfterRetr => "RETR" \notin done /\ \A i \in 1 .. Len(cmds) : cmds[i] # "RETR"
    /\ "RETR" \in done => \A i \in 1 .. Len(cmds) : cmds[i] = "QUIT"
    /\ \A i, j \in 1 .. Len(cmds) : cmds[i] = "RETR" /\ i < j => cmds[j] = "QUIT"

\* The 150 of LIST comes before its 226, and whoever has gone on has read it.
Opens ==
    /\ at = "list?" => \A i, j \in 1 .. Len(replies) :
            replies[i] \in {"125", "150", "226"} /\ replies[j] = "150" => j <= i
    /\ at \in AfterList \cup AfterRetr /\ "RETR" \notin done =>
            \A i \in 1 .. Len(replies) : replies[i] # "150"

\* Where the server begins, and where the data do before they are received.
Starting ==
    /\ server.rest = IF "REST" \in done THEN begin ELSE 0
    /\ "RETR" \notin done => from = Nothing
    /\ "RETR" \in done => from # Nothing
    /\ at = "retr?" /\ "RETR" \in done => from = server.rest
    /\ at = "finished" => dsock = Nothing

FtpInv ==
    /\ FtpTypeOK /\ AnswersMean /\ ListOnce /\ RetrOnce /\ Opens /\ Starting
    /\ BelievedIsDone

-----------------------------------------------------------------------------
(* What a read leaves, and what a reply adds. *)

\* Reads takes a beginning of the replies and leaves the rest in order.
LEMMA ReadTakes ==
    ASSUME replies \in Seq(Codes), NEW read \in Pieces, ReadsTo(read)
    PROVE  /\ replies' \in Seq(Codes)
           /\ \A i \in 1 .. Len(replies') : i + Len(read) \in 1 .. Len(replies) /\ replies'[i] = replies[i + Len(read)]
           /\ \A i \in 1 .. Len(read) : i \in 1 .. Len(replies) /\ read[i] = replies[i]
           /\ Len(read) \in Nat
<1>1. PICK n \in 0 .. Len(replies) : read = SubSeq(replies, 1, n)
  BY DEF Pieces
<1>2. Len(read) = n /\ \A i \in 1 .. n : read[i] = replies[i]
  BY <1>1
<1>3. replies' = SubSeq(replies, n + 1, Len(replies))
  BY <1>2 DEF ReadsTo
<1>4. replies' \in Seq(Codes) /\ Len(replies') = Len(replies) - n
  BY <1>3
<1>5. \A i \in 1 .. Len(replies') : replies'[i] = replies[i + n]
  BY <1>3, <1>4
<1> QED
  BY <1>2, <1>4, <1>5

LEMMA Single ==
    ASSUME NEW S, NEW x \in S
    PROVE  <<x>> \in Seq(S) /\ Len(<<x>>) = 1 /\ <<x>>[1] = x
OBVIOUS

\* The text of a reply, if it comes on its own.
LEMMA TextIsJunk ==
    ASSUME NEW tail \in {<<>>, <<Junk>>}
    PROVE  tail \in Seq(Codes) /\ Len(tail) \in Nat /\ \A i \in 1 .. Len(tail) : tail[i] = Junk
<1>1. CASE tail = <<>>
  BY <1>1
<1>2. CASE tail = <<Junk>>
  <2>1. Junk \in Codes
    BY DEF Codes
  <2> QED
    BY <1>2, <2>1
<1> QED
  BY <1>1, <1>2

\* After a reply there is what was there, and behind it the code or its text.
LEMMA ReplyAdds ==
    ASSUME replies \in Seq(Codes), NEW codes \in SUBSET Codes, Reply(codes)
    PROVE  /\ replies' \in Seq(Codes)
           /\ \A i \in 1 .. Len(replies') :
                 \/ i \in 1 .. Len(replies) /\ replies'[i] = replies[i]
                 \/ i > Len(replies) /\ replies'[i] \in codes \cup {Junk}
<1>1. PICK code \in codes, tail \in {<<>>, <<Junk>>} : replies' = replies \o <<code>> \o tail
  BY DEF Reply
<1>2. tail \in Seq(Codes) /\ Len(tail) \in Nat /\ \A i \in 1 .. Len(tail) : tail[i] = Junk
  BY TextIsJunk
<1>3. code \in Codes /\ <<code>> \in Seq(Codes) /\ Len(<<code>>) = 1 /\ <<code>>[1] = code
  BY Single
<1>4. /\ Len(replies \o <<code>>) = Len(replies) + 1
      /\ replies \o <<code>> \in Seq(Codes)
      /\ \A i \in 1 .. Len(replies) + 1 :
            (replies \o <<code>>)[i] = IF i <= Len(replies) THEN replies[i] ELSE code
  BY <1>3, ConcatProperties
<1>5. /\ replies' \in Seq(Codes) /\ Len(replies') = Len(replies) + 1 + Len(tail)
      /\ \A i \in 1 .. Len(replies') :
            replies'[i] = IF i <= Len(replies) + 1 THEN (replies \o <<code>>)[i]
                          ELSE tail[i - (Len(replies) + 1)]
  BY <1>1, <1>2, <1>3, <1>4, ConcatProperties
<1> QED
  <2>1. Len(replies) \in Nat
    OBVIOUS
  <2> SUFFICES ASSUME NEW i \in 1 .. Len(replies')
               PROVE  \/ i \in 1 .. Len(replies) /\ replies'[i] = replies[i]
                      \/ i > Len(replies) /\ replies'[i] \in codes \cup {Junk}
    BY <1>5
  <2>2. CASE i <= Len(replies)
    BY <1>2, <1>4, <1>5, <2>1, <2>2
  <2>3. CASE i = Len(replies) + 1
    BY <1>2, <1>4, <1>5, <2>1, <2>3
  <2>4. CASE i > Len(replies) + 1
    <3>1. i - (Len(replies) + 1) \in 1 .. Len(tail)
      BY <1>2, <1>5, <2>1, <2>4
    <3> QED
      BY <1>2, <1>5, <2>1, <2>4, <3>1
  <2> QED
    BY <2>1, <2>2, <2>3, <2>4

\* What meant that a command had been carried out still does.
LEMMA MeaningKept ==
    ASSUME NEW code, NEW did, NEW more, Means(code, did), did \subseteq more
    PROVE  Means(code, more)
BY DEF Means

\* LIST is answered by its opening code, perhaps its text, and 226.
LEMMA ListReplyAdds ==
    ASSUME replies \in Seq(Codes), NEW code \in Codes, NEW between \in {<<>>, <<Junk>>},
           replies' = replies \o <<code>> \o between \o <<"226">>
    PROVE  /\ replies' \in Seq(Codes)
           /\ \A i \in 1 .. Len(replies') :
                 \/ i \in 1 .. Len(replies) /\ replies'[i] = replies[i]
                 \/ i = Len(replies) + 1 /\ replies'[i] = code
                 \/ i > Len(replies) + 1 /\ replies'[i] \in {Junk, "226"}
<1> DEFINE rest == between \o <<"226">>
<1>1. /\ <<"226">> \in Seq(Codes) /\ Len(<<"226">>) = 1 /\ <<"226">>[1] = "226"
      /\ between \in Seq(Codes) /\ Len(between) \in Nat
      /\ \A i \in 1 .. Len(between) : between[i] = Junk
  <2>1. "226" \in Codes
    BY DEF Codes
  <2> QED
    BY <2>1, Single, TextIsJunk
<1>2. rest \in Seq(Codes) /\ Len(rest) \in Nat /\ \A i \in 1 .. Len(rest) : rest[i] \in {Junk, "226"}
  <2>1. /\ rest \in Seq(Codes) /\ Len(rest) = Len(between) + 1
        /\ \A i \in 1 .. Len(between) + 1 :
              rest[i] = IF i <= Len(between) THEN between[i] ELSE <<"226">>[i - Len(between)]
    BY <1>1, ConcatProperties
  <2> QED
    BY <1>1, <2>1
<1>3. <<code>> \in Seq(Codes) /\ Len(<<code>>) = 1 /\ <<code>>[1] = code
  BY Single
<1>4. /\ Len(replies \o <<code>>) = Len(replies) + 1
      /\ replies \o <<code>> \in Seq(Codes)
      /\ \A i \in 1 .. Len(replies) + 1 :
            (replies \o <<code>>)[i] = IF i <= Len(replies) THEN replies[i] ELSE code
  BY <1>3, ConcatProperties
<1>5. replies' = (replies \o <<code>>) \o rest
  BY <1>1, <1>4, ConcatAssociative
<1> DEFINE front == replies \o <<code>>
<1> HIDE DEF rest, front
<1>6. /\ replies' \in Seq(Codes) /\ Len(replies') = Len(replies) + 1 + Len(rest)
      /\ \A i \in 1 .. Len(replies') :
            replies'[i] = IF i <= Len(replies) + 1 THEN front[i] ELSE rest[i - (Len(replies) + 1)]
  <2>1. front \in Seq(Codes) /\ Len(front) = Len(replies) + 1 /\ replies' = front \o rest
    BY <1>4, <1>5 DEF front
  <2>2. /\ front \o rest \in Seq(Codes) /\ Len(front \o rest) = Len(front) + Len(rest)
        /\ \A i \in 1 .. Len(front) + Len(rest) :
              (front \o rest)[i] = IF i <= Len(front) THEN front[i] ELSE rest[i - Len(front)]
    BY <1>2, <2>1, ConcatProperties, Zenon
  <2> QED
    BY <2>1, <2>2
<1>7. Len(replies) \in Nat
  OBVIOUS
<1> SUFFICES ASSUME NEW i \in 1 .. Len(replies')
             PROVE  \/ i \in 1 .. Len(replies) /\ replies'[i] = replies[i]
                    \/ i = Len(replies) + 1 /\ replies'[i] = code
                    \/ i > Len(replies) + 1 /\ replies'[i] \in {Junk, "226"}
  BY <1>6
<1>8. CASE i <= Len(replies) + 1
  BY <1>4, <1>6, <1>7, <1>8 DEF front
<1>9. CASE i > Len(replies) + 1
  <2>1. i - (Len(replies) + 1) \in 1 .. Len(rest)
    BY <1>2, <1>6, <1>7, <1>9
  <2> QED
    BY <1>2, <1>6, <1>7, <1>9, <2>1
<1> QED
  BY <1>7, <1>8, <1>9

\* The server takes the first command.
LEMMA TakesFirst ==
    ASSUME cmds \in Seq(Commands), cmds # <<>>, cmds' = Tail(cmds)
    PROVE  /\ cmds' \in Seq(Commands)
           /\ Len(cmds) \in Nat /\ 1 \in 1 .. Len(cmds)
           /\ Head(cmds) = cmds[1] /\ Head(cmds) \in Commands
           /\ \A i \in 1 .. Len(cmds') : i + 1 \in 1 .. Len(cmds) /\ cmds'[i] = cmds[i + 1]
OBVIOUS

\* The client adds a command at the end.
LEMMA SendsLast ==
    ASSUME cmds \in Seq(Commands), NEW cmd \in Commands, cmds' = Append(cmds, cmd)
    PROVE  /\ cmds' \in Seq(Commands)
           /\ Len(cmds) \in Nat
           /\ \A i \in 1 .. Len(cmds') :
                 \/ i \in 1 .. Len(cmds) /\ cmds'[i] = cmds[i]
                 \/ i = Len(cmds) + 1 /\ cmds'[i] = cmd
OBVIOUS

-----------------------------------------------------------------------------
(* Steps of the server. *)

LEMMA GreetsKeeps == ASSUME FtpInv, Greets PROVE FtpInv'
<1> USE DEF FtpInv, FtpTypeOK
<1>1. UNCHANGED <<at, begin, cmds, dsock, from, done, believed>>
  BY DEF Greets, client
<1>2. {"220"} \in SUBSET Codes
  BY DEF Codes
<1>3. /\ replies' \in Seq(Codes)
      /\ \A i \in 1 .. Len(replies') :
            \/ i \in 1 .. Len(replies) /\ replies'[i] = replies[i]
            \/ i > Len(replies) /\ replies'[i] \in {"220", Junk}
  BY <1>2, ReplyAdds DEF Greets
<1>4. FtpTypeOK'
  BY <1>1, <1>3 DEF Greets, Servers
<1>5. AnswersMean'
  BY <1>1, <1>3 DEF AnswersMean, Means, Junk
<1>6. ListOnce' /\ RetrOnce' /\ BelievedIsDone'
  BY <1>1 DEF ListOnce, RetrOnce, BelievedIsDone
<1>7. Opens'
  BY <1>1, <1>3 DEF Opens, Junk
<1>8. Starting'
  BY <1>1 DEF Starting, Greets
<1> QED
  BY <1>4, <1>5, <1>6, <1>7, <1>8

\* A refusal changes nothing but the replies.
LEMMA RefusesKeeps ==
    ASSUME FtpInv, cmds # <<>>, cmds' = Tail(cmds), Reply({"5xx"}),
           UNCHANGED <<from, server, done>>, UNCHANGED client
    PROVE  FtpInv'
<1> USE DEF FtpInv, FtpTypeOK
<1>1. UNCHANGED <<at, begin, dsock, believed>>
  BY DEF client
<1>2. {"5xx"} \in SUBSET Codes
  BY DEF Codes
<1>3. /\ replies' \in Seq(Codes)
      /\ \A i \in 1 .. Len(replies') :
            \/ i \in 1 .. Len(replies) /\ replies'[i] = replies[i]
            \/ i > Len(replies) /\ replies'[i] \in {"5xx", Junk}
  BY <1>2, ReplyAdds
<1>4. FtpTypeOK'
  BY <1>1, <1>3, TakesFirst
<1>5. AnswersMean'
  BY <1>1, <1>3 DEF AnswersMean, Means, Junk
<1>6. ListOnce'
  BY <1>1, TakesFirst DEF ListOnce
<1>7. RetrOnce'
  BY <1>1, TakesFirst DEF RetrOnce
<1>8. Opens'
  BY <1>1, <1>3 DEF Opens, Junk
<1>9. Starting' /\ BelievedIsDone'
  BY <1>1 DEF Starting, BelievedIsDone
<1> QED
  BY <1>4, <1>5, <1>6, <1>7, <1>8, <1>9

\* The positive answers to a command mean what they say once it is done.
LEMMA PositiveMeans ==
    ASSUME NEW c \in Commands, c # "LIST", NEW code \in Positive[c] \cup {Junk},
           NEW did, c \in did
    PROVE  Means(code, did) /\ (code = "150" => c = "RETR") /\ code \notin {"125", "226"}
BY DEF Commands, Positive, Means, Junk

LEMMA PositiveCodes == ASSUME NEW c \in Commands PROVE Positive[c] \in SUBSET Codes
BY DEF Commands, Positive, Codes

LEMMA CarryOutServer ==
    ASSUME server \in Servers, begin \in Nat, NEW c, CarryOut(c)
    PROVE  /\ server' \in Servers
           /\ server'.rest = IF c = "REST" THEN begin ELSE server.rest
<1> DEFINE logged == server.logged \/ c = "PASS"
<1> DEFINE binary == server.binary \/ c = "TYPE"
<1> DEFINE passive == IF c = "PASV" THEN server.passive + 1 ELSE server.passive
<1> DEFINE rest == IF c = "REST" THEN begin ELSE server.rest
<1>1. server' = [server EXCEPT !.logged = logged, !.binary = binary, !.passive = passive, !.rest = rest]
  BY DEF CarryOut
<1>2. logged \in BOOLEAN /\ binary \in BOOLEAN
  OBVIOUS
<1>3. passive \in Nat /\ rest \in Nat
  BY DEF Servers
<1>4. server'.rest = rest
  BY <1>1 DEF Servers
<1> HIDE DEF logged, binary, passive, rest
<1>5. server' \in Servers
  BY <1>1, <1>2, <1>3 DEF Servers
<1> QED
  BY <1>4, <1>5 DEF rest

\* Commands other than LIST and RETR.
LEMMA CarryOutKeeps ==
    ASSUME FtpInv, cmds # <<>>, cmds' = Tail(cmds), CarryOut(Head(cmds)),
           Head(cmds) \notin {"LIST", "RETR"}, UNCHANGED client
    PROVE  FtpInv'
<1> USE DEF FtpInv, FtpTypeOK
<1> DEFINE c == Head(cmds)
<1>1. UNCHANGED <<at, begin, dsock, from, believed>> /\ done' = done \cup {c} /\ Reply(Positive[c])
  BY DEF client, CarryOut
<1>2. /\ cmds' \in Seq(Commands) /\ Len(cmds) \in Nat /\ 1 \in 1 .. Len(cmds)
      /\ c = cmds[1] /\ c \in Commands
      /\ \A i \in 1 .. Len(cmds') : i + 1 \in 1 .. Len(cmds) /\ cmds'[i] = cmds[i + 1]
  BY TakesFirst
<1>3. /\ replies' \in Seq(Codes)
      /\ \A i \in 1 .. Len(replies') :
            \/ i \in 1 .. Len(replies) /\ replies'[i] = replies[i]
            \/ i > Len(replies) /\ replies'[i] \in Positive[c] \cup {Junk}
  BY <1>1, <1>2, ReplyAdds, PositiveCodes
<1>4. /\ server' \in Servers
      /\ server'.rest = IF c = "REST" THEN begin ELSE server.rest
  <2>1. begin \in Nat
    BY FtpAssumption
  <2> QED
    BY <2>1, CarryOutServer
<1> HIDE DEF c
<1>5. FtpTypeOK'
  BY <1>1, <1>2, <1>3, <1>4
<1>6. c # "LIST" /\ c # "RETR"
  BY DEF c
<1>7. AnswersMean'
  <2> SUFFICES ASSUME NEW i \in 1 .. Len(replies') PROVE Means(replies'[i], done')
    BY DEF AnswersMean
  <2>1. CASE i \in 1 .. Len(replies) /\ replies'[i] = replies[i]
    BY <1>1, <2>1, MeaningKept DEF AnswersMean
  <2>2. CASE replies'[i] \in Positive[c] \cup {Junk}
    BY <1>1, <1>2, <1>6, <2>2, PositiveMeans
  <2> QED
    BY <1>3, <2>1, <2>2
<1>8. ListOnce'
  BY <1>1, <1>2, <1>6 DEF ListOnce
<1>9. RetrOnce'
  <2>1. at \notin AfterRetr => "RETR" \notin done' /\ \A i \in 1 .. Len(cmds') : cmds'[i] # "RETR"
    BY <1>1, <1>2, <1>6 DEF RetrOnce
  <2>2. "RETR" \in done' => \A i \in 1 .. Len(cmds') : cmds'[i] = "QUIT"
    BY <1>1, <1>2, <1>6 DEF RetrOnce
  <2>3. \A i, j \in 1 .. Len(cmds') : cmds'[i] = "RETR" /\ i < j => cmds'[j] = "QUIT"
    BY <1>2 DEF RetrOnce
  <2> QED
    BY <1>1, <2>1, <2>2, <2>3 DEF RetrOnce
<1>10. \A i \in 1 .. Len(replies') : i > Len(replies) /\ i \notin 1 .. Len(replies) =>
            replies'[i] \notin {"150", "125", "226"}
  BY <1>1, <1>2, <1>3, <1>6, PositiveMeans DEF Junk
<1>11. Opens'
  <2>1. ASSUME at = "list?", NEW i \in 1 .. Len(replies'), NEW j \in 1 .. Len(replies'),
               replies'[i] \in {"125", "150", "226"}, replies'[j] = "150"
        PROVE  j <= i
    <3>1. i \in 1 .. Len(replies) /\ replies'[i] = replies[i]
      <4>1. Len(replies) \in Nat
        OBVIOUS
      <4>2. i > Len(replies) => i \notin 1 .. Len(replies)
        BY <4>1
      <4>3. i > Len(replies) => replies'[i] \notin {"150", "125", "226"}
        BY <4>2, <1>10, Zenon
      <4>4. ~ (i > Len(replies))
        BY <4>3, <2>1, Zenon
      <4> QED BY <1>3, <4>4, Zenon
    <3>2. j \in 1 .. Len(replies) /\ replies'[j] = replies[j]
      BY <1>3, <1>10, <2>1
    <3> QED
      BY <2>1, <3>1, <3>2 DEF Opens
  <2>2. ASSUME at \in AfterList \cup AfterRetr, "RETR" \notin done', NEW i \in 1 .. Len(replies')
        PROVE  replies'[i] # "150"
    BY <1>1, <1>3, <1>10, <2>2 DEF Opens
  <2> QED
    BY <1>1, <2>1, <2>2 DEF Opens
<1>12. Starting'
  <2>1. c = "REST" => "RETR" \notin done
    BY <1>2 DEF RetrOnce
  <2> QED
    BY <1>1, <1>4, <1>6, <2>1 DEF Starting
<1>13. BelievedIsDone'
  BY <1>1 DEF BelievedIsDone
<1> QED
  BY <1>5, <1>7, <1>8, <1>9, <1>11, <1>12, <1>13

LEMMA CarryOutList ==
    ASSUME FtpInv, cmds # <<>>, cmds' = Tail(cmds), CarryOut(Head(cmds)),
           Head(cmds) = "LIST", UNCHANGED client
    PROVE  FtpInv'
<1> USE DEF FtpInv, FtpTypeOK
<1>1. /\ UNCHANGED <<at, begin, dsock, from, believed>> /\ done' = done \cup {"LIST"}
      /\ server' \in Servers
      /\ server'.rest = server.rest
  <2>1. begin \in Nat
    BY FtpAssumption
  <2> QED
    BY <2>1, CarryOutServer DEF client, CarryOut
<1>2. /\ cmds' \in Seq(Commands) /\ Len(cmds) \in Nat /\ 1 \in 1 .. Len(cmds)
      /\ cmds[1] = "LIST"
      /\ \A i \in 1 .. Len(cmds') : i + 1 \in 1 .. Len(cmds) /\ cmds'[i] = cmds[i + 1]
  BY TakesFirst
<1>3. PICK code \in {"150", "125"} :
         /\ replies' \in Seq(Codes)
         /\ \A i \in 1 .. Len(replies') :
               \/ i \in 1 .. Len(replies) /\ replies'[i] = replies[i]
               \/ i = Len(replies) + 1 /\ replies'[i] = code
               \/ i > Len(replies) + 1 /\ replies'[i] \in {Junk, "226"}
  <2>1. PICK code \in {"150", "125"}, between \in {<<>>, <<Junk>>} :
            replies' = replies \o <<code>> \o between \o <<"226">>
    <3>1. Positive["LIST"] = {"150", "125"}
      BY DEF Positive
    <3> QED
      BY <3>1 DEF CarryOut
  <2>2. code \in Codes
    BY DEF Codes
  <2> QED
    BY <2>1, <2>2, ListReplyAdds
<1>4. "LIST" \notin done /\ "RETR" \notin done /\ Len(replies) \in Nat
  BY <1>2 DEF ListOnce, RetrOnce
<1>5. \A i \in 1 .. Len(replies) : replies[i] \notin {"125", "150", "226"}
  BY <1>4 DEF AnswersMean, Means
<1>6. FtpTypeOK'
  BY <1>1, <1>2, <1>3
<1>7. AnswersMean'
  <2> SUFFICES ASSUME NEW i \in 1 .. Len(replies') PROVE Means(replies'[i], done')
    BY DEF AnswersMean
  <2>1. CASE i \in 1 .. Len(replies) /\ replies'[i] = replies[i]
    BY <1>1, <2>1, MeaningKept DEF AnswersMean
  <2>2. CASE replies'[i] \in {"150", "125", Junk, "226"}
    BY <1>1, <2>2 DEF Means, Junk
  <2> QED
    BY <1>3, <2>1, <2>2
<1>8. ListOnce'
  BY <1>1, <1>2 DEF ListOnce
<1>9. RetrOnce'
  BY <1>1, <1>2 DEF RetrOnce
<1>10. Opens'
  <2>1. at \notin AfterList \cup AfterRetr
    BY <1>4 DEF ListOnce
  <2>2. \A i, j \in 1 .. Len(replies') :
            replies'[i] \in {"125", "150", "226"} /\ replies'[j] = "150" => j <= i
    BY <1>3, <1>4, <1>5 DEF Junk
  <2> QED
    BY <1>1, <2>1, <2>2 DEF Opens
<1>11. Starting' /\ BelievedIsDone'
  BY <1>1 DEF Starting, BelievedIsDone
<1> QED
  BY <1>6, <1>7, <1>8, <1>9, <1>10, <1>11

LEMMA CarryOutRetr ==
    ASSUME FtpInv, cmds # <<>>, cmds' = Tail(cmds), CarryOut(Head(cmds)),
           Head(cmds) = "RETR", UNCHANGED client
    PROVE  FtpInv' /\ at \in AfterRetr /\ at # "finished" /\ "RETR" \notin done /\ from' = server.rest
<1> USE DEF FtpInv, FtpTypeOK
<1>1. /\ UNCHANGED <<at, begin, dsock, believed>> /\ done' = done \cup {"RETR"} /\ Reply({"150"})
      /\ server' \in Servers
      /\ server'.rest = server.rest /\ from' = server.rest /\ Connected
  <2>1. begin \in Nat
    BY FtpAssumption
  <2>2. Positive["RETR"] = {"150"}
    BY DEF Positive
  <2> QED
    BY <2>1, <2>2, CarryOutServer DEF client, CarryOut
<1>2. /\ cmds' \in Seq(Commands) /\ Len(cmds) \in Nat /\ 1 \in 1 .. Len(cmds)
      /\ cmds[1] = "RETR"
      /\ \A i \in 1 .. Len(cmds') : i + 1 \in 1 .. Len(cmds) /\ cmds'[i] = cmds[i + 1]
  BY TakesFirst
<1>3. /\ replies' \in Seq(Codes)
      /\ \A i \in 1 .. Len(replies') :
            \/ i \in 1 .. Len(replies) /\ replies'[i] = replies[i]
            \/ i > Len(replies) /\ replies'[i] \in {"150", Junk}
  <2>1. {"150"} \in SUBSET Codes
    BY DEF Codes
  <2> QED
    BY <1>1, <2>1, ReplyAdds
<1>4. at \in AfterRetr /\ "RETR" \notin done /\ "LIST" \in done
  BY <1>2 DEF RetrOnce, ListOnce
<1>5. FtpTypeOK'
  BY <1>1, <1>2, <1>3 DEF Servers
<1>6. AnswersMean'
  BY <1>1, <1>3, <1>4 DEF AnswersMean, Means, Junk
<1>7. ListOnce'
  BY <1>1, <1>2, <1>4 DEF ListOnce
<1>8. RetrOnce'
  <2>1. \A i \in 1 .. Len(cmds') : cmds'[i] = "QUIT"
    BY <1>2 DEF RetrOnce
  <2> QED
    BY <1>1, <1>4, <2>1 DEF RetrOnce
<1>9. Opens'
  BY <1>1, <1>4 DEF Opens, AfterRetr
<1>10. Starting'
  BY <1>1, <1>4, FtpAssumption DEF Starting
<1>11. BelievedIsDone'
  BY <1>1 DEF BelievedIsDone
<1>12. at # "finished"
  BY <1>1, FtpAssumption DEF Connected, Starting, Servers
<1> QED
  BY <1>1, <1>4, <1>5, <1>6, <1>7, <1>8, <1>9, <1>10, <1>11, <1>12

-----------------------------------------------------------------------------
(* Steps of the client. *)

\* Where a read may lead.
Onward(read) ==
    \/ at \in BeforeList /\ at' \in BeforeList \cup {"refused"}
    \/ at = "list?" /\ at' = "refused"
    \/ at = "list?" /\ at' \in AfterList /\ Has(read, {"150", "125", "226"})
    \/ at \in AfterList /\ at' \in AfterList /\ (at \in Preparing => at' \in Preparing)
    \/ at = "retr?" /\ at' = "receiving"

LEMMA ReadKeeps ==
    ASSUME FtpInv, NEW read \in Pieces, ReadsTo(read), Onward(read),
           UNCHANGED <<begin, cmds, from, server, done>>, believed' \subseteq done
    PROVE  FtpInv'
<1> USE DEF FtpInv, FtpTypeOK
<1>1. /\ replies' \in Seq(Codes)
      /\ \A i \in 1 .. Len(replies') : i + Len(read) \in 1 .. Len(replies) /\ replies'[i] = replies[i + Len(read)]
      /\ \A i \in 1 .. Len(read) : i \in 1 .. Len(replies) /\ read[i] = replies[i]
      /\ Len(read) \in Nat
  BY ReadTakes
<1>2. FtpTypeOK'
  BY <1>1
<1>3. AnswersMean'
  BY <1>1 DEF AnswersMean
<1>4. at = "list?" /\ at' \in AfterList =>
          /\ "LIST" \in done
          /\ \A i \in 1 .. Len(replies') : replies'[i] # "150"
  <2> SUFFICES ASSUME at = "list?", at' \in AfterList
               PROVE  /\ "LIST" \in done
                      /\ \A i \in 1 .. Len(replies') : replies'[i] # "150"
    OBVIOUS
  <2>1. PICK n \in 1 .. Len(read) : replies[n] \in {"150", "125", "226"} /\ n \in 1 .. Len(replies)
    BY <1>1 DEF Onward, Has, BeforeList, AfterList
  <2>2. "RETR" \notin done
    BY DEF RetrOnce, AfterRetr
  <2>3. "LIST" \in done
    BY <2>1, <2>2 DEF AnswersMean, Means
  <2>4. ASSUME NEW i \in 1 .. Len(replies'), replies'[i] = "150" PROVE FALSE
    <3>1. i + Len(read) \in 1 .. Len(replies) /\ replies[i + Len(read)] = "150"
      BY <1>1, <2>4
    <3>2. i + Len(read) <= n
      BY <2>1, <3>1 DEF Opens
    <3> QED
      BY <1>1, <3>2
  <2> QED
    BY <2>3, <2>4
<1>5. ListOnce'
  BY <1>4 DEF ListOnce, Onward, BeforeList, AfterList, AfterRetr
<1>6. RetrOnce'
  BY DEF RetrOnce, Onward, BeforeList, AfterList, AfterRetr
<1>7. Opens'
  BY <1>1, <1>4 DEF Opens, Onward, BeforeList, AfterList, AfterRetr
<1>8. Starting'
  BY DEF Starting, Onward, BeforeList, AfterList, AfterRetr
<1>9. BelievedIsDone'
  BY DEF BelievedIsDone
<1> QED
  BY <1>2, <1>3, <1>5, <1>6, <1>7, <1>8, <1>9

\* Which command may be sent where.
Sends(cmd) ==
    \/ cmd \notin {"LIST", "RETR"} /\ at \in BeforeList /\ at' \in BeforeList
    \/ cmd = "LIST" /\ at = "list" /\ at' = "list?"
    \/ cmd \notin {"LIST", "RETR"} /\ at \in Preparing /\ at' \in Preparing
    \/ cmd = "RETR" /\ at = "retr" /\ at' = "retr?"
    \/ cmd = "QUIT" /\ at = "receiving" /\ at' = "finished" /\ dsock' = Nothing

LEMMA SendKeeps ==
    ASSUME FtpInv, NEW cmd \in Commands, cmds' = Append(cmds, cmd), Sends(cmd),
           UNCHANGED <<begin, replies, from, server, done, believed>>
    PROVE  FtpInv'
<1> USE DEF FtpInv, FtpTypeOK
<1>1. /\ cmds' \in Seq(Commands)
      /\ Len(cmds) \in Nat
      /\ \A i \in 1 .. Len(cmds') :
            \/ i \in 1 .. Len(cmds) /\ cmds'[i] = cmds[i]
            \/ i = Len(cmds) + 1 /\ cmds'[i] = cmd
  BY SendsLast
<1>2. FtpTypeOK' /\ AnswersMean' /\ BelievedIsDone'
  BY <1>1 DEF AnswersMean, BelievedIsDone
<1>3. ListOnce'
  BY <1>1 DEF ListOnce, Sends, BeforeList, AfterList, Preparing, AfterRetr
<1>4. RetrOnce'
  <2>1. cmd # "QUIT" => "RETR" \notin done /\ \A i \in 1 .. Len(cmds) : cmds[i] # "RETR"
    BY DEF RetrOnce, Sends, BeforeList, AfterList, Preparing, AfterRetr
  <2>2. at' \notin AfterRetr => "RETR" \notin done /\ \A i \in 1 .. Len(cmds') : cmds'[i] # "RETR"
    BY <1>1 DEF RetrOnce, Sends, BeforeList, AfterList, Preparing, AfterRetr
  <2>3. "RETR" \in done => \A i \in 1 .. Len(cmds') : cmds'[i] = "QUIT"
    BY <1>1, <2>1 DEF RetrOnce
  <2>4. \A i, j \in 1 .. Len(cmds') : cmds'[i] = "RETR" /\ i < j => cmds'[j] = "QUIT"
    BY <1>1, <2>1 DEF RetrOnce
  <2> QED
    BY <2>2, <2>3, <2>4 DEF RetrOnce
<1>5. Opens'
  <2>1. at = "list" => \A i \in 1 .. Len(replies) : replies[i] \notin {"150", "125", "226"}
    BY DEF ListOnce, RetrOnce, AnswersMean, Means, BeforeList, AfterRetr
  <2> QED
    BY <2>1 DEF Opens, Sends, BeforeList, AfterList, Preparing, AfterRetr
<1>6. Starting'
  BY DEF Starting, RetrOnce, Sends, BeforeList, AfterList, Preparing, AfterRetr
<1> QED
  BY <1>2, <1>3, <1>4, <1>5, <1>6

-----------------------------------------------------------------------------
(* Every step, and what it is for the interface. *)

\* An answer that is believed means that its command has been carried out.
LEMMA BelievesRightly ==
    ASSUME FtpInv, NEW read \in Pieces, ReadsTo(read), NEW codes \in SUBSET Codes, Has(read, codes),
           NEW cmd, \A code \in codes : Means(code, done) => cmd \in done
    PROVE  cmd \in done
<1>1. PICK i \in 1 .. Len(read) : read[i] \in codes
  BY DEF Has
<1>2. i \in 1 .. Len(replies) /\ read[i] = replies[i]
  BY <1>1, ReadTakes DEF FtpInv, FtpTypeOK
<1>3. Means(read[i], done)
  BY <1>2 DEF FtpInv, AnswersMean
<1> QED
  BY <1>1, <1>3

\* A read of the client that changes nothing else.
Reads(read) ==
    /\ read \in Pieces /\ ReadsTo(read) /\ Onward(read)
    /\ UNCHANGED <<begin, cmds, from, server, done>> /\ believed' \subseteq done

LEMMA LoginReading ==
    ASSUME FtpInv, NEW here, NEW cmd, NEW code, NEW there, LoginReads(here, cmd, code, there),
           <<here, cmd, code, there>> \in
               {<<"user?", "USER", "331", "pass">>, <<"pass?", "PASS", "230", "type">>}
    PROVE  \E read : Reads(read)
<1>1. PICK read \in Pieces :
          /\ ReadsTo(read)
          /\ \/ read = <<>> /\ at' = "refused" /\ UNCHANGED believed
             \/ Has(read, {code}) /\ Take(cmd, there)
             \/ read # <<>> /\ ~ Has(read, {code}) /\ UNCHANGED <<at, believed>>
  BY DEF LoginReads
<1>2. at = here /\ UNCHANGED <<begin, cmds, from, server, done>>
  BY DEF LoginReads
<1>3. Onward(read)
  BY <1>1, <1>2 DEF Onward, Take, BeforeList
<1>4. code \in Codes /\ (Means(code, done) => cmd \in done)
  BY DEF Codes, Means
<1>5. Has(read, {code}) => cmd \in done
  BY <1>1, <1>4, BelievesRightly
<1>6. believed' \subseteq done
  BY <1>1, <1>5 DEF Take, FtpInv, BelievedIsDone
<1> QED
  BY <1>1, <1>2, <1>3, <1>6 DEF Reads

LEMMA ExpectsReading ==
    ASSUME FtpInv, NEW here, NEW cmd, NEW code, NEW there, NEW otherwise,
           Expects(here, cmd, {code}, there, otherwise),
           <<here, cmd, code, there, otherwise>> \in
               {<<"type?", "TYPE", "200", "pasv", "refused">>, <<"rest?", "REST", "350", "retr", "retr">>,
                <<"retr?", "RETR", "150", "receiving", "receiving">>}
    PROVE  \E read : Reads(read)
<1>1. PICK read \in Pieces :
          /\ ReadsTo(read)
          /\ IF Has(read, {code}) THEN Take(cmd, there) ELSE at' = otherwise /\ UNCHANGED believed
  BY DEF Expects
<1>2. at = here /\ UNCHANGED <<begin, cmds, from, server, done>>
  BY DEF Expects
<1>3. Onward(read)
  BY <1>1, <1>2 DEF Onward, Take, BeforeList, AfterList, Preparing
<1>4. code \in Codes
  BY DEF Codes
<1>5. Has(read, {code}) => cmd \in done
  <2>1. CASE cmd # "RETR"
    <3>1. Means(code, done) => cmd \in done
      BY <2>1 DEF Means
    <3> QED
      BY <1>1, <1>4, <3>1, BelievesRightly
  <2>2. CASE cmd = "RETR"
    <3>1. at = "retr?" /\ code = "150"
      BY <1>2, <2>2
    <3> SUFFICES ASSUME Has(read, {code}) PROVE "RETR" \in done
      BY <2>2
    <3>2. PICK i \in 1 .. Len(read) : read[i] = "150"
      BY <3>1 DEF Has
    <3>3. i \in 1 .. Len(replies) /\ replies[i] = "150"
      BY <1>1, <3>2, ReadTakes DEF FtpInv, FtpTypeOK
    <3> QED
      BY <3>1, <3>3 DEF FtpInv, Opens, AfterRetr
  <2> QED
    BY <2>1, <2>2
<1>6. believed' \subseteq done
  BY <1>1, <1>5 DEF Take, FtpInv, BelievedIsDone
<1> QED
  BY <1>1, <1>2, <1>3, <1>6 DEF Reads

LEMMA PasvReading ==
    ASSUME FtpInv, NEW here, NEW there, NEW otherwise, PasvReads(here, there, otherwise),
           <<here, there, otherwise>> \in {<<"pasv?", "list", "refused">>, <<"pasv2?", "rest", "rest">>}
    PROVE  \E read : Reads(read)
<1>1. PICK read \in Pieces :
          /\ ReadsTo(read)
          /\ IF ~ Has(read, {"227"}) THEN at' = otherwise /\ UNCHANGED <<dsock, believed>>
             ELSE \/ Head(read) = "227" /\ Take("PASV", there) /\ dsock' = server.passive
                  \/ at' = otherwise /\ UNCHANGED <<dsock, believed>>
  BY DEF PasvReads
<1>2. at = here /\ UNCHANGED <<begin, cmds, from, server, done>>
  BY DEF PasvReads
<1>3. Onward(read)
  BY <1>1, <1>2 DEF Onward, Take, BeforeList, AfterList, Preparing
<1>4. "227" \in Codes /\ (Means("227", done) => "PASV" \in done)
  BY DEF Codes, Means
<1>5. Has(read, {"227"}) => "PASV" \in done
  BY <1>1, <1>4, BelievesRightly
<1>6. believed' \subseteq done
  BY <1>1, <1>5 DEF Take, FtpInv, BelievedIsDone
<1> QED
  BY <1>1, <1>2, <1>3, <1>6 DEF Reads

LEMMA ListReading == ASSUME FtpInv, ListReads PROVE \E read : Reads(read)
<1>1. PICK read \in Pieces :
          /\ ReadsTo(read)
          /\ \/ Has(read, {"226"}) /\ Take("LIST", "listing")
             \/ ~ Has(read, {"226"}) /\ Has(read, {"150", "125"}) /\ Take("LIST", "list226?")
             \/ ~ Has(read, {"150", "125", "226"}) /\ at' = "refused" /\ UNCHANGED believed
  BY DEF ListReads
<1>2. at = "list?" /\ UNCHANGED <<begin, cmds, from, server, done>>
  BY DEF ListReads
<1>3. Onward(read)
  BY <1>1, <1>2 DEF Onward, Take, AfterList, Preparing, Has
<1>4. {"150", "125", "226"} \in SUBSET Codes /\ "RETR" \notin done
  BY <1>2 DEF Codes, FtpInv, RetrOnce, AfterRetr
<1>5. \A code \in {"150", "125", "226"} : Means(code, done) => "LIST" \in done
  BY <1>4 DEF Means
<1>6. Has(read, {"150", "125", "226"}) => "LIST" \in done
  BY <1>1, <1>4, <1>5, BelievesRightly
<1>7. believed' \subseteq done
  BY <1>1, <1>6 DEF Take, FtpInv, BelievedIsDone, Has
<1> QED
  BY <1>1, <1>2, <1>3, <1>7 DEF Reads

\* A command sent.
Sent(cmd) ==
    /\ cmd \in Commands /\ cmds' = Append(cmds, cmd) /\ Sends(cmd)
    /\ UNCHANGED <<begin, replies, from, server, done, believed>>

\* Every step of the client sends a command, reads replies or reads the listing.
LEMMA ClientStep ==
    ASSUME FtpInv, FtpClient
    PROVE  (\E read : Reads(read)) \/ (\E cmd : Sent(cmd)) \/ ReadListing
<1>1. CASE RecvGreeting
  <2>1. PICK read \in Pieces : ReadsTo(read)
    BY <1>1 DEF RecvGreeting
  <2>2. Reads(read)
    BY <1>1, <2>1 DEF RecvGreeting, Reads, Onward, BeforeList, FtpInv, BelievedIsDone
  <2> QED
    BY <2>2
<1>2. CASE List226
  <2>1. PICK read \in Pieces : ReadsTo(read)
    BY <1>2 DEF List226
  <2>2. Reads(read)
    BY <1>2, <2>1 DEF List226, Reads, Onward, AfterList, Preparing, FtpInv, BelievedIsDone
  <2> QED
    BY <2>2
<1>3. CASE LoginReads("user?", "USER", "331", "pass") \/ LoginReads("pass?", "PASS", "230", "type")
  BY <1>3, LoginReading
<1>4. CASE \/ Expects("type?", "TYPE", {"200"}, "pasv", "refused")
           \/ Expects("rest?", "REST", {"350"}, "retr", "retr")
           \/ Expects("retr?", "RETR", {"150"}, "receiving", "receiving")
  BY <1>4, ExpectsReading
<1>5. CASE PasvReads("pasv?", "list", "refused") \/ PasvReads("pasv2?", "rest", "rest")
  BY <1>5, PasvReading
<1>6. CASE ListReads
  BY <1>6, ListReading
<1>7. CASE Send("user", "USER", "user?") \/ Send("pass", "PASS", "pass?") \/ Send("type", "TYPE", "type?")
  <2>1. Sent("USER") \/ Sent("PASS") \/ Sent("TYPE")
    BY <1>7 DEF Send, Sent, Sends, Commands, BeforeList
  <2> QED
    BY <2>1
<1>8. CASE Send("pasv", "PASV", "pasv?") \/ Send("valid", "PASV", "pasv2?")
  <2>1. Sent("PASV")
    BY <1>8 DEF Send, Sent, Sends, Commands, BeforeList, Preparing
  <2> QED
    BY <2>1
<1>9. CASE Send("list", "LIST", "list?") \/ Send("rest", "REST", "rest?") \/ Send("retr", "RETR", "retr?")
  <2>1. Sent("LIST") \/ Sent("REST") \/ Sent("RETR")
    BY <1>9 DEF Send, Sent, Sends, Commands, Preparing
  <2> QED
    BY <2>1
<1>10. CASE TaskFinish
  <2>1. Sent("QUIT")
    BY <1>10 DEF TaskFinish, Sent, Sends, Commands
  <2> QED
    BY <2>1
<1> QED
  BY <1>1, <1>2, <1>3, <1>4, <1>5, <1>6, <1>7, <1>8, <1>9, <1>10
  DEF FtpClient, TaskValid, PrepairData, Login, TypeSend, RestSend, RetrSend, PasvSend

LEMMA ListingKeeps == ASSUME FtpInv, ReadListing PROVE FtpInv'
BY DEF ReadListing, FtpInv, FtpTypeOK, AnswersMean, ListOnce, RetrOnce, Opens, Starting,
   BelievedIsDone, BeforeList, AfterList, AfterRetr

LEMMA ReceiveKeeps == ASSUME FtpInv, Receive PROVE FtpInv'
<1>1. from \in Nat /\ from' = from + 1 /\ at = "receiving" /\ from # Nothing
  BY DEF Receive, FtpInv, FtpTypeOK
<1>2. UNCHANGED <<at, begin, dsock, cmds, replies, server, done, believed>>
  BY DEF Receive, client
<1>3. from' \in Nat /\ from' # Nothing
  BY <1>1, FtpAssumption
<1> QED
  BY <1>1, <1>2, <1>3 DEF FtpInv, FtpTypeOK, AnswersMean, ListOnce, RetrOnce, Opens, Starting,
     BelievedIsDone

\* The invariant holds at first and is kept by every step.
LEMMA Initially == FtpInit => FtpInv
BY DEF FtpInit, FtpInv, FtpTypeOK, Servers, AnswersMean, ListOnce, RetrOnce, Opens, Starting,
   BelievedIsDone, BeforeList, AfterList, AfterRetr

LEMMA Inductive == FtpInv /\ [FtpNext]_fvars => FtpInv'
<1> SUFFICES ASSUME FtpInv, [FtpNext]_fvars PROVE FtpInv'
  OBVIOUS
<1>1. CASE Greets
  BY <1>1, GreetsKeeps
<1>2. CASE Serves
  <2>1. cmds # <<>> /\ cmds' = Tail(cmds) /\ UNCHANGED client
    BY <1>2 DEF Serves
  <2>2. CASE Reply({"5xx"}) /\ UNCHANGED <<from, server, done>>
    BY <2>1, <2>2, RefusesKeeps
  <2>3. CASE CarryOut(Head(cmds))
    BY <2>1, <2>3, CarryOutKeeps, CarryOutList, CarryOutRetr
  <2> QED
    BY <1>2, <2>2, <2>3 DEF Serves
<1>3. CASE FtpClient
  <2>1. CASE \E read : Reads(read)
    BY <2>1, ReadKeeps DEF Reads
  <2>2. CASE \E cmd : Sent(cmd)
    BY <2>2, SendKeeps DEF Sent
  <2>3. CASE ReadListing
    BY <2>3, ListingKeeps
  <2> QED
    BY <1>3, <2>1, <2>2, <2>3, ClientStep
<1>4. CASE Receive
  BY <1>4, ReceiveKeeps
<1>5. CASE UNCHANGED fvars
  BY <1>5 DEF fvars, FtpInv, FtpTypeOK, AnswersMean, ListOnce, RetrOnce, Opens, Starting, BelievedIsDone
<1> QED
  BY <1>1, <1>2, <1>3, <1>4, <1>5 DEF FtpNext

LEMMA Invariance == FtpSpec => []FtpInv
BY Initially, Inductive, PTL DEF FtpSpec

\* No answer of the server is taken for the answer to another command.
THEOREM NoMisreading == FtpSpec => []BelievedIsDone
<1>1. FtpInv => BelievedIsDone
  BY DEF FtpInv
<1> QED
  BY <1>1, Invariance, PTL

-----------------------------------------------------------------------------
(* The refinement. *)

Kept == ~ FromTheStart
Delivers == IF Phase \in {"ready", "finished"} THEN from ELSE Nothing

\* Before RETR nothing has been promised, and nothing sent.
LEMMA NothingYet ==
    ASSUME FtpInv, "RETR" \notin done
    PROVE  Kept /\ from = Nothing /\ Delivers = Nothing
BY DEF FtpInv, Starting, Kept, FromTheStart, Delivers

LEMMA ServesMaps == ASSUME FtpInv, Serves PROVE [Asked!Next]_Asked!rvars
<1>1. /\ cmds # <<>> /\ cmds' = Tail(cmds) /\ UNCHANGED client
      /\ CarryOut(Head(cmds)) \/ UNCHANGED <<from, server, done>>
  BY DEF Serves
<1>2. UNCHANGED <<at, begin>> /\ Phase' = Phase
  BY <1>1 DEF client, Phase
<1>3. CASE UNCHANGED <<from, done>>
  BY <1>2, <1>3 DEF Asked!rvars, FromTheStart
<1>4. CASE CarryOut(Head(cmds)) /\ Head(cmds) # "RETR"
  <2>1. from' = from /\ done' = done \cup {Head(cmds)}
    BY <1>4 DEF CarryOut
  <2>2. "RETR" \in done => Head(cmds) = "QUIT"
    BY <1>1, TakesFirst DEF FtpInv, FtpTypeOK, RetrOnce
  <2>3. FromTheStart' = FromTheStart
    BY <1>2, <1>4, <2>1, <2>2 DEF FromTheStart
  <2> QED
    BY <1>2, <2>1, <2>3 DEF Asked!rvars
<1>5. CASE CarryOut(Head(cmds)) /\ Head(cmds) = "RETR"
  <2>1. at \in {"retr?", "receiving"} /\ "RETR" \notin done /\ from' = server.rest
    BY <1>1, <1>5, CarryOutRetr DEF AfterRetr
  <2>2. done' = done \cup {"RETR"}
    BY <1>5 DEF CarryOut
  <2>3. from = Nothing /\ ~ FromTheStart
    BY <2>1, NothingYet DEF Kept
  <2>4. from' \in Int /\ (~ FromTheStart' => from' = begin)
    BY <1>2, <2>1, <2>2, FtpAssumption DEF FromTheStart, FtpInv, FtpTypeOK, Starting, Servers
  <2>5. CASE at = "retr?"
    BY <1>2, <2>3, <2>5 DEF Asked!Next, Asked!Worsens, Asked!Breaks, Phase
  <2>6. CASE at = "receiving"
    BY <1>2, <2>3, <2>4, <2>6 DEF Asked!Next, Asked!Starts, Asked!Data, Asked!Breaks, Phase
  <2> QED
    BY <2>1, <2>5, <2>6
<1> QED
  BY <1>1, <1>3, <1>4, <1>5

LEMMA ClientMaps == ASSUME FtpInv, FtpClient PROVE [Asked!Next]_Asked!rvars
<1>1. CASE \E read : Reads(read)
  <2>1. PICK read : Onward(read) /\ UNCHANGED <<begin, from, server, done>>
    BY <1>1 DEF Reads
  <2>2. FromTheStart' = FromTheStart
    BY <2>1 DEF FromTheStart
  <2>3. CASE at \in BeforeList \cup {"list?"}
    BY <2>1, <2>2, <2>3
    DEF Onward, BeforeList, AfterList, Preparing, Phase, Asked!Next, Asked!Fails, Asked!Valid, Asked!Breaks, Asked!rvars
  <2>4. CASE at \in AfterList
    BY <2>1, <2>2, <2>4
    DEF Onward, BeforeList, AfterList, Preparing, Phase, Asked!Next, Asked!Valid, Asked!Breaks, Asked!rvars
  <2>5. CASE at = "retr?"
    <3>1. at' = "receiving"
      BY <2>1, <2>5 DEF Onward, BeforeList, AfterList
    <3>2. Phase = "valid" /\ Phase' = "ready"
      BY <2>5, <3>1 DEF Phase
    <3>3. CASE "RETR" \notin done
      BY <2>1, <2>2, <3>2, <3>3, NothingYet DEF Asked!Next, Asked!Ready
    <3>4. CASE "RETR" \in done
      <4>1. from \in Int /\ (~ FromTheStart => from = begin)
        BY <2>5, <3>4, FtpAssumption DEF FromTheStart, FtpInv, FtpTypeOK, Starting, Servers
      <4> QED
        BY <2>1, <2>2, <3>2, <4>1 DEF Asked!Next, Asked!Ready, Asked!Data, Asked!Breaks
    <3> QED
      BY <3>3, <3>4
  <2> QED
    BY <2>1, <2>3, <2>4, <2>5 DEF Onward
<1>2. CASE \E cmd : Sent(cmd)
  <2>1. PICK cmd : Sends(cmd) /\ UNCHANGED <<begin, from, server, done>>
    BY <1>2 DEF Sent
  <2>2. FromTheStart' = FromTheStart
    BY <2>1 DEF FromTheStart
  <2>3. CASE at = "receiving"
    BY <2>1, <2>2, <2>3 DEF Sends, BeforeList, Preparing, Phase, Asked!Next, Asked!Finish
  <2>4. CASE at # "receiving"
    BY <2>1, <2>2, <2>4
    DEF Sends, BeforeList, Preparing, Phase, Asked!Next, Asked!Valid, Asked!Breaks, Asked!rvars
  <2> QED
    BY <2>3, <2>4
<1>3. CASE ReadListing
  BY <1>3 DEF ReadListing, FromTheStart, Phase, Asked!Next, Asked!Valid, Asked!Breaks
<1> QED
  BY <1>1, <1>2, <1>3, ClientStep

LEMMA ReceiveMaps == ASSUME FtpInv, Receive PROVE [Asked!Next]_Asked!rvars
BY DEF Receive, client, FromTheStart, Phase, Asked!Next, Asked!Receive

LEMMA GreetsMaps == ASSUME Greets PROVE [Asked!Next]_Asked!rvars
BY DEF Greets, client, FromTheStart, Phase, Asked!rvars

\* A session delivers the document from the offset asked for, as every
\* retriever is to do, unless the server refuses REST and carries out RETR.
THEOREM ImplementsRetriever == FtpSpec => FtpRetrieves
<1>1. FtpInit => Asked!Init
  BY DEF FtpInit, Asked!Init, Phase, FromTheStart
<1>2. FtpInv /\ [FtpNext]_fvars => [Asked!Next]_Asked!rvars
  <2> SUFFICES ASSUME FtpInv, [FtpNext]_fvars PROVE [Asked!Next]_Asked!rvars
    OBVIOUS
  <2>1. CASE UNCHANGED fvars
    BY <2>1 DEF fvars, FromTheStart, Phase, Asked!rvars
  <2> QED
    BY <2>1, GreetsMaps, ServesMaps, ClientMaps, ReceiveMaps DEF FtpNext
<1> QED
  BY <1>1, <1>2, Invariance, PTL DEF FtpSpec, FtpRetrieves, Asked!Spec

-----------------------------------------------------------------------------
(* The calendar. *)

\* The number of the first of March, from which totai counts.
March(y) == 365 * y + y \div 4 - y \div 100 + y \div 400 + 11017 - 5 * 146097

\* How many days after the first of March, in a year that begins with it.
FromMarch(mon, day) ==
    ((day - 1) * 10 + 5 + 306 * (IF mon >= 2 THEN mon - 2 ELSE mon + 10)) \div 10

\* What the divisions of totai make of a year.
Divided(y, a, b, c, e) ==
    /\ y = 400 * a + 100 * b + 4 * c + e
    /\ y % 4 = e /\ y \div 4 = 100 * a + 25 * b + c
    /\ (100 * a + 25 * b + c) % 25 = c /\ (100 * a + 25 * b + c) \div 25 = 4 * a + b
    /\ (4 * a + b) % 4 = b /\ (4 * a + b) \div 4 = a
    /\ Leap(y + 1) <=> e = 3 /\ (c # 24 \/ b = 3)
    /\ March(y) = 365 * e + 1461 * c + 36524 * b + 146097 * (a - 5) + 11017

\* A year begins on a day that has a number.
LEMMA MarchIsInt == ASSUME NEW y \in Int PROVE March(y) \in Int
  BY DEF March

\* Every year is some 400 years, centuries, four years and years: the divisions
\* of totai and currentyear take it apart without a rest.
LEMMA YearDivided ==
    ASSUME NEW y \in Int
    PROVE  \E a \in Int, b \in 0 .. 3, c \in 0 .. 24, e \in 0 .. 3 : Divided(y, a, b, c, e)
<1> DEFINE a == y \div 400
           b == (y % 400) \div 100
           c == (y % 100) \div 4
           e == y % 4
<1>1. a \in Int /\ b \in 0 .. 3 /\ c \in 0 .. 24 /\ e \in 0 .. 3
  OBVIOUS
<1>2. y = 400 * a + 100 * b + 4 * c + e
  OBVIOUS
<1> HIDE DEF a, b, c, e
<1>3. y % 4 = e /\ y \div 4 = 100 * a + 25 * b + c
  BY <1>1, <1>2
<1>4. (100 * a + 25 * b + c) % 25 = c /\ (100 * a + 25 * b + c) \div 25 = 4 * a + b
  BY <1>1
<1>5. (4 * a + b) % 4 = b /\ (4 * a + b) \div 4 = a
  BY <1>1
<1>6. y \div 100 = 4 * a + b /\ y \div 400 = a
  BY <1>1, <1>2
<1>7. Leap(y + 1) <=> e = 3 /\ (c # 24 \/ b = 3)
  BY <1>1, <1>2 DEF Leap
<1>8. March(y) = 365 * e + 1461 * c + 36524 * b + 146097 * (a - 5) + 11017
  BY <1>1, <1>2, <1>3, <1>6 DEF March
<1>9. Divided(y, a, b, c, e)
  BY <1>2, <1>3, <1>4, <1>5, <1>7, <1>8 DEF Divided
<1> QED BY <1>1, <1>9

\* The year, beginning in March, of a month.
MarchOf(year, mon) == IF mon >= 2 THEN year ELSE year - 1

\* totai counts from the first of March of the year that the date belongs to.
LEMMA DayNumber ==
    ASSUME NEW year \in Int, NEW mon \in 0 .. 11, NEW day \in 1 .. 31,
           FromMarch(mon, day) \in Int /\ 0 <= FromMarch(mon, day) /\ FromMarch(mon, day) <= 365,
           FromMarch(mon, day) = 365 => Leap(MarchOf(year, mon) + 1)
    PROVE  totai(year, mon, day) = March(MarchOf(year, mon)) + FromMarch(mon, day)
<1> DEFINE y == MarchOf(year, mon)
           d == FromMarch(mon, day)
<1>0. PICK a \in Int, b \in 0 .. 3, c \in 0 .. 24, e \in 0 .. 3 : Divided(y, a, b, c, e)
  <2>1. MarchOf(year, mon) \in Int
    BY DEF MarchOf
  <2> QED BY <2>1, YearDivided
<1>1. /\ y % 4 = e /\ y \div 4 = 100 * a + 25 * b + c
      /\ Leap(y + 1) <=> e = 3 /\ (c # 24 \/ b = 3)
      /\ March(y) = 365 * e + 1461 * c + 36524 * b + 146097 * (a - 5) + 11017
      /\ (100 * a + 25 * b + c) % 25 = c /\ (100 * a + 25 * b + c) \div 25 = 4 * a + b
      /\ y = 400 * a + 100 * b + 4 * c + e
  BY <1>0 DEF Divided
<1>2. (4 * a + b) % 4 = b /\ (4 * a + b) \div 4 = a
  BY <1>0 DEF Divided
<1> DEFINE y1 == IF d = 365 THEN y - 3 ELSE y
           r1 == IF d = 365 THEN 1460 ELSE d + 365 * (y % 4)
           y2 == y1 \div 4
           r2 == r1 + 1461 * (y2 % 25)
           y3 == y2 \div 25
           y4 == IF r2 = 36524 THEN y3 - 3 ELSE y3
           r3 == IF r2 = 36524 THEN 146096 ELSE r2 + 36524 * (y3 % 4)
<1>3. totai(year, mon, day) = r3 + 146097 * (y4 \div 4 - 5) + 11017
  BY DEF totai, FromMarch, MarchOf
<1>y. y \in Int /\ d \in Int /\ 0 <= d /\ d <= 365 /\ (d = 365 => Leap(y + 1))
  BY DEF MarchOf
<1> HIDE DEF y, d
<1>4. r1 = d + 365 * e
  BY <1>1, <1>y
<1>5. y2 = 100 * a + 25 * b + c
  <2>1. CASE d = 365
    BY <2>1, <1>1, <1>y
  <2>2. CASE d # 365
    BY <2>2, <1>1, <1>y
  <2> QED BY <2>1, <2>2
<1> HIDE DEF r1, y2
<1>6. r2 = d + 365 * e + 1461 * c /\ y3 = 4 * a + b
  BY <1>1, <1>4, <1>5, <1>y
<1>7. r2 = 36524 => b = 3
  BY <1>1, <1>6, <1>y
<1> HIDE DEF r2, y3
<1>8. r3 = r2 + 36524 * b /\ y4 \div 4 = a
  <2>1. CASE r2 = 36524
    BY <2>1, <1>6, <1>7
  <2>2. CASE r2 # 36524
    <3>1. y4 = 4 * a + b /\ r3 = r2 + 36524 * ((4 * a + b) % 4)
      BY <2>2, <1>6
    <3> QED BY <3>1, <1>2
  <2> QED BY <2>1, <2>2
<1> HIDE DEF r3, y4
<1>9. y % 4 \in Int /\ March(y) \in Int
  BY <1>y, MarchIsInt
<1>10. r3 + 146097 * (a - 5) + 11017 = March(y) + d
  BY <1>1, <1>6, <1>8, <1>y
<1>11. totai(year, mon, day) = March(y) + d
  BY <1>3, <1>8, <1>10
<1> QED BY <1>11 DEF y, d

\* What the calendar says of a date.
Dated(d) ==
    /\ d \in [year : Int, month : 0 .. 11, mday : 1 .. 31]
    /\ d.mday <= DaysIn(d.year, d.month)

\* Only a leap year has a day 365; January and February are the last days.
LEMMA FromMarchIs ==
    ASSUME NEW year \in Int, NEW mon \in 0 .. 11, NEW day \in 1 .. 31, day <= DaysIn(year, mon)
    PROVE  /\ FromMarch(mon, day) \in Int /\ 0 <= FromMarch(mon, day) /\ FromMarch(mon, day) <= 365
           /\ FromMarch(mon, day) = 365 => Leap(MarchOf(year, mon) + 1)
           /\ FromMarch(mon, day) >= 306 <=> mon < 2
  BY DEF MarchOf, FromMarch, DaysIn

\* DayNumber for every date of the calendar.
LEMMA DateFromMarch ==
    ASSUME NEW year \in Int, NEW mon \in 0 .. 11, NEW day \in 1 .. 31, day <= DaysIn(year, mon)
    PROVE  totai(year, mon, day) = March(MarchOf(year, mon)) + FromMarch(mon, day)
<1>1. FromMarch(mon, day) \in Int /\ 0 <= FromMarch(mon, day) /\ FromMarch(mon, day) <= 365 /\ (FromMarch(mon, day) = 365 => Leap(MarchOf(year, mon) + 1))
  BY DEF MarchOf, FromMarch, DaysIn
<1> QED BY <1>1, DayNumber, Zenon

\* The next year begins 365 or 366 days later.
LEMMA NextMarch ==
    ASSUME NEW y \in Int
    PROVE  March(y + 1) = March(y) + IF Leap(y + 1) THEN 366 ELSE 365
  BY DEF March, Leap

\* Another day of the same month.
LEMMA NextInMonth ==
    ASSUME NEW year \in Int, NEW mon \in 0 .. 11, NEW day \in 1 .. 31, day < DaysIn(year, mon)
    PROVE  day + 1 \in 1 .. 31 /\ totai(year, mon, day + 1) = totai(year, mon, day) + 1
<1>1. day + 1 \in 1 .. 31 /\ day + 1 <= DaysIn(year, mon) /\ day <= DaysIn(year, mon)
  BY DEF DaysIn
<1>2. FromMarch(mon, day + 1) = FromMarch(mon, day) + 1 /\ FromMarch(mon, day) \in Int
  BY DEF FromMarch
<1>3. totai(year, mon, day) = March(MarchOf(year, mon)) + FromMarch(mon, day)
  BY <1>1, DateFromMarch, Zenon
<1>4. totai(year, mon, day + 1) = March(MarchOf(year, mon)) + FromMarch(mon, day + 1)
  BY <1>1, DateFromMarch, Zenon
<1>5. March(MarchOf(year, mon)) \in Int
  BY MarchIsInt DEF MarchOf
<1> QED BY <1>1, <1>2, <1>3, <1>4, <1>5

\* The first of the next month, if the year goes on or ends.
LEMMA NextMonth ==
    ASSUME NEW year \in Int, NEW mon \in 0 .. 11,
           NEW there \in Int, there = (IF mon = 11 THEN year + 1 ELSE year),
           NEW then \in 0 .. 11, then = (IF mon = 11 THEN 0 ELSE mon + 1)
    PROVE  totai(there, then, 1) = totai(year, mon, DaysIn(year, mon)) + 1
<1> DEFINE last == DaysIn(year, mon)
<1>1. last \in 1 .. 31 /\ last <= DaysIn(year, mon) /\ 1 \in 1 .. 31 /\ 1 <= DaysIn(there, then)
  BY DEF DaysIn
<1>2. totai(year, mon, last) = March(MarchOf(year, mon)) + FromMarch(mon, last)
  BY <1>1, DateFromMarch, Zenon
<1>3. totai(there, then, 1) = March(MarchOf(there, then)) + FromMarch(then, 1)
  BY <1>1, DateFromMarch, Zenon
<1>4. March(MarchOf(year, mon)) \in Int /\ March(year - 1) \in Int
  BY MarchIsInt DEF MarchOf
<1>5. FromMarch(mon, last) \in Int
  BY <1>1 DEF FromMarch
<1>6. CASE mon = 1
  <2>1. MarchOf(there, then) = year /\ FromMarch(then, 1) = 0
    BY <1>6 DEF MarchOf, FromMarch
  <2>2. MarchOf(year, mon) = year - 1
    BY <1>6 DEF MarchOf
  <2>3. FromMarch(mon, last) = IF Leap(year) THEN 365 ELSE 364
    BY <1>6 DEF FromMarch, DaysIn
  <2>4. March(year) = March(year - 1) + IF Leap(year) THEN 366 ELSE 365
    <3>1. year - 1 \in Int /\ (year - 1) + 1 = year
      OBVIOUS
    <3> QED BY <3>1, NextMarch
  <2> HIDE DEF last
  <2> QED BY <1>2, <1>3, <1>4, <2>1, <2>2, <2>3, <2>4 DEF last
<1>7. CASE mon # 1
  <2>1. MarchOf(there, then) = MarchOf(year, mon)
    BY <1>7 DEF MarchOf
  <2>2. FromMarch(then, 1) = FromMarch(mon, last) + 1
    BY <1>7 DEF FromMarch, DaysIn
  <2> QED BY <1>2, <1>3, <1>4, <1>5, <2>1, <2>2
<1> QED BY <1>6, <1>7

\* A date of the calendar has a number.
LEMMA TaiIsInt ==
    ASSUME NEW year \in Int, NEW mon \in 0 .. 11, NEW day \in 1 .. 31, day <= DaysIn(year, mon)
    PROVE  totai(year, mon, day) \in Int
<1>1. totai(year, mon, day) = March(MarchOf(year, mon)) + FromMarch(mon, day)
  BY DateFromMarch, Zenon
<1>2. March(MarchOf(year, mon)) \in Int
  BY MarchIsInt DEF MarchOf
<1>3. FromMarch(mon, day) \in Int
  BY DEF FromMarch
<1> QED BY <1>1, <1>2, <1>3

\* The next day is a date of the calendar, with the next number.
LEMMA NextDay ==
    ASSUME NEW d, Dated(d)
    PROVE  Dated(Tomorrow(d)) /\ Tai(d) \in Int /\ Tai(Tomorrow(d)) = Tai(d) + 1
<1> PICK year \in Int, mon \in 0 .. 11, day \in 1 .. 31 :
        d = [year |-> year, month |-> mon, mday |-> day]
  BY DEF Dated
<1>1. d.year = year /\ d.month = mon /\ d.mday = day /\ day <= DaysIn(year, mon)
  BY DEF Dated
<1>2. Tai(d) = totai(year, mon, day)
  BY <1>1 DEF Tai
<1>a. totai(year, mon, day) \in Int
  BY <1>1, TaiIsInt, Zenon
<1>3. CASE day < DaysIn(year, mon)
  <2>1. Tomorrow(d) = [year |-> year, month |-> mon, mday |-> day + 1]
    BY <1>1, <1>3 DEF Tomorrow
  <2>2. day + 1 \in 1 .. 31 /\ totai(year, mon, day + 1) = totai(year, mon, day) + 1
    BY <1>3, NextInMonth, Zenon
  <2>3. day + 1 <= DaysIn(year, mon)
    BY <1>3 DEF DaysIn
  <2>4. Dated(Tomorrow(d))
    BY <2>1, <2>2, <2>3 DEF Dated
  <2> QED BY <1>2, <1>a, <2>1, <2>2, <2>4 DEF Tai
<1>4. CASE day = DaysIn(year, mon)
  <2> DEFINE there == IF mon = 11 THEN year + 1 ELSE year
             then == IF mon = 11 THEN 0 ELSE mon + 1
  <2>1. Tomorrow(d) = [year |-> there, month |-> then, mday |-> 1]
    <3>1. CASE mon = 11
      BY <1>1, <1>4, <3>1 DEF Tomorrow
    <3>2. CASE mon # 11
      <4>1. Tomorrow(d) = [d EXCEPT !.month = mon + 1, !.mday = 1]
        BY <1>1, <1>4, <3>2 DEF Tomorrow
      <4>2. there = year /\ then = mon + 1
        BY <3>2
      <4> QED BY <4>1, <4>2
    <3> QED BY <3>1, <3>2
  <2>2. there \in Int /\ then \in 0 .. 11 /\ 1 <= DaysIn(there, then)
    BY DEF DaysIn
  <2>3. there = (IF mon = 11 THEN year + 1 ELSE year) /\ then = (IF mon = 11 THEN 0 ELSE mon + 1)
    OBVIOUS
  <2> HIDE DEF there, then
  <2>4. totai(there, then, 1) = totai(year, mon, day) + 1
    BY <1>4, <2>2, <2>3, NextMonth, SMTT(30)
  <2>5. Dated(Tomorrow(d))
    BY <2>1, <2>2 DEF Dated
  <2> QED BY <1>2, <1>a, <2>1, <2>4, <2>5 DEF Tai
<1>5. day < DaysIn(year, mon) \/ day = DaysIn(year, mon)
  BY <1>1 DEF DaysIn
<1> QED BY <1>3, <1>4, <1>5

\* currentyear takes 400 years off a day.
LEMMA FourCenturies ==
    ASSUME NEW a \in Int, NEW r \in Int, 0 <= r, r < 146097, NEW n, n = 146097 * a + r
    PROVE  n \div 146097 = a /\ n % 146097 = r
  OBVIOUS

\* currentyear takes centuries off a day.
LEMMA OneCentury ==
    ASSUME NEW a \in Int, NEW r \in Int, 0 <= r, r < 36524, NEW n, n = 36524 * a + r
    PROVE  n \div 36524 = a /\ n % 36524 = r
  OBVIOUS

\* initnow finds the year a day belongs to.
LEMMA YearFound ==
    ASSUME NEW y \in Int, NEW d \in Int, 0 <= d, d <= 365, d = 365 => Leap(y + 1)
    PROVE  currentyear(March(y) + d) = IF d >= 306 THEN y + 1 ELSE y
<1>1. PICK a \in Int, b \in 0 .. 3, c \in 0 .. 24, e \in 0 .. 3 : Divided(y, a, b, c, e)
  BY YearDivided
<1>2. /\ Leap(y + 1) <=> e = 3 /\ (c # 24 \/ b = 3)
      /\ March(y) = 365 * e + 1461 * c + 36524 * b + 146097 * (a - 5) + 11017
      /\ y = 400 * a + 100 * b + 4 * c + e
  BY <1>1 DEF Divided
<1> DEFINE now == March(y) + d
           r == 365 * e + 1461 * c + 36524 * b + d
           s == 365 * e + 1461 * c + d
           q == 365 * e + d
           d0 == now - 11017
           y0 == (5 + d0 \div 146097) * 4
           d1 == d0 % 146097
           y1 == (IF d1 = 146096 THEN y0 + 3 ELSE y0 + d1 \div 36524) * 25
           d2 == IF d1 = 146096 THEN 36524 ELSE d1 % 36524
           y2 == (y1 + d2 \div 1461) * 4
           d3 == d2 % 1461
           y3 == IF d3 = 1460 THEN y2 + 3 ELSE y2 + d3 \div 365
           d4 == IF d3 = 1460 THEN 365 ELSE d3 % 365
<1>3. currentyear(now) = IF (d4 * 10 + 5) \div 306 >= 10 THEN y3 + 1 ELSE y3
  BY DEF currentyear
<1>4. d0 = 146097 * (a - 5) + r /\ r \in Int /\ 0 <= r /\ r <= 146096
  <2>1. d0 = 146097 * (a - 5) + r
    BY <1>2
  <2>2. q \in Int /\ 0 <= q /\ q <= 1460 /\ (q = 1460 => e = 3 /\ d = 365)
    OBVIOUS
  <2>3. s = 1461 * c + q /\ r = 36524 * b + s
    OBVIOUS
  <2> HIDE DEF d0, s, q, r
  <2>4. s \in Int /\ 0 <= s /\ s <= 36524 /\ (s = 36524 => b = 3)
    BY <1>2, <2>2, <2>3
  <2>5. r \in Int /\ 0 <= r /\ r <= 146096
    BY <2>3, <2>4
  <2> QED BY <2>1, <2>5
<1>5. y0 = 4 * a /\ d1 = r
  <2> HIDE DEF d0, r
  <2>1. a - 5 \in Int
    OBVIOUS
  <2>2. d0 \div 146097 = a - 5 /\ d0 % 146097 = r
    BY <1>4, <2>1, FourCenturies
  <2> QED BY <2>2
<1> HIDE DEF d0, y0, d1
<1>6. s \in Int /\ 0 <= s /\ s <= 36524 /\ r = 36524 * b + s /\ (s = 36524 => b = 3)
  BY <1>2
<1>7. r = 146096 <=> b = 3 /\ s = 36524
  <2> HIDE DEF s, r
  <2> QED BY <1>6
<1>8. y1 = 100 * a + 25 * b /\ d2 = s
  <2> HIDE DEF s, r
  <2>1. CASE s = 36524
    BY <2>1, <1>5, <1>6, <1>7
  <2>2. CASE s # 36524
    <3>1. s \in Int /\ 0 <= s /\ s <= 36523
      BY <2>2, <1>6
    <3>2. r \div 36524 = b /\ r % 36524 = s
      BY <3>1, <1>6, OneCentury
    <3> QED BY <3>2, <2>2, <1>5, <1>7
  <2> QED BY <2>1, <2>2
<1> HIDE DEF y1, d2
<1>9. q \in Int /\ 0 <= q /\ q <= 1460 /\ s = 1461 * c + q /\ (q = 1460 <=> e = 3 /\ d = 365)
  BY <1>2
<1>10. y2 = 400 * a + 100 * b + 4 * c /\ d3 = q
  <2> HIDE DEF s, q
  <2>1. s \div 1461 = c /\ s % 1461 = q
    BY <1>9
  <2> QED BY <2>1, <1>8
<1> HIDE DEF y2, d3
<1>11. y3 = y /\ d4 = d
  <2>1. CASE d = 365
    BY <2>1, <1>2, <1>9, <1>10
  <2>2. CASE d # 365
    <3>1. q \div 365 = e /\ q % 365 = d
      BY <2>2
    <3> HIDE DEF q
    <3> QED BY <3>1, <2>2, <1>2, <1>9, <1>10
  <2> QED BY <2>1, <2>2
<1> HIDE DEF y3, d4
<1>12. (d * 10 + 5) \div 306 >= 10 <=> d >= 306
  OBVIOUS
<1> QED BY <1>3, <1>11, <1>12

\* currentyear of the number of a date is its year.
LEMMA YearOfDay ==
    ASSUME NEW d, Dated(d)
    PROVE  currentyear(Tai(d)) = d.year
<1> PICK year \in Int, mon \in 0 .. 11, day \in 1 .. 31 :
        d = [year |-> year, month |-> mon, mday |-> day]
  BY DEF Dated
<1>1. d.year = year /\ d.month = mon /\ d.mday = day /\ day <= DaysIn(year, mon)
  BY DEF Dated
<1>2. totai(year, mon, day) = March(MarchOf(year, mon)) + FromMarch(mon, day)
  BY <1>1, DateFromMarch, Zenon
<1>3. /\ FromMarch(mon, day) \in Int /\ 0 <= FromMarch(mon, day) /\ FromMarch(mon, day) <= 365
      /\ FromMarch(mon, day) = 365 => Leap(MarchOf(year, mon) + 1)
      /\ FromMarch(mon, day) >= 306 <=> mon < 2
  BY <1>1, FromMarchIs, ZenonT(40)
<1>4. MarchOf(year, mon) \in Int
  BY DEF MarchOf
<1>5. currentyear(March(MarchOf(year, mon)) + FromMarch(mon, day)) =
        IF FromMarch(mon, day) >= 306 THEN MarchOf(year, mon) + 1 ELSE MarchOf(year, mon)
  BY <1>3, <1>4, YearFound, Zenon
<1>6. (IF FromMarch(mon, day) >= 306 THEN MarchOf(year, mon) + 1 ELSE MarchOf(year, mon)) = year
  BY <1>3 DEF MarchOf
<1> QED BY <1>1, <1>2, <1>5, <1>6 DEF Tai

\* A year has 365 days at least.
LEMMA MarchGrows ==
    ASSUME NEW y \in Int, NEW z \in Int, y <= z
    PROVE  March(y) + 365 * (z - y) <= March(z)
<1>1. y \div 4 - (y \div 4) \div 25 <= z \div 4 - (z \div 4) \div 25
  <2>1. y \div 4 \in Int /\ z \div 4 \in Int /\ y \div 4 <= z \div 4
    OBVIOUS
  <2> DEFINE u == y \div 4
             v == z \div 4
  <2> HIDE DEF u, v
  <2>2. u - u \div 25 <= v - v \div 25
    BY <2>1 DEF u, v
  <2> QED BY <2>2 DEF u, v
<1>2. (y \div 4) \div 25 = y \div 100 /\ (z \div 4) \div 25 = z \div 100
  OBVIOUS
<1>3. y \div 400 <= z \div 400
  OBVIOUS
<1> QED BY <1>1, <1>2, <1>3 DEF March

\* The first of January.
January(y) == March(y - 1) + 306

\* A date lies between the first of January and the next.
LEMMA WithinYear ==
    ASSUME NEW d, Dated(d)
    PROVE  January(d.year) <= Tai(d) /\ Tai(d) < January(d.year + 1)
<1> PICK year \in Int, mon \in 0 .. 11, day \in 1 .. 31 :
        d = [year |-> year, month |-> mon, mday |-> day]
  BY DEF Dated
<1>1. d.year = year /\ d.month = mon /\ d.mday = day /\ day <= DaysIn(year, mon)
  BY DEF Dated
<1>2. totai(year, mon, day) = March(MarchOf(year, mon)) + FromMarch(mon, day)
  BY <1>1, DateFromMarch, Zenon
<1>3. /\ FromMarch(mon, day) \in Int /\ 0 <= FromMarch(mon, day) /\ FromMarch(mon, day) <= 365
      /\ FromMarch(mon, day) = 365 => Leap(MarchOf(year, mon) + 1)
      /\ FromMarch(mon, day) >= 306 <=> mon < 2
  BY <1>1, FromMarchIs, ZenonT(40)
<1>4. March(year - 1) \in Int /\ March(year) \in Int
  BY MarchIsInt
<1>5. March(year) = March(year - 1) + IF Leap(year) THEN 366 ELSE 365
  <2>1. year - 1 \in Int /\ (year - 1) + 1 = year
    OBVIOUS
  <2> QED BY <2>1, NextMarch
<1>6. MarchOf(year, mon) = IF mon >= 2 THEN year ELSE year - 1
  BY DEF MarchOf
<1>7. January(year) = March(year - 1) + 306 /\ January(year + 1) = March(year) + 306
  <2>1. year + 1 - 1 = year
    OBVIOUS
  <2> QED BY <2>1 DEF January
<1>8. CASE mon >= 2
  BY <1>1, <1>2, <1>3, <1>4, <1>5, <1>6, <1>7, <1>8 DEF Tai
<1>9. CASE mon < 2
  <2>1. MarchOf(year, mon) + 1 = year /\ MarchOf(year, mon) = year - 1
    BY <1>6, <1>9
  <2> QED BY <1>1, <1>2, <1>3, <1>4, <1>5, <2>1, <1>7, <1>9 DEF Tai
<1> QED BY <1>8, <1>9

\* A date not longer than a year ago is one of this year or of the last.
LEMMA ThisYearOrLast ==
    ASSUME NEW d, NEW p, Dated(d), Dated(p), Tai(p) <= Tai(d), Tai(d) - Tai(p) < 350
    PROVE  p.year = d.year \/ p.year = d.year - 1
<1>1. /\ d.year \in Int /\ p.year \in Int
      /\ January(d.year) <= Tai(d) /\ Tai(d) < January(d.year + 1)
      /\ January(p.year) <= Tai(p) /\ Tai(p) < January(p.year + 1)
      /\ Tai(d) \in Int /\ Tai(p) \in Int
  BY WithinYear, NextDay DEF Dated
<1> DEFINE c == d.year
           y == p.year
<1> HIDE DEF c, y
<1>2. \A k \in Int : March(k) \in Int
  BY MarchIsInt
<1>3. CASE y > c
  <2>1. c <= y - 1 /\ y - 1 \in Int /\ c \in Int
    BY <1>1, <1>3 DEF c, y
  <2>2. March(c) + 365 * (y - 1 - c) <= March(y - 1)
    BY <2>1, MarchGrows
  <2>3. March(c) <= March(y - 1)
    BY <2>1, <2>2, <1>2
  <2>4. January(c + 1) = March(c) + 306 /\ January(y) = March(y - 1) + 306
    <3>1. c + 1 - 1 = c
      BY <2>1
    <3> QED BY <2>1, <3>1 DEF January
  <2> QED BY <1>1, <1>2, <2>1, <2>3, <2>4 DEF c, y
<1>4. CASE y < c - 1
  <2>1. y <= c - 1 /\ c - 1 \in Int /\ y \in Int /\ c - 1 - y >= 1
    BY <1>1, <1>4 DEF c, y
  <2>2. March(y) + 365 * (c - 1 - y) <= March(c - 1)
    BY <2>1, MarchGrows
  <2>3. March(y) + 365 <= March(c - 1)
    BY <2>1, <2>2, <1>2
  <2>4. January(y + 1) = March(y) + 306 /\ January(c) = March(c - 1) + 306
    <3>1. y + 1 - 1 = y
      BY <2>1
    <3> QED BY <2>1, <3>1 DEF January
  <2> QED BY <1>1, <1>2, <2>1, <2>3, <2>4 DEF c, y
<1>5. y \in Int /\ c \in Int
  BY <1>1 DEF y, c
<1> QED BY <1>3, <1>4, <1>5 DEF c, y

\* totai puts the 29th of February of the year before a leap year into an
\* earlier leap year, four years before at least.
LEMMA NoSuchDay ==
    ASSUME NEW y \in Int, y % 4 = 3
    PROVE  totai(y + 4, 1, 29) \in Int /\ totai(y + 4, 1, 29) <= March(y) + 365
<1>1. PICK a \in Int, b \in 0 .. 3, c \in 0 .. 24, e \in 0 .. 3 : Divided(y, a, b, c, e)
  BY YearDivided
<1>2. /\ y % 4 = e /\ y \div 4 = 100 * a + 25 * b + c
      /\ March(y) = 365 * e + 1461 * c + 36524 * b + 146097 * (a - 5) + 11017
      /\ (100 * a + 25 * b + c) % 25 = c /\ (100 * a + 25 * b + c) \div 25 = 4 * a + b
      /\ (4 * a + b) % 4 = b /\ (4 * a + b) \div 4 = a
  BY <1>1 DEF Divided
<1> DEFINE r2 == 1460 + 1461 * c
           y3 == 4 * a + b
           y4 == IF r2 = 36524 THEN y3 - 3 ELSE y3
           r3 == IF r2 = 36524 THEN 146096 ELSE r2 + 36524 * b
<1>3. totai(y + 4, 1, 29) = r3 + 146097 * (y4 \div 4 - 5) + 11017
  <2>1. ((29 - 1) * 10 + 5 + 306 * 11) \div 10 = 365
    OBVIOUS
  <2>2. y + 4 - 1 - 3 = y
    OBVIOUS
  <2> QED BY <1>2, <2>1, <2>2 DEF totai
<1>4. r2 = 36524 <=> c = 24
  OBVIOUS
<1>5. CASE c # 24
  BY <1>2, <1>3, <1>4, <1>5
<1>6. CASE c = 24
  <2>1. (y3 - 3) \div 4 = IF b = 3 THEN a ELSE a - 1
    OBVIOUS
  <2> QED BY <1>2, <1>3, <1>4, <1>6, <2>1
<1> QED BY <1>5, <1>6

\* A date of the calendar is at least 350 days later than in the year before,
\* where it may not be a date: so guesstai tries no year too early.
LEMMA YearsApart ==
    ASSUME NEW y \in Int, NEW mon \in 0 .. 11, NEW day \in 1 .. 31, day <= DaysIn(y, mon)
    PROVE  totai(y - 1, mon, day) \in Int /\ totai(y - 1, mon, day) + 350 <= totai(y, mon, day)
<1>1. totai(y, mon, day) = March(MarchOf(y, mon)) + FromMarch(mon, day)
  BY DateFromMarch, Zenon
<1>2. FromMarch(mon, day) \in Int
  BY DEF FromMarch
<1>3. \A k \in Int : March(k) \in Int
  BY MarchIsInt
<1>4. CASE day <= DaysIn(y - 1, mon)
  <2>1. totai(y - 1, mon, day) = March(MarchOf(y - 1, mon)) + FromMarch(mon, day)
    <3>1. y - 1 \in Int
      OBVIOUS
    <3> QED BY <1>4, <3>1, DateFromMarch, Zenon
  <2>2. /\ MarchOf(y - 1, mon) \in Int /\ MarchOf(y, mon) \in Int
        /\ MarchOf(y, mon) - MarchOf(y - 1, mon) = 1 /\ MarchOf(y - 1, mon) <= MarchOf(y, mon)
    BY DEF MarchOf
  <2>3. March(MarchOf(y - 1, mon)) + 365 * (MarchOf(y, mon) - MarchOf(y - 1, mon)) <= March(MarchOf(y, mon))
    BY <2>2, MarchGrows
  <2> QED BY <1>1, <1>2, <1>3, <2>1, <2>2, <2>3
<1>5. CASE ~ day <= DaysIn(y - 1, mon)
  <2>1. mon = 1 /\ day = 29 /\ Leap(y)
    BY <1>5 DEF DaysIn
  <2>2. (y - 5) % 4 = 3 /\ y - 5 \in Int /\ (y - 5) + 4 = y - 1
    BY <2>1 DEF Leap
  <2>3. totai(y - 1, 1, 29) \in Int /\ totai(y - 1, 1, 29) <= March(y - 5) + 365
    <3> DEFINE z == y - 5
    <3>1. z \in Int /\ z % 4 = 3 /\ y - 1 = z + 4
      BY <2>2
    <3>2. totai(z + 4, 1, 29) \in Int /\ totai(z + 4, 1, 29) <= March(z) + 365
      BY <3>1, NoSuchDay
    <3> QED BY <3>1, <3>2
  <2>4. MarchOf(y, mon) = y - 1 /\ FromMarch(mon, day) = 365
    BY <2>1 DEF MarchOf, FromMarch
  <2>5. March(y - 5) + 365 * ((y - 1) - (y - 5)) <= March(y - 1)
    <3>1. y - 5 \in Int /\ y - 1 \in Int /\ y - 5 <= y - 1
      OBVIOUS
    <3> QED BY <3>1, MarchGrows
  <2>6. March(y - 5) \in Int /\ March(y - 1) \in Int
    BY <1>3
  <2> QED BY <1>1, <2>1, <2>3, <2>4, <2>5, <2>6
<1> QED BY <1>4, <1>5

\* guesstai finds every day of the last 350.
LEMMA Guessed ==
    ASSUME NEW d, NEW p, Dated(d), Dated(p), Tai(p) <= Tai(d), Tai(d) - Tai(p) < 350
    PROVE  guesstai(Tai(d), p.month, p.mday) = Tai(p)
<1> DEFINE c == d.year
           now == Tai(d)
           T(y) == totai(y, p.month, p.mday)
           years == c - 1 .. c + 1
           fits == {y \in years : now - T(y) < 350}
<1>1. currentyear(now) = c /\ c \in Int
  BY YearOfDay DEF Dated
<1>2. p.year = c \/ p.year = c - 1
  BY ThisYearOrLast
<1>3. Tai(p) = T(p.year) /\ Tai(p) \in Int /\ Tai(d) \in Int
  BY NextDay DEF Tai
<1>4. p.year \in fits
  BY <1>1, <1>2, <1>3
<1>5. \A y \in fits : p.year <= y
  <2>1. CASE p.year = c - 1
    BY <2>1, <1>1
  <2>2. CASE p.year = c
    <3>1. T(c - 1) \in Int /\ T(c - 1) + 350 <= T(c)
      <4>1. c \in Int /\ p.month \in 0 .. 11 /\ p.mday \in 1 .. 31 /\ p.mday <= DaysIn(c, p.month)
        BY <2>2 DEF Dated
      <4> QED BY <4>1, YearsApart
    <3>2. c - 1 \notin fits
      BY <2>2, <3>1, <1>3
    <3> QED BY <2>2, <3>2, <1>1
  <2> QED BY <1>2, <2>1, <2>2
<1>6. (CHOOSE y \in fits : \A z \in fits : y <= z) = p.year
  <2>1. \A y \in fits : (\A z \in fits : y <= z) => y = p.year
    BY <1>1, <1>2, <1>4, <1>5
  <2> HIDE DEF fits
  <2> QED BY <1>4, <1>5, <2>1
<1>7. guesstai(now, p.month, p.mday) =
        IF fits = {} THEN 0 ELSE totai(CHOOSE y \in fits : \A z \in fits : y <= z, p.month, p.mday)
  BY <1>1 DEF guesstai
<1> QED BY <1>3, <1>4, <1>6, <1>7

-----------------------------------------------------------------------------
(* The columns of a line. *)

\* A line with k columns before the month.
Shape(l, k) ==
    /\ k \in 3 .. 5 /\ Len(l) = k + 4 /\ l # <<>>
    /\ l[2] # Word("month") /\ l[3] # Word("month") /\ l[k] # Word("month")
    /\ l[1] # Word("month")
    /\ l[k + 1] = Word("month")
    /\ l[k + 2][1] = "number"
    /\ l[k + 2] # Word("month") /\ l[k + 3] # Word("month") /\ l[k + 4] # Word("month")
    /\ l[k][1] = "number" /\ (l[k + 3][1] = "time" \/ l[k + 3][1] = "number")
    /\ l[2] = Word("folder") <=> k = 3
    /\ l[4] = Word("group") <=> k = 5

\* What a sequence of three adds to a sequence.
LEMMA Dated3 ==
    ASSUME NEW S, NEW f \in Seq(S), NEW m \in Seq(S), Len(m) = 3
    PROVE  /\ f \o m \in Seq(S) /\ Len(f \o m) = Len(f) + 3
           /\ \A i \in 1 .. Len(f) : (f \o m)[i] = f[i]
           /\ (f \o m)[Len(f) + 1] = m[1] /\ (f \o m)[Len(f) + 2] = m[2] /\ (f \o m)[Len(f) + 3] = m[3]
<1> DEFINE g == f \o m
<1>1. g \in Seq(S) /\ Len(g) = Len(f) + Len(m)
  BY ConcatProperties
<1>2. \A i \in 1 .. Len(f) + Len(m) : g[i] = IF i <= Len(f) THEN f[i] ELSE m[i - Len(f)]
  BY ConcatProperties
<1>3. Len(f) \in Nat
  OBVIOUS
<1> HIDE DEF g
<1>4. /\ \A i \in 1 .. Len(f) : g[i] = f[i]
      /\ g[Len(f) + 1] = m[1] /\ g[Len(f) + 2] = m[2] /\ g[Len(f) + 3] = m[3]
  BY <1>2, <1>3
<1> QED BY <1>1, <1>4 DEF g
\* l has the columns of f, then those of m, then d.
Joins(l, f, m, d) ==
    /\ Len(l) = Len(f) + 4 /\ l # <<>>
    /\ \A i \in 1 .. Len(f) : l[i] = f[i]
    /\ l[Len(f) + 1] = m[1] /\ l[Len(f) + 2] = m[2] /\ l[Len(f) + 3] = m[3]
    /\ l[Len(f) + 4] = d

\* The columns of a front, a date and a name.
LEMMA Joined ==
    ASSUME NEW S, NEW f \in Seq(S), NEW m \in Seq(S), NEW d \in S, Len(m) = 3
    PROVE  Joins(f \o m \o <<d>>, f, m, d)
<1> DEFINE g == f \o m
           l == g \o <<d>>
<1>1. /\ g \in Seq(S) /\ Len(g) = Len(f) + 3
      /\ \A i \in 1 .. Len(f) : g[i] = f[i]
      /\ g[Len(f) + 1] = m[1] /\ g[Len(f) + 2] = m[2] /\ g[Len(f) + 3] = m[3]
  BY Dated3, Zenon
<1> HIDE DEF g
<1>2. /\ Len(l) = Len(g) + 1 /\ l[Len(g) + 1] = d /\ l # <<>>
      /\ \A i \in 1 .. Len(g) : l[i] = g[i]
  BY <1>1
<1> HIDE DEF l
<1> DEFINE n == Len(f)
<1>3. n \in Nat
  BY LenProperties
<1>4. Len(g) = n + 3
  BY <1>1
<1> HIDE DEF n
<1>5. \A i \in 1 .. n : i \in 1 .. n + 3
  BY <1>3
<1>6. n + 1 \in 1 .. n + 3 /\ n + 2 \in 1 .. n + 3 /\ n + 3 \in 1 .. n + 3 /\ (n + 3) + 1 = n + 4
  BY <1>3
<1>7. Len(l) = n + 4 /\ l[n + 4] = d
  BY <1>2, <1>4, <1>6
<1>8. \A i \in 1 .. n + 3 : l[i] = g[i]
  BY <1>2, <1>4
<1>9. l[n + 1] = m[1] /\ l[n + 2] = m[2] /\ l[n + 3] = m[3]
  BY <1>1, <1>6, <1>8 DEF n
<1>10. \A i \in 1 .. n : l[i] = f[i]
  BY <1>1, <1>5, <1>8 DEF n
<1> QED BY <1>2, <1>7, <1>9, <1>10 DEF l, g, n, Joins

\* Every line of the comments' examples has a shape.
LEMMA Shapes ==
    ASSUME NEW n, NEW front \in Fronts(n), NEW date \in Dates
    PROVE  \E k \in 3 .. 5 : Shape(front \o date \o <<Word("name")>>, k)
<1>0. PICK d \in Int : \E y :
        date = <<Word("month"), Numeral(d), y>> /\ y # Word("month") /\ (y[1] = "time" \/ y[1] = "number")
  BY DEF Dates, Numeral, Word
<1>1. PICK y :
        date = <<Word("month"), Numeral(d), y>> /\ y # Word("month") /\ (y[1] = "time" \/ y[1] = "number")
  BY <1>0
<1> DEFINE name == Word("name")
           month_ == Word("month")
           day == Numeral(d)
           l == front \o date \o <<name>>
<1>m. date = <<month_, day, y>>
  BY <1>1
<1> SUFFICES \E k \in 3 .. 5 : Shape(l, k)
  OBVIOUS
<1> HIDE DEF name, month_, day, l
<1>2. CASE front = <<Word("perm"), Numeral(1), Word("user"), Word("group"), Numeral(n)>>
  <2> DEFINE a == Word("perm")
             b == Numeral(1)
             c == Word("user")
             e == Word("group")
             g == Numeral(n)
             T == {a, b, c, e, g, month_, day, y, name}
  <2>1. front = <<a, b, c, e, g>>
    BY <1>2
  <2> HIDE DEF a, b, c, e, g
  <2>2. front \in Seq(T) /\ Len(front) = 5
    BY <2>1
  <2>3. front[1] = a /\ front[2] = b /\ front[3] = c /\ front[4] = e /\ front[5] = g
    BY <2>1
  <2>4. date \in Seq(T) /\ Len(date) = 3 /\ date[1] = month_ /\ date[2] = day /\ date[3] = y
    BY <1>m
  <2>5. name \in T
    OBVIOUS
  <2> HIDE DEF T
  <2>c. date \in Seq(T) /\ Len(date) = 3
    BY <2>4
  <2>f. front \in Seq(T)
    BY <2>2
  <2>6. /\ Len(l) = Len(front) + 4 /\ l # <<>>
        /\ \A i \in 1 .. Len(front) : l[i] = front[i]
        /\ l[Len(front) + 1] = date[1] /\ l[Len(front) + 2] = date[2]
        /\ l[Len(front) + 3] = date[3] /\ l[Len(front) + 4] = name
    <3>1. Joins(l, front, date, name)
      BY <2>f, <2>c, <2>5, Joined, Zenon DEF l
    <3> QED BY <3>1 DEF Joins
  <2>7. /\ Len(l) = 9 /\ l # <<>>
        /\ l[1] = a /\ l[2] = b /\ l[3] = c /\ l[4] = e /\ l[5] = g
        /\ l[6] = month_ /\ l[7] = day /\ l[8] = y /\ l[9] = name
    BY <2>2, <2>3, <2>4, <2>6
  <2>8. Shape(l, 5)
    <3>1. /\ a # month_ /\ b # month_ /\ c # month_ /\ e # month_ /\ g # month_
      BY DEF Word, Numeral, month_, a, b, c, e, g
    <3>2. g[1] = "number" /\ day[1] = "number"
      BY DEF Numeral, day, g
    <3>3. b = Word("folder") <=> 5 = 3
      BY DEF Word, Numeral, b
    <3>4. l[4] = Word("group") <=> 5 = 5
      BY <2>7 DEF Word, Numeral, g, month_, e
    <3>5. name # month_ /\ day # month_
      BY DEF Word, Numeral, name, day, month_
    <3> QED BY <3>1, <3>2, <3>3, <3>4, <3>5, <1>1, <2>7 DEF Shape, month_
  <2> QED BY <2>8
<1>3. CASE front = <<Word("perm"), Numeral(2), Word("user"), Numeral(n)>>
  <2> DEFINE a == Word("perm")
             b == Numeral(2)
             c == Word("user")
             e == Numeral(n)
             T == {a, b, c, e, month_, day, y, name}
  <2>1. front = <<a, b, c, e>>
    BY <1>3
  <2> HIDE DEF a, b, c, e
  <2>2. front \in Seq(T) /\ Len(front) = 4
    BY <2>1
  <2>3. front[1] = a /\ front[2] = b /\ front[3] = c /\ front[4] = e
    BY <2>1
  <2>4. date \in Seq(T) /\ Len(date) = 3 /\ date[1] = month_ /\ date[2] = day /\ date[3] = y
    BY <1>m
  <2>5. name \in T
    OBVIOUS
  <2> HIDE DEF T
  <2>c. date \in Seq(T) /\ Len(date) = 3
    BY <2>4
  <2>f. front \in Seq(T)
    BY <2>2
  <2>6. /\ Len(l) = Len(front) + 4 /\ l # <<>>
        /\ \A i \in 1 .. Len(front) : l[i] = front[i]
        /\ l[Len(front) + 1] = date[1] /\ l[Len(front) + 2] = date[2]
        /\ l[Len(front) + 3] = date[3] /\ l[Len(front) + 4] = name
    <3>1. Joins(l, front, date, name)
      BY <2>f, <2>c, <2>5, Joined, Zenon DEF l
    <3> QED BY <3>1 DEF Joins
  <2>7. /\ Len(l) = 8 /\ l # <<>>
        /\ l[1] = a /\ l[2] = b /\ l[3] = c /\ l[4] = e
        /\ l[5] = month_ /\ l[6] = day /\ l[7] = y /\ l[8] = name
    BY <2>2, <2>3, <2>4, <2>6
  <2>8. Shape(l, 4)
    <3>1. /\ a # month_ /\ b # month_ /\ c # month_ /\ e # month_
      BY DEF Word, Numeral, month_, a, b, c, e
    <3>2. e[1] = "number" /\ day[1] = "number"
      BY DEF Numeral, day, e
    <3>3. b = Word("folder") <=> 4 = 3
      BY DEF Word, Numeral, b
    <3>4. l[4] = Word("group") <=> 4 = 5
      BY <2>7 DEF Word, Numeral, e, month_, c
    <3>5. name # month_ /\ day # month_
      BY DEF Word, Numeral, name, day, month_
    <3> QED BY <3>1, <3>2, <3>3, <3>4, <3>5, <1>1, <2>7 DEF Shape, month_
  <2> QED BY <2>8
<1>4. CASE front = <<Word("perm"), Word("[RWC]"), Word("user"), Numeral(n)>>
  <2> DEFINE a == Word("perm")
             b == Word("[RWC]")
             c == Word("user")
             e == Numeral(n)
             T == {a, b, c, e, month_, day, y, name}
  <2>1. front = <<a, b, c, e>>
    BY <1>4
  <2> HIDE DEF a, b, c, e
  <2>2. front \in Seq(T) /\ Len(front) = 4
    BY <2>1
  <2>3. front[1] = a /\ front[2] = b /\ front[3] = c /\ front[4] = e
    BY <2>1
  <2>4. date \in Seq(T) /\ Len(date) = 3 /\ date[1] = month_ /\ date[2] = day /\ date[3] = y
    BY <1>m
  <2>5. name \in T
    OBVIOUS
  <2> HIDE DEF T
  <2>c. date \in Seq(T) /\ Len(date) = 3
    BY <2>4
  <2>f. front \in Seq(T)
    BY <2>2
  <2>6. /\ Len(l) = Len(front) + 4 /\ l # <<>>
        /\ \A i \in 1 .. Len(front) : l[i] = front[i]
        /\ l[Len(front) + 1] = date[1] /\ l[Len(front) + 2] = date[2]
        /\ l[Len(front) + 3] = date[3] /\ l[Len(front) + 4] = name
    <3>1. Joins(l, front, date, name)
      BY <2>f, <2>c, <2>5, Joined, Zenon DEF l
    <3> QED BY <3>1 DEF Joins
  <2>7. /\ Len(l) = 8 /\ l # <<>>
        /\ l[1] = a /\ l[2] = b /\ l[3] = c /\ l[4] = e
        /\ l[5] = month_ /\ l[6] = day /\ l[7] = y /\ l[8] = name
    BY <2>2, <2>3, <2>4, <2>6
  <2>8. Shape(l, 4)
    <3>1. /\ a # month_ /\ b # month_ /\ c # month_ /\ e # month_
      BY DEF Word, Numeral, month_, a, b, c, e
    <3>2. e[1] = "number" /\ day[1] = "number"
      BY DEF Numeral, day, e
    <3>3. b = Word("folder") <=> 4 = 3
      BY DEF Word, Numeral, b
    <3>4. l[4] = Word("group") <=> 4 = 5
      BY <2>7 DEF Word, Numeral, e, month_, c
    <3>5. name # month_ /\ day # month_
      BY DEF Word, Numeral, name, day, month_
    <3> QED BY <3>1, <3>2, <3>3, <3>4, <3>5, <1>1, <2>7 DEF Shape, month_
  <2> QED BY <2>8
<1>5. CASE front = <<Word("perm"), Word("folder"), Numeral(n)>>
  <2> DEFINE a == Word("perm")
             b == Word("folder")
             c == Numeral(n)
             T == {a, b, c, month_, day, y, name}
  <2>1. front = <<a, b, c>>
    BY <1>5
  <2> HIDE DEF a, b, c
  <2>2. front \in Seq(T) /\ Len(front) = 3
    BY <2>1
  <2>3. front[1] = a /\ front[2] = b /\ front[3] = c
    BY <2>1
  <2>4. date \in Seq(T) /\ Len(date) = 3 /\ date[1] = month_ /\ date[2] = day /\ date[3] = y
    BY <1>m
  <2>5. name \in T
    OBVIOUS
  <2> HIDE DEF T
  <2>c. date \in Seq(T) /\ Len(date) = 3
    BY <2>4
  <2>f. front \in Seq(T)
    BY <2>2
  <2>6. /\ Len(l) = Len(front) + 4 /\ l # <<>>
        /\ \A i \in 1 .. Len(front) : l[i] = front[i]
        /\ l[Len(front) + 1] = date[1] /\ l[Len(front) + 2] = date[2]
        /\ l[Len(front) + 3] = date[3] /\ l[Len(front) + 4] = name
    <3>1. Joins(l, front, date, name)
      BY <2>f, <2>c, <2>5, Joined, Zenon DEF l
    <3> QED BY <3>1 DEF Joins
  <2>7. /\ Len(l) = 7 /\ l # <<>>
        /\ l[1] = a /\ l[2] = b /\ l[3] = c
        /\ l[4] = month_ /\ l[5] = day /\ l[6] = y /\ l[7] = name
    BY <2>2, <2>3, <2>4, <2>6
  <2>8. Shape(l, 3)
    <3>1. /\ a # month_ /\ b # month_ /\ c # month_
      BY DEF Word, Numeral, month_, a, b, c
    <3>2. c[1] = "number" /\ day[1] = "number"
      BY DEF Numeral, day, c
    <3>3. b = Word("folder") <=> 3 = 3
      BY DEF Word, Numeral, b
    <3>4. l[4] = Word("group") <=> 3 = 5
      BY <2>7 DEF Word, Numeral, c, month_, b
    <3>5. name # month_ /\ day # month_
      BY DEF Word, Numeral, name, day, month_
    <3> QED BY <3>1, <3>2, <3>3, <3>4, <3>5, <1>1, <2>7 DEF Shape, month_
  <2> QED BY <2>8
<1>6. CASE front = <<Word("perm"), Numeral(326), Numeral(1391972), Numeral(n)>>
  <2> DEFINE a == Word("perm")
             b == Numeral(326)
             c == Numeral(1391972)
             e == Numeral(n)
             T == {a, b, c, e, month_, day, y, name}
  <2>1. front = <<a, b, c, e>>
    BY <1>6
  <2> HIDE DEF a, b, c, e
  <2>2. front \in Seq(T) /\ Len(front) = 4
    BY <2>1
  <2>3. front[1] = a /\ front[2] = b /\ front[3] = c /\ front[4] = e
    BY <2>1
  <2>4. date \in Seq(T) /\ Len(date) = 3 /\ date[1] = month_ /\ date[2] = day /\ date[3] = y
    BY <1>m
  <2>5. name \in T
    OBVIOUS
  <2> HIDE DEF T
  <2>c. date \in Seq(T) /\ Len(date) = 3
    BY <2>4
  <2>f. front \in Seq(T)
    BY <2>2
  <2>6. /\ Len(l) = Len(front) + 4 /\ l # <<>>
        /\ \A i \in 1 .. Len(front) : l[i] = front[i]
        /\ l[Len(front) + 1] = date[1] /\ l[Len(front) + 2] = date[2]
        /\ l[Len(front) + 3] = date[3] /\ l[Len(front) + 4] = name
    <3>1. Joins(l, front, date, name)
      BY <2>f, <2>c, <2>5, Joined, Zenon DEF l
    <3> QED BY <3>1 DEF Joins
  <2>7. /\ Len(l) = 8 /\ l # <<>>
        /\ l[1] = a /\ l[2] = b /\ l[3] = c /\ l[4] = e
        /\ l[5] = month_ /\ l[6] = day /\ l[7] = y /\ l[8] = name
    BY <2>2, <2>3, <2>4, <2>6
  <2>8. Shape(l, 4)
    <3>1. /\ a # month_ /\ b # month_ /\ c # month_ /\ e # month_
      BY DEF Word, Numeral, month_, a, b, c, e
    <3>2. e[1] = "number" /\ day[1] = "number"
      BY DEF Numeral, day, e
    <3>3. b = Word("folder") <=> 4 = 3
      BY DEF Word, Numeral, b
    <3>4. l[4] = Word("group") <=> 4 = 5
      BY <2>7 DEF Word, Numeral, e, month_, c
    <3>5. name # month_ /\ day # month_
      BY DEF Word, Numeral, name, day, month_
    <3> QED BY <3>1, <3>2, <3>3, <3>4, <3>5, <1>1, <2>7 DEF Shape, month_
  <2> QED BY <2>8
<1> QED BY <1>2, <1>3, <1>4, <1>5, <1>6 DEF Fronts

-----------------------------------------------------------------------------
(* A line read column by column. *)

\* What GetLISTSize and TrueSize make of a line of k columns before the month.
LEMMA SizeFound ==
    ASSUME NEW k, Shape(listing, k)
    PROVE  TrueSize = Number(listing[k]) /\ SizeNeedsGroup
<1> DEFINE P(i) == i \in DOMAIN listing /\ listing[i] = Word("month")
           column == CHOOSE i \in DOMAIN listing : listing[i] = Word("month")
<1>1. column = k + 1
  <2>0. k \in Int /\ (k = 3 \/ k = 4 \/ k = 5) /\ Len(listing) = k + 4
    BY DEF Shape
  <2>1. k + 1 \in DOMAIN listing /\ listing[k + 1] = Word("month")
    BY <2>0 DEF Shape
  <2>2. ASSUME NEW i \in DOMAIN listing, i # k + 1 PROVE listing[i] # Word("month")
    <3>1. i \in 1 .. k + 4
      BY <2>0
    <3>2. CASE k = 3
      <4>1. i = 1 \/ i = 2 \/ i = 3 \/ i = k + 2 \/ i = k + 3 \/ i = k + 4
        BY <2>2, <3>1, <3>2
      <4> QED BY <4>1 DEF Shape
    <3>3. CASE k = 4
      <4>1. i = 1 \/ i = 2 \/ i = 3 \/ i = k \/ i = k + 2 \/ i = k + 3 \/ i = k + 4
        BY <2>2, <3>1, <3>3
      <4> QED BY <4>1 DEF Shape
    <3>4. CASE k = 5
      <4>1. i = 1 \/ i = 2 \/ i = 3 \/ i = 4 \/ i = k \/ i = k + 2 \/ i = k + 3 \/ i = k + 4
        BY <2>2, <3>1, <3>4
      <4>2. listing[4] # Word("month")
        BY <3>4 DEF Shape, Word
      <4> QED BY <4>1, <4>2 DEF Shape
    <3> QED BY <2>0, <3>2, <3>3, <3>4
  <2> QED BY <2>1, <2>2
<1>2. TrueSize = Number(listing[k])
  <2>1. column - 1 = k
    <3> HIDE DEF column
    <3>1. k \in Int
      BY DEF Shape
    <3> QED BY <1>1, <3>1
  <2>2. TrueSize = Number(listing[column - 1])
    BY Zenon DEF TrueSize
  <2> QED BY <2>1, <2>2
<1>3. SizeNeedsGroup
  <2>1. CASE k = 3
    BY <2>1 DEF SizeNeedsGroup, GetLISTSize, Shape, Word
  <2>2. CASE k = 4
    BY <2>2 DEF SizeNeedsGroup, GetLISTSize, Shape, Word
  <2>3. CASE k = 5
    BY <2>3, <1>2 DEF SizeNeedsGroup, GetLISTSize, Shape, Word, Number
  <2> QED BY <2>1, <2>2, <2>3 DEF Shape
<1> QED BY <1>2, <1>3

\* The date that a line shows.
When(k) ==
    IF listing[k + 3][1] = "time" THEN guesstai(Tai(today), 3, listing[k + 2][2])
    ELSE totai(listing[k + 3][2], 3, listing[k + 2][2])

\* How far Parse has come in a line, and what it has found.
Read(k) ==
    /\ Shape(listing, k)
    /\ place \in 0 .. k + 3
    /\ place < k => state = IF k = 3 /\ place = 2 THEN 4 ELSE place + 1
    /\ place = k => state = 5
    /\ place > k => state = place - k + 5
    /\ place >= k => size = Number(listing[k])
    /\ place > k => month = 3
    /\ place > k + 1 => mday = Number(listing[k + 2])
    /\ place > k + 2 => when = When(k)

\* The clock and the file have dates, the file's not after and not long before.
Calendar ==
    /\ Dated(today) /\ Dated(past)
    /\ Tai(past) <= Tai(today) /\ Tai(today) - Tai(past) <= Recent

FtpListInv ==
    /\ Calendar
    /\ listing = <<>> => place = 0
    /\ listing # <<>> => \E k \in 3 .. 5 : Read(k)

\* The inductive invariant says what the property says.
LEMMA FtpListReads == FtpListInv => ListingRead
<1> SUFFICES ASSUME FtpListInv PROVE ListingRead
  OBVIOUS
<1>1. ColumnsFound /\ SizeNeedsGroup
  <2>1. CASE listing = <<>>
    BY <2>1 DEF ColumnsFound, SizeNeedsGroup
  <2>2. CASE listing # <<>>
    <3>1. PICK k \in 3 .. 5 : Read(k)
      BY <2>2 DEF FtpListInv
    <3>2. TrueSize = Number(listing[k]) /\ SizeNeedsGroup
      BY <3>1, SizeFound DEF Read
    <3>3. ColumnsFound
      <4> SUFFICES ASSUME place = Len(listing) - 1
                   PROVE  /\ state = 8 /\ size = TrueSize
                          /\ when = IF listing[place][1] = "time"
                                    THEN guesstai(Tai(today), 3, listing[place - 1][2])
                                    ELSE totai(listing[place][2], 3, listing[place - 1][2])
        BY DEF ColumnsFound
      <4>1. place = k + 3 /\ place - 1 = k + 2 /\ place > k + 2 /\ place > k /\ place >= k
        BY <3>1 DEF Read, Shape
      <4>2. state = 8 /\ size = TrueSize
        BY <3>1, <3>2, <4>1 DEF Read
      <4>3. when = When(k)
        BY <3>1, <4>1 DEF Read
      <4> QED BY <4>1, <4>2, <4>3 DEF When
    <3> QED BY <3>2, <3>3
  <2> QED BY <2>1, <2>2
<1>2. CalendarAgrees
  BY NextDay, YearOfDay DEF CalendarAgrees, FtpListInv, Calendar
<1>3. RecentDatesGuessed
  <2>1. Tai(today) \in Int /\ Tai(past) \in Int
    BY NextDay DEF FtpListInv, Calendar
  <2>2. Tai(today) - Tai(past) < 350
    BY <2>1, FtpListAssumption DEF FtpListInv, Calendar
  <2>3. Dated(today) /\ Dated(past) /\ Tai(past) <= Tai(today)
    BY DEF FtpListInv, Calendar
  <2> QED BY <2>2, <2>3, Guessed DEF RecentDatesGuessed
<1> QED BY <1>1, <1>2, <1>3 DEF ListingRead

\* It holds of a line of which nothing is read.
LEMMA FtpListBegins == FtpListInit => FtpListInv
<1> SUFFICES ASSUME FtpListInit PROVE FtpListInv
  OBVIOUS
<1>1. PICK l : FtpListStart(l) /\ (l # <<>> => \E k \in 3 .. 5 : Shape(l, k))
  <2>1. CASE FtpListStart(<<>>)
    BY <2>1
  <2>2. CASE \E n \in Sizes : \E front \in Fronts(n), date \in Dates :
               FtpListStart(front \o date \o <<Word("name")>>)
    BY <2>2, Shapes
  <2> QED BY <2>1, <2>2 DEF FtpListInit
<1>2. Calendar
  <2>1. today = [year |-> FirstYear, month |-> 2, mday |-> 1] /\ past = today
    BY <1>1 DEF FtpListStart
  <2>2. Dated(today)
    <3>1. FirstYear \in Int
      BY FtpListAssumption
    <3> QED BY <2>1, <3>1 DEF Dated, DaysIn
  <2>3. Tai(today) \in Int
    BY <2>2, NextDay
  <2> QED BY <2>1, <2>2, <2>3, FtpListAssumption DEF Calendar
<1>3. listing = l /\ place = 0 /\ state = 1
  BY <1>1 DEF FtpListStart
<1>4. ASSUME listing # <<>> PROVE \E k \in 3 .. 5 : Read(k)
  <2>1. PICK k \in 3 .. 5 : Shape(listing, k)
    BY <1>1, <1>3, <1>4
  <2>2. Read(k)
    BY <1>3, <2>1 DEF Read
  <2> QED BY <2>2
<1> QED BY <1>2, <1>3, <1>4 DEF FtpListInv

\* A day that passes keeps the calendar, a column read keeps Read.
LEMMA FtpListStep == FtpListInv /\ [FtpListNext]_lvars => FtpListInv'
<1> SUFFICES ASSUME FtpListInv, [FtpListNext]_lvars PROVE FtpListInv'
  OBVIOUS
<1>1. CASE DayPasses
  <2>1. listing = <<>> /\ listing' = <<>> /\ place' = place /\ place = 0
    BY <1>1 DEF DayPasses, FtpListInv
  <2>2. Dated(today) /\ Dated(past) /\ Tai(past) <= Tai(today) /\ Tai(today) - Tai(past) <= Recent
    BY DEF FtpListInv, Calendar
  <2>3. /\ Dated(Tomorrow(today)) /\ Dated(Tomorrow(past))
        /\ Tai(Tomorrow(today)) = Tai(today) + 1 /\ Tai(Tomorrow(past)) = Tai(past) + 1
        /\ Tai(today) \in Int /\ Tai(past) \in Int
    BY <2>2, NextDay
  <2>4. Calendar'
    <3>1. today' = Tomorrow(today)
      BY <1>1 DEF DayPasses
    <3>2. Tai(today)' = Tai(today) + 1 /\ Dated(today)'
      BY <3>1, <2>3 DEF Tai, Dated
    <3>3. CASE past' = Tomorrow(past)
      <4>1. Tai(past)' = Tai(past) + 1 /\ Dated(past)'
        BY <3>3, <2>3 DEF Tai, Dated
      <4> QED BY <2>2, <2>3, <3>2, <4>1 DEF Calendar
    <3>4. CASE past' = past /\ Tai(today) - Tai(past) < Recent
      <4>1. Tai(past)' = Tai(past) /\ Dated(past)'
        BY <3>4, <2>2 DEF Tai, Dated
      <4>2. Recent \in Int
        BY FtpListAssumption
      <4> QED BY <2>2, <2>3, <3>2, <3>4, <4>1, <4>2 DEF Calendar
    <3> QED BY <1>1, <3>3, <3>4 DEF DayPasses
  <2> QED BY <2>1, <2>4 DEF FtpListInv
<1>2. CASE UNCHANGED lvars
  <2>1. Calendar'
    BY <1>2 DEF FtpListInv, Calendar, lvars, Tai, Dated
  <2> QED BY <1>2, <2>1 DEF FtpListInv, lvars, Read, When, Tai
<1>3. CASE Skip \/ TentativeSize \/ Month \/ Day \/ TimeOrYear
  <2>0. \E there : SeesColumn(there)
    BY <1>3 DEF Skip, TentativeSize, Month, Day, TimeOrYear
  <2>1. listing # <<>> /\ UNCHANGED <<listing, today, past>>
    BY <2>0 DEF FtpListInv, SeesColumn
  <2>2. Calendar'
    BY <2>1 DEF FtpListInv, Calendar, Tai, Dated
  <2>3. PICK k \in 3 .. 5 : Read(k)
    BY <2>1 DEF FtpListInv
  <2>4. place < k + 3 /\ place' = place + 1 /\ place \in Nat /\ Len(listing) = k + 4 /\ Column = listing[place']
    BY <2>0, <2>3 DEF SeesColumn, Read, Shape, Column
  <2>5. Shape(listing, k)' /\ When(k)' = When(k)
    BY <2>1, <2>3 DEF Read, When, Tai, Shape
  <2>6. Read(k)'
    <3>k. k = 3 \/ k = 4 \/ k = 5
      OBVIOUS
    <3>1. CASE Skip
      <4>1. place < k /\ ~ (k = 3 /\ place = 2)
        BY <3>1, <2>3, <2>4, <3>k DEF Skip, Read
      <4>2. state' = IF state = 2 /\ Column = Word("folder") THEN 4 ELSE state + 1
        BY <3>1 DEF Skip, SeesColumn
      <4>3. state = place + 1 /\ place < 3
        BY <3>1, <2>3, <4>1 DEF Read, Skip
      <4>4. state = 2 => (Column = Word("folder") <=> k = 3)
        <5>1. state = 2 => place' = 2
          BY <4>3, <2>4
        <5> QED BY <5>1, <2>3, <2>4 DEF Read, Shape
      <4>5. place' <= k /\ (place' < k => state' = IF k = 3 /\ place' = 2 THEN 4 ELSE place' + 1)
        BY <4>1, <4>2, <4>3, <4>4, <2>4, <3>k
      <4>6. place' < k
        BY <4>1, <4>3, <2>4, <3>k
      <4> QED BY <4>5, <4>6, <2>4, <2>5 DEF Read
    <3>2. CASE TentativeSize
      <4>1. place < k
        <5>1. CASE state = 4
          BY <5>1, <2>3, <2>4, <3>k DEF Read
        <5>2. CASE state = 5 /\ Column # Word("month")
          BY <5>2, <2>3, <2>4, <3>k DEF Read, Shape
        <5> QED BY <3>2, <5>1, <5>2 DEF TentativeSize
      <4>2. place + 1 = k \/ place + 2 = k
        BY <3>2, <4>1, <2>3, <2>4, <3>k DEF Read, TentativeSize
      <4>3. state' = 5 /\ size' = Number(Column)
        BY <3>2 DEF TentativeSize, SeesColumn
      <4>4. CASE place + 1 = k
        <5>1. /\ place' = k /\ Column = listing[k] /\ place' \in 0 .. k + 3
              /\ ~ (place' < k) /\ ~ (place' > k) /\ ~ (place' > k + 1) /\ ~ (place' > k + 2)
          BY <4>4, <2>4, <3>k
        <5>2. size' = Number(listing'[k])
          BY <5>1, <4>3, <2>1
        <5> QED BY <5>1, <5>2, <4>3, <2>5 DEF Read
      <4>5. CASE place + 2 = k
        <5>1. place' < k /\ ~ (k = 3 /\ place' = 2) /\ place' + 1 = 5
          BY <3>2, <4>1, <4>5, <2>3, <2>4, <3>k DEF Read, TentativeSize
        <5> QED BY <5>1, <4>3, <2>4, <2>5 DEF Read
      <4> QED BY <4>2, <4>4, <4>5
    <3>3. CASE Month
      <4>1. place = k
        <5>1. state = 5 /\ Column = Word("month")
          BY <3>3 DEF Month
        <5>2. ~ (place > k)
          BY <5>1, <2>3, <2>4, <3>k DEF Read
        <5>3. ~ (place < k)
          <6>1. SUFFICES ASSUME place < k PROVE FALSE
            OBVIOUS
          <6>2. place = 4 /\ k = 5
            BY <5>1, <6>1, <2>3, <2>4, <3>k DEF Read
          <6> QED BY <5>1, <6>2, <2>3, <2>4 DEF Read, Shape, Word
        <5> QED BY <5>2, <5>3, <2>4, <3>k
      <4>2. state' = 6 /\ month' = 3 /\ size' = size
        BY <3>3 DEF Month, SeesColumn
      <4>p. /\ place' = k + 1 /\ place' \in 0 .. k + 3 /\ place' - k + 5 = 6
            /\ ~ (place' < k) /\ ~ (place' = k) /\ ~ (place' > k + 1) /\ ~ (place' > k + 2)
        BY <4>1, <2>4, <3>k
      <4>s. size' = Number(listing'[k])
        BY <4>1, <4>2, <2>1, <2>3, <3>k DEF Read
      <4> QED BY <4>p, <4>s, <4>2, <2>5 DEF Read
    <3>4. CASE Day
      <4>1. place = k + 1
        BY <3>4, <2>3, <2>4, <3>k DEF Day, Read
      <4>2. state' = 7 /\ mday' = Number(Column) /\ size' = size /\ month' = month
        BY <3>4 DEF Day, SeesColumn
      <4>p. /\ place' = k + 2 /\ place' \in 0 .. k + 3 /\ place' - k + 5 = 7
            /\ ~ (place' < k) /\ ~ (place' = k) /\  (place' > k + 1) /\ ~ (place' > k + 2)
        BY <4>1, <2>4, <3>k
      <4>s. size' = Number(listing'[k])
        BY <4>1, <4>2, <2>1, <2>3, <3>k DEF Read
      <4>m. month' = 3 /\ mday' = Number(listing'[k + 2])
        BY <4>1, <4>2, <4>p, <2>1, <2>3, <2>4, <3>k DEF Read
      <4> QED BY <4>p, <4>s, <4>m, <4>2, <2>5 DEF Read
    <3>5. CASE TimeOrYear
      <4>1. place = k + 2
        BY <3>5, <2>3, <2>4, <3>k DEF TimeOrYear, Read
      <4>2. /\ state' = 8 /\ mday' = mday /\ size' = size /\ month' = month
            /\ when' = IF Column[1] = "time" THEN guesstai(Tai(today), month, mday)
                       ELSE totai(Number(Column), month, mday)
        BY <3>5 DEF TimeOrYear, SeesColumn
      <4>3. place' = k + 3
        BY <4>1, <2>4, <3>k
      <4>4. month = 3 /\ mday = listing[k + 2][2]
        BY <4>1, <2>3, <3>k DEF Read, Shape, Number
      <4>5. Column[1] # "time" => Number(Column) = listing[k + 3][2]
        BY <4>3, <2>3, <2>4 DEF Read, Shape, Number
      <4>6. when' = When(k)
        BY <4>2, <4>3, <4>4, <4>5, <2>4 DEF When
      <4>p. /\ place' = k + 3 /\ place' \in 0 .. k + 3 /\ place' - k + 5 = 8
            /\ ~ (place' < k) /\ ~ (place' = k) /\  (place' > k + 1) /\  (place' > k + 2)
        BY <4>1, <2>4, <3>k
      <4>s. size' = Number(listing'[k])
        BY <4>1, <4>2, <2>1, <2>3, <3>k DEF Read
      <4>m. month' = 3 /\ mday' = Number(listing'[k + 2])
        BY <4>1, <4>2, <2>1, <2>3, <3>k DEF Read
      <4> QED BY <4>p, <4>s, <4>m, <4>2, <4>6, <2>5 DEF Read
    <3> QED BY <1>3, <3>1, <3>2, <3>3, <3>4, <3>5
  <2> QED BY <2>1, <2>2, <2>6 DEF FtpListInv
<1> QED BY <1>1, <1>2, <1>3 DEF FtpListNext

\* What FtpListParse::Parse finds in a line, what GetLISTSize makes of it, how
\* totai, currentyear and guesstai count days and guess years (headers.cpp): for
\* all sizes, from any first year on, and dates up to 349 days old.
THEOREM ListingsRead == FtpListSpec => []ListingRead
<1>1. FtpListInit => FtpListInv
  BY FtpListBegins
<1>2. FtpListInv /\ [FtpListNext]_lvars => FtpListInv'
  BY FtpListStep
<1>3. FtpListInv => ListingRead
  BY FtpListReads
<1> QED BY <1>1, <1>2, <1>3, PTL DEF FtpListSpec
=============================================================================
