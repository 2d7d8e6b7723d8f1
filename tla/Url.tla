--------------------------------- MODULE Url ---------------------------------
(***************************************************************************)
(* url.cpp: class URL.  A URL is a sequence of words, numbers and the      *)
(* separators the parser looks for; an IPv6 address is left out.           *)
(***************************************************************************)
EXTENDS Integers, Sequences

CONSTANTS
    Schemes,        \* words that may come before ://
    Ports,          \* numbers, as a function from their text to their value
    MaxGets         \* bound on the calls after Parse

Separators == {":", "/", "@", "?", "#"}
Terminator == "NUL"          \* what is behind the end
PortNumbers == 0 .. 99999    \* Parse refuses more than five digits

ASSUME UrlAssumption ==
    /\ DOMAIN Ports \subseteq STRING /\ (Schemes \cup DOMAIN Ports) \cap (Separators \cup {Terminator}) = {}
    /\ \A d \in DOMAIN Ports : Ports[d] \in PortNumbers
    /\ MaxGets \in Nat

VARIABLES
    parts,          \* what the URL was put together from
    parsed,         \* what Parse has made of it
    path,           \* this->path, which the getters may set
    answers         \* history: what GetFullPath has returned

uvars == <<parts, parsed, path, answers>>

NULL == <<"NULL">>
DefaultPath == <<"/">>

\* The first place of c in t from a on, or 0: memchr and strchr.
Find(t, c, a) ==
    LET at == {i \in a .. Len(t) : t[i] = c} IN
    IF at = {} THEN 0 ELSE CHOOSE i \in at : \A j \in at : i <= j
FindLast(t, c, a, b) ==
    LET at == {i \in a .. b : t[i] = c} IN
    IF at = {} THEN 0 ELSE CHOOSE i \in at : \A j \in at : i >= j
CharAt(t, i) == IF i \in DOMAIN t THEN t[i] ELSE Terminator
IsNumber(t, i) == CharAt(t, i) \in DOMAIN Ports
Piece(t, a, b) == IF a <= b THEN SubSeq(t, a, b) ELSE NULL

Port16(i) == i % 65536         \* the port is an unsigned short

\* A number after position i, or nothing, and then the path or the end.
PortFollows(t, i) ==
    LET p == IF IsNumber(t, i + 1) THEN i + 2 ELSE i + 1 IN CharAt(t, p) \in {"/", Terminator}

Prefixed(scheme, t) == <<scheme, ":", "/", "/">> \o t

\* RewriteShortHandUrl.
Rewritten(t) ==
    LET stops == {i \in DOMAIN t : t[i] \in {":", "/"}}
        p == IF stops = {} THEN Len(t) + 1 ELSE CHOOSE i \in stops : \A j \in stops : i <= j
    IN  IF p = 1 \/ (CharAt(t, p) = ":" /\ CharAt(t, p + 1) = "/" /\ CharAt(t, p + 2) = "/") THEN t
        ELSE IF CharAt(t, p) = ":" /\ ~ (IsNumber(t, p + 1) /\ PortFollows(t, p))
        THEN Prefixed("ftp", [t EXCEPT ![p] = "/"])
        ELSE Prefixed("http", t)

-----------------------------------------------------------------------------
(* Parse *)

EmptyUrl == [ok |-> TRUE, scheme |-> NULL, user |-> NULL, pass |-> NULL, host |-> NULL,
             port |-> 0, path |-> NULL, query |-> NULL, fragment |-> NULL, full |-> NULL]

\* The scheme: where the rest starts, and whether a host is looked for there.
SchemeOf(t) ==
    LET e == Find(t, ":", 1)
        Go(scheme, s, host) == [scheme |-> scheme, s |-> s, host |-> host, port |-> 0]
        JustPort == IF PortFollows(t, e)
                    THEN [Go(NULL, 1, TRUE) EXCEPT !.port = IF IsNumber(t, e + 1) THEN Ports[t[e + 1]] ELSE 0]
                    ELSE Go(NULL, 1, FALSE)
        scheme == SubSeq(t, 1, e - 1)
        isFile == scheme = <<"file">>
    IN  IF e = 0 THEN Go(NULL, 1, FALSE)
        ELSE IF e = 1 THEN JustPort
        ELSE IF CharAt(t, e + 1) # "/" THEN IF PortFollows(t, e) THEN JustPort ELSE Go(scheme, e + 1, FALSE)
        ELSE IF CharAt(t, e + 2) # "/" THEN Go(scheme, e + 1, FALSE)
        ELSE IF isFile /\ CharAt(t, e + 3) = "/"
        THEN Go(scheme, IF CharAt(t, e + 5) = ":" THEN e + 4 ELSE e + 3, FALSE)
        ELSE Go(scheme, e + 3, TRUE)

\* Mutant: only a slash ends host and port.
AuthorityEnd_Slash(t, s) == IF Find(t, "/", s) > 0 THEN Find(t, "/", s) ELSE Len(t) + 1

\* Where host and port end: before the first / or else ? or else #.
AuthorityEnd(t, s) ==
    IF Find(t, "/", s) > 0 THEN Find(t, "/", s)
    ELSE IF Find(t, "?", s) > 0 THEN Find(t, "?", s)
    ELSE IF Find(t, "#", s) > 0 THEN Find(t, "#", s)
    ELSE Len(t) + 1

\* Login, port and host.
WithAuthority(u, t, s0, e) ==
    LET p  == Find(t, "@", s0)
        login == p > 0 /\ p < e
        pp == Find(t, ":", s0)
        both == login /\ pp > 0 /\ pp < p
        s  == IF login THEN p + 1 ELSE s0
        c  == FindLast(t, ":", s, e - 1)
        hostEnd == IF c > 0 THEN c - 1 ELSE e - 1
    IN  IF s > hostEnd THEN [u EXCEPT !.ok = FALSE]
        ELSE [u EXCEPT
            !.user = IF both THEN Piece(t, s0, pp - 1) ELSE IF login THEN Piece(t, s0, p - 1) ELSE @,
            !.pass = IF both THEN Piece(t, pp + 1, p - 1) ELSE @,
            !.host = SubSeq(t, s, hostEnd),
            !.port = IF @ = 0 /\ c > 0 /\ IsNumber(t, c + 1) THEN Port16(Ports[t[c + 1]]) ELSE @]

\* Path, query and fragment.  A # in front of the ? is taken for it.
WithPath(u, t, s) ==
    LET q  == Find(t, "?", s)
        f0 == Find(t, "#", s)
        swapped == q > 0 /\ f0 > 0 /\ f0 < q
        p  == IF swapped THEN f0 ELSE IF q > 0 THEN q ELSE f0
        f  == IF swapped THEN Find(t, "#", f0 + 2) ELSE f0
        way == IF p > 0 THEN Piece(t, s, p - 1) ELSE SubSeq(t, s, Len(t))
        query == IF q = 0 THEN NULL ELSE IF f > 0 THEN Piece(t, p + 1, f - 1) ELSE Piece(t, p + 1, Len(t))
    IN  [u EXCEPT
            !.path = way, !.query = query,
            !.fragment = IF f > 0 THEN Piece(t, f + 1, Len(t)) ELSE NULL,
            \* strcpy or sprintf of a path that is NULL
            !.full = IF query # NULL THEN (IF way = NULL THEN <<"(null)">> ELSE way) \o <<"?">> \o query
                     ELSE IF way = NULL THEN <<"crash">> ELSE way]

ParseUrl(text) ==
    LET t == Rewritten(text)
        g == SchemeOf(t)
        u == [EmptyUrl EXCEPT !.scheme = g.scheme, !.port = g.port]
        e == AuthorityEnd(t, g.s)
        a == WithAuthority(u, t, g.s, e)
    IN  IF ~ g.host THEN WithPath(u, t, g.s)
        ELSE IF ~ a.ok \/ e > Len(t) THEN a
        ELSE WithPath(a, t, e)

\* The last part of the whole URL, back to a slash; at a question mark what
\* was collected, the query, is dropped.
GetBaseFileName(text) ==
    LET t == Rewritten(text)
        s == FindLast(t, "/", 1, Len(t))
        q == Find(t, "?", s + 1)
        name == SubSeq(t, s + 1, IF q = 0 THEN Len(t) ELSE q - 1)
    IN  IF name = <<>> THEN <<"index.html">> ELSE name

GetPort(u) ==
    IF u.port # 0 THEN u.port
    ELSE IF u.scheme = <<"http">> THEN 80
    ELSE IF u.scheme = <<"https">> THEN 443
    ELSE IF u.scheme = <<"ftp">> THEN 21 ELSE 0

-----------------------------------------------------------------------------
(* One URL, put together from its parts *)

Optional(sign, words) == {<<>>} \cup {<<sign, w>> : w \in words}

PartsSet ==
    [scheme : {<<>>} \cup {<<s, ":", "/", "/">> : s \in Schemes},
     login  : {<<>>, <<"me", "@">>, <<"me", ":", "secret", "@">>},
     port   : Optional(":", DOMAIN Ports),
     path   : {<<>>, <<"/">>, <<"/", "dir", "/", "file">>},
     query  : Optional("?", {"q"}),
     fragment : {<<>>, <<"#", "part">>, <<"#", "part", "?", "x">>}]

Compose(p) == p.scheme \o p.login \o <<"www">> \o p.port \o p.path \o p.query \o p.fragment

UrlStart(p) ==
    /\ parts = p
    /\ parsed = ParseUrl(Compose(parts))
    /\ path = parsed.path
    /\ answers = <<>>

UrlInit == \E p \in PartsSet : UrlStart(p)

GetPath ==
    /\ Len(answers) < MaxGets
    /\ path' = IF path = NULL THEN DefaultPath ELSE path
    /\ UNCHANGED <<parts, parsed, answers>>

\* this->path is set where full_path is not.
GetFullPath ==
    /\ Len(answers) < MaxGets
    /\ path' = IF path = NULL THEN DefaultPath ELSE path
    /\ answers' = Append(answers, IF path = NULL THEN DefaultPath ELSE parsed.full)
    /\ UNCHANGED <<parts, parsed>>

UrlNext == GetPath \/ GetFullPath

UrlSpec == UrlInit /\ [][UrlNext]_uvars

-----------------------------------------------------------------------------
After(seq, n) == IF Len(seq) > n THEN SubSeq(seq, n + 1, Len(seq)) ELSE NULL
PlainText == parts.scheme # <<>> /\ (Len(parts.fragment) < 3 \/ parts.query # <<>>)

\* Every part of a URL with a scheme is found, whichever of the others are
\* missing; only a fragment with a question mark, and no query before it, is
\* taken for a query.
PartsFound ==
    PlainText =>
        /\ parsed.ok /\ parsed.scheme = <<parts.scheme[1]>> /\ parsed.host = <<"www">>
        /\ parsed.user = (IF parts.login = <<>> THEN NULL ELSE <<"me">>)
        /\ parsed.pass = (IF Len(parts.login) = 4 THEN <<"secret">> ELSE NULL)
        /\ parts.port # <<>> => parsed.port = Port16(Ports[parts.port[2]])
        /\ parsed.path = After(parts.path, 0)
        /\ parsed.query = After(parts.query, 1)
        /\ parsed.fragment = After(parts.fragment, 1)

\* A short hand without a login is completed as url.h says: it is HTTP, or FTP
\* if a colon is followed by something other than a port, and the rest of the
\* URL is what it would be with the scheme written out.
ShortHandCompleted ==
    parts.scheme = <<>> /\ parts.login = <<>> =>
        LET long == Prefixed("http", Compose(parts)) IN
        \/ parsed = ParseUrl(long)
        \/ parts.port # <<>> /\ parts.path = <<>> /\ parsed.scheme = <<"ftp">>

\* The file is named after the last component of the path, whatever login,
\* port and query there are.  Without a path it is named after what follows
\* the scheme, and a fragment without a query before it is part of the name.
FileNamed ==
    LET leaf == IF parts.path = <<>> THEN parts.login \o <<"www">> \o parts.port
                ELSE SubSeq(parts.path, 4, Len(parts.path))
        added == IF parts.query = <<>> /\ parts.fragment # <<>> THEN SubSeq(parts.fragment, 1, 2) ELSE <<>>
        name == leaf \o added
    IN  parts.scheme # <<>> =>
            GetBaseFileName(Compose(parts)) = (IF name = <<>> THEN <<"index.html">> ELSE name)

\* The path asked of the server is the path of the URL, with its query, every
\* time it is asked for.  Of a URL without a path only the first answer is "/":
\* it sets this->path, and the answer after it is full_path, which is NULL.
FullPathKept ==
    \A i \in DOMAIN answers :
        /\ PlainText /\ parts.path # <<>> => answers[i] = parts.path \o parts.query
        /\ PlainText /\ i > 1 /\ parsed.path = NULL => answers[i] = parsed.full

\* Whatever is left out of a URL, its parts, what is asked of the server and
\* the name of the local file come from the right places.
UrlTakenApart == PartsFound /\ ShortHandCompleted /\ FullPathKept /\ FileNamed
=============================================================================
