-------------------------------- MODULE Text --------------------------------
(***************************************************************************)
(* The functions on strings of utils.cpp, and the percent coding of        *)
(* url.cpp.  A text is a sequence of character codes; it is read as a file *)
(* too, by read_whole_line.                                                *)
(***************************************************************************)
EXTENDS Integers, Sequences, SequencesExt

CONSTANTS
    Letters,        \* codes the text is made of, perhaps 0
    MaxText,        \* length of the longest text (model)
    BufSize,        \* read_whole_line's first buffer, 82
    Beyond          \* bytes that may follow a text in memory

ASSUME TextAssumption ==
    Letters \cup Beyond \subseteq 0 .. 255 /\ MaxText \in Nat /\ BufSize \in Nat \ {0, 1}

VARIABLES
    text,           \* the text
    pos,            \* how much of it read_whole_line has read
    line, bufsize,  \* its variables
    lines, over     \* what it has returned; whether NULL at last

tvars == <<text, pos, line, bufsize, lines, over>>

NUL == 0
Newline == 10
Space == 32
Percent == 37
Plus == 43
Comma == 44
Dot == 46
Slash == 47
Equals == 61
NoString == <<-1>>          \* a string that is NULL
NoVec == <<NoString>>       \* a vector that is

\* The last place of one of the codes, or 0.
LastOf(s, codes) ==
    LET at == {i \in DOMAIN s : s[i] \in codes} IN
    IF at = {} THEN 0 ELSE CHOOSE i \in at : \A j \in at : j <= i

-----------------------------------------------------------------------------
(* Lists and names *)

\* A comma ends an element, and the blanks behind it are skipped.
NoElements == [res |-> <<>>, cur |-> <<>>, skip |-> FALSE]
NextInList(v, c) ==
    IF v.skip /\ c = Space THEN v
    ELSE IF c = Comma THEN [res |-> Append(v.res, v.cur), cur |-> <<>>, skip |-> TRUE]
    ELSE [v EXCEPT !.cur = Append(@, c), !.skip = FALSE]
sepstring(s) ==
    LET after[i \in 0 .. Len(s)] == IF i = 0 THEN NoElements ELSE NextInList(after[i - 1], s[i])
        end == after[Len(s)]
    IN  IF s = <<>> THEN NoVec ELSE Append(end.res, end.cur)

merge_vecs(v1, v2) == IF v1 = NoVec THEN v2 ELSE IF v2 = NoVec THEN v1 ELSE v1 \o v2

\* The loop goes back from the terminators while the characters are the same.
match_tail(string, tail) ==
    LET Same(k) == \A j \in 0 .. k - 1 : string[Len(string) - j] = tail[Len(tail) - j]
        most == IF Len(string) < Len(tail) THEN Len(string) ELSE Len(tail)
    IN  \E k \in 0 .. most : Same(k) /\ k = Len(tail)

suffix(s) ==
    LET i == LastOf(s, {Slash, Dot}) IN
    IF i > 0 /\ s[i] = Dot THEN SubSeq(s, i + 1, Len(s)) ELSE NoString

file_merge(base, file) == SubSeq(base, 1, LastOf(base, {Slash})) \o file

frontcmp(s1, s2) ==
    LET common == {n \in 0 .. Len(s1) : n <= Len(s2) /\ SubSeq(s1, 1, n) = SubSeq(s2, 1, n)}
    IN  Len(s1) \in common

\* A separator before every third digit after the first Len % 3, but not first.
add_thousand_seps(sign, digits) ==
    LET mod == Len(digits) % 3 IN
    sign \o FlattenSeq([i \in DOMAIN digits |->
        IF i > mod /\ (i - 1 - mod) % 3 = 0 /\ i # 1 THEN <<Comma, digits[i]>> ELSE <<digits[i]>>])

-----------------------------------------------------------------------------
(* Base 64 *)

Char64(v) == IF v < 26 THEN 65 + v ELSE IF v < 52 THEN 71 + v ELSE IF v < 62 THEN v - 4
             ELSE IF v = 62 THEN Plus ELSE Slash
Value64(c) == IF c \in 65 .. 90 THEN c - 65 ELSE IF c \in 97 .. 122 THEN c - 71
              ELSE IF c \in 48 .. 57 THEN c + 4
              ELSE IF c = Plus THEN 62 ELSE IF c = Slash THEN 63 ELSE -1

\* Three bytes at a time, with those behind the end where there are not three.
base64_encode(s, beyond) ==
    LET groups == (Len(s) + 2) \div 3
        At(i) == IF i <= Len(s) THEN s[i] ELSE beyond
        Group(g) ==
            LET a == At(3 * g - 2) b == At(3 * g - 1) c == At(3 * g)
            IN  <<Char64(a \div 4), Char64((a % 4) * 16 + b \div 16),
                  Char64((b % 16) * 4 + c \div 64), Char64(c % 64)>>
        all == FlattenSeq([g \in 1 .. groups |-> Group(g)])
        pad == 3 * groups - Len(s)
    IN  [i \in DOMAIN all |-> IF i > Len(all) - pad THEN Equals ELSE all[i]]

\* at: which character of four is next; 5: the second =.
NoBytes == [at |-> 1, bits |-> 0, to |-> <<>>, bad |-> FALSE]
Takes(d, v, out) == [d EXCEPT !.at = (d.at % 4) + 1, !.bits = v, !.to = @ \o out]
Next64(d, c) ==
    LET v == Value64(c) IN
    IF d.bad \/ (v < 0 /\ c # Equals) THEN d
    ELSE IF c = Equals THEN
        IF d.at \in {1, 2} THEN [d EXCEPT !.bad = TRUE] ELSE [d EXCEPT !.at = IF @ = 3 THEN 5 ELSE 1]
    ELSE CASE d.at = 1 -> Takes(d, v, <<>>)
           [] d.at = 2 -> Takes(d, v % 16, <<d.bits * 4 + v \div 16>>)
           [] d.at = 3 -> Takes(d, v % 4, <<d.bits * 16 + v \div 4>>)
           [] d.at = 4 -> Takes(d, 0, <<d.bits * 64 + v>>)
           [] d.at = 5 -> [d EXCEPT !.bad = TRUE]
base64_decode(s) ==
    LET after[i \in 0 .. Len(s)] == IF i = 0 THEN NoBytes ELSE Next64(after[i - 1], s[i])
        end == after[Len(s)]
    IN  IF end.bad \/ end.at # 1 THEN NoString ELSE end.to

-----------------------------------------------------------------------------
(* Percent coding: URL::Encode and RawEncode are php_raw_url_encode *)

\* Mutant: the percent sign stands for itself.
Escaped_NotPercent(c) ==
    \/ c < 48 /\ c # 45 /\ c # 46 /\ c # Percent
    \/ c > 57 /\ c < 65
    \/ c > 90 /\ c < 97 /\ c # 95
    \/ c > 122

Escaped(c) ==
    \/ c < 48 /\ c # 45 /\ c # 46
    \/ c > 57 /\ c < 65
    \/ c > 90 /\ c < 97 /\ c # 95
    \/ c > 122

HexChar(n) == IF n < 10 THEN 48 + n ELSE 55 + n
HexValue(c) == IF c \in 48 .. 57 THEN c - 48 ELSE IF c \in 65 .. 70 THEN c - 55
               ELSE IF c \in 97 .. 102 THEN c - 87 ELSE -1
php_htoi(c1, c2) == HexValue(c1) * 16 + HexValue(c2)

Escape(c) == IF Escaped(c) THEN <<Percent, HexChar(c \div 16), HexChar(c % 16)>> ELSE <<c>>

php_raw_url_encode(s) == FlattenSeq([i \in DOMAIN s |-> Escape(s[i])])
php_url_encode(s) ==
    FlattenSeq([i \in DOMAIN s |-> IF s[i] = Space THEN <<Plus>> ELSE Escape(s[i])])

\* A percent sign that two digits do not follow stands for itself; a plus sign
\* is read as the character plus.  left: how much of a code is still to be skipped.
IsCode(s, i) ==
    s[i] = Percent /\ i + 2 <= Len(s) /\ HexValue(s[i + 1]) >= 0 /\ HexValue(s[i + 2]) >= 0
NextCoded(s, plus, v, i) ==
    IF v.left > 0 THEN [v EXCEPT !.left = @ - 1]
    ELSE IF IsCode(s, i) THEN [left |-> 2, dest |-> Append(v.dest, php_htoi(s[i + 1], s[i + 2]))]
    ELSE [v EXCEPT !.dest = Append(@, IF s[i] = Plus THEN plus ELSE s[i])]
Decoded(s, plus) ==
    LET after[i \in 0 .. Len(s)] ==
            IF i = 0 THEN [left |-> 0, dest |-> <<>>] ELSE NextCoded(s, plus, after[i - 1], i)
    IN  after[Len(s)].dest
php_raw_url_decode(s) == Decoded(s, Plus)
php_url_decode(s) == Decoded(s, Space)

-----------------------------------------------------------------------------
(* read_whole_line *)

TextStart(t) ==
    /\ text = t
    /\ pos = 0 /\ line = <<>> /\ bufsize = BufSize /\ lines = <<>> /\ over = FALSE

TextInit == \E n \in 0 .. MaxText : \E t \in [1 .. n -> Letters] : TextStart(t)

\* What fgets reads: what there is room for, up to the end of the line.
InReach ==
    LET most == IF Len(text) - pos < bufsize - Len(line) - 1 THEN Len(text) - pos
                ELSE bufsize - Len(line) - 1
        ends == {n \in 1 .. most : text[pos + n] = Newline}
        n == IF ends = {} THEN most ELSE CHOOSE n \in ends : \A m \in ends : n <= m
    IN  IF n = 0 THEN <<>> ELSE SubSeq(text, pos + 1, pos + n)

\* strlen: what is behind a NUL is lost.
UpToNul(s) ==
    LET nuls == {i \in DOMAIN s : s[i] = NUL} IN
    IF nuls = {} THEN s ELSE SubSeq(s, 1, (CHOOSE i \in nuls : \A j \in nuls : i <= j) - 1)

Returns(s) == lines' = Append(lines, s) /\ line' = <<>> /\ bufsize' = BufSize

fgets ==
    LET read == line \o UpToNul(InReach) IN
    /\ ~ over /\ pos < Len(text)
    /\ pos' = pos + Len(InReach)
    /\ \/ read # <<>> /\ Last(read) = Newline /\ Returns(read)
       \/ read # <<>> /\ Last(read) # Newline /\ line' = read /\ bufsize' = 2 * bufsize /\ UNCHANGED lines
       \/ read = <<>> /\ UNCHANGED <<line, bufsize, lines>>
    /\ UNCHANGED <<text, over>>

\* At the end of the file fgets returns NULL, and what there is is a line.
EndOfFile ==
    /\ ~ over /\ pos = Len(text)
    /\ IF line = <<>> THEN over' = TRUE /\ UNCHANGED <<line, bufsize, lines>>
       ELSE Returns(line) /\ UNCHANGED over
    /\ UNCHANGED <<text, pos>>

TextNext == fgets \/ EndOfFile
TextSpec == TextInit /\ [][TextNext]_tvars

-----------------------------------------------------------------------------
Fresh == pos = 0 /\ ~ over
IsString == NUL \notin ToSet(text)
Splits == {<<SubSeq(text, 1, i), SubSeq(text, i + 1, Len(text))>> : i \in 0 .. Len(text)}
Without(s, code) ==
    LET rest[i \in 0 .. Len(s)] ==
            IF i = 0 THEN <<>> ELSE IF s[i] = code THEN rest[i - 1] ELSE Append(rest[i - 1], s[i])
    IN  rest[Len(s)]

\* Every list that is split keeps all its elements: a comma more is an element
\* more, only blanks behind a comma are dropped, and lists split apart and
\* merged are the list that was put together with a comma.
ListsSplit ==
    Fresh /\ IsString /\ text # <<>> =>
        /\ Len(sepstring(text)) = Len(text) - Len(Without(text, Comma)) + 1
        /\ Without(FlattenSeq(sepstring(text)), Space) = Without(Without(text, Comma), Space)
        /\ \A ab \in Splits :
              ab[1] # <<>> /\ ab[2] # <<>> /\ Head(ab[2]) # Space =>
                  merge_vecs(sepstring(ab[1]), sepstring(ab[2]))
                      = sepstring(ab[1] \o <<Comma>> \o ab[2])

\* A merged name ends with the file's name and has its suffix, and what is in
\* front of it is a directory or nothing.
NamesMerge ==
    Fresh /\ IsString =>
        \A ab \in Splits :
            LET name == file_merge(ab[1], ab[2]) IN
            /\ match_tail(name, ab[2]) /\ suffix(name) = suffix(ab[2])
            /\ ab[2] # text => frontcmp(SubSeq(text, 1, Len(name) - Len(ab[2])), ab[1])
            /\ match_tail(ab[1], ab[2]) => Len(ab[2]) <= Len(ab[1])

\* The separators are where they belong, counted from the right, and without
\* them it is the number.
SepsFromTheRight ==
    Fresh /\ IsString /\ Comma \notin ToSet(text) =>
        LET s == add_thousand_seps(<<>>, text) IN
        /\ Without(s, Comma) = text
        /\ \A i \in DOMAIN s : s[i] = Comma <=> (Len(s) - i + 1) % 4 = 0

\* What was encoded is decoded, though the encoder reads bytes behind the end
\* (utils.cpp:1265), and also when codes are joined and broken into lines.
Base64RoundTrip ==
    Fresh => \A ab \in Splits, x, y \in Beyond :
        base64_decode(base64_encode(ab[1], x) \o <<Newline>> \o base64_encode(ab[2], y)) = text

\* Coding a text and decoding it gives it back, even if it looks encoded; and
\* a coded text has no character that means something in a URL.
UrlRoundTrip ==
    Fresh =>
        /\ php_raw_url_decode(php_raw_url_encode(text)) = text
        /\ php_url_decode(php_url_encode(text)) = text
        /\ ToSet(php_raw_url_encode(text)) \cap {Slash, Space, Plus, Equals} = {}

\* Lines of any length are read whole, one by one, and together are the file,
\* if there is no NUL in it; there is always room for the next character.
LinesRead ==
    /\ bufsize - Len(line) >= 2
    /\ IsString =>
          /\ FlattenSeq(lines) \o line = SubSeq(text, 1, pos)
          /\ \A i \in DOMAIN lines : \A k \in DOMAIN lines[i] :
                lines[i][k] = Newline => k = Len(lines[i])
          /\ \A i \in 1 .. Len(lines) - 1 : Last(lines[i]) = Newline

\* No conversion loses a character: what is split, merged, grouped, encoded or
\* read in pieces can be put together again.
TextKept ==
    /\ ListsSplit
    /\ NamesMerge
    /\ SepsFromTheRight
    /\ Base64RoundTrip
    /\ UrlRoundTrip
    /\ LinesRead
=============================================================================
