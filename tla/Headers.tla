------------------------------- MODULE Headers -------------------------------
(***************************************************************************)
(* headers.cpp: HttpHeader, a map of header fields that is printed as a    *)
(* request and filled from an answer.  Text is a sequence of characters    *)
(* and of words that no test looks into.                                   *)
(***************************************************************************)
EXTENDS Integers, Sequences, SequencesExt

CONSTANTS
    Fields,         \* names of fields, in the order of the map
    Contents,       \* values a caller adds: sequences of characters
    Codes,          \* statuses of an answer
    Version         \* "HTTP/1.0"

CR == "\r"
LF == "\n"
Colon == ":"
Blank == " "
EndOfLine == <<CR, LF>>

\* Names are words other than "Status", and no value has the end of a line in it.
ASSUME HeadersAssumption ==
    /\ Fields \in Seq(STRING) /\ IsInjective(Fields)
    /\ \A i \in DOMAIN Fields : Fields[i] \notin {"Status", CR, LF, Colon}
    /\ Contents \subseteq Seq(STRING) /\ \A v \in Contents : \A i \in DOMAIN v : v[i] \notin {CR, LF}
    /\ \A c \in Codes \cup {Version} : c \in STRING /\ c \notin {CR, LF, Colon}

VARIABLES
    fields,         \* mHeader
    headerLength,   \* mHeaderLength
    before          \* history: the fields that the answer read last was made of

rqvars == <<fields, headerLength, before>>

NoFields == <<>>
HeaderInit == fields = NoFields /\ headerLength = 0 /\ before = NoFields

With(m, k, v) == [x \in DOMAIN m \cup {k} |-> IF x = k THEN v ELSE m[x]]
Lookup(m, k) == IF k \in DOMAIN m THEN m[k] ELSE <<>>

\* An answer is not added to: TaskValid parses one and looks at it.
Answered == "Status" \in DOMAIN fields

AddHeader(k, v) ==
    /\ ~ Answered
    /\ fields' = With(fields, k, v)
    /\ UNCHANGED <<headerLength, before>>

RemoveHeader(k) ==
    /\ ~ Answered
    /\ fields' = [x \in DOMAIN fields \ {k} |-> fields[x]]
    /\ UNCHANGED <<headerLength, before>>

ClearHeaders == fields' = NoFields /\ before' = NoFields /\ UNCHANGED headerLength

-----------------------------------------------------------------------------
Requests == {"GET", "POST", "HEADER"}

FieldLine(k, v) == <<k, Colon, Blank>> \o v \o EndOfLine
RequestLine(k, v) == <<k, Blank>> \o v \o <<Version>> \o EndOfLine

\* Mutant: the request is a line like the others.
WithLine_InOrder(text, m, k) == IF k \notin DOMAIN m THEN text ELSE text \o FieldLine(k, m[k])

\* A request goes in front of what there is.
WithLine(text, m, k) ==
    IF k \notin DOMAIN m THEN text
    ELSE IF k \in Requests THEN RequestLine(k, m[k]) \o text
    ELSE text \o FieldLine(k, m[k])

\* HeaderString: every field a line, in the order of the map; then a blank
\* line, if there is a field.
HeaderString(m) ==
    LET text[j \in 0 .. Len(Fields)] == IF j = 0 THEN <<>> ELSE WithLine(text[j - 1], m, Fields[j])
    IN  text[Len(Fields)] \o IF DOMAIN m = {} THEN <<>> ELSE EndOfLine

\* Parse: what the characters up to p have left in its variables; part is where
\* p is: "value" if vbegin is set, "over" behind the blank line.
Start == [part |-> "key", key |-> <<>>, value |-> <<>>, found |-> NoFields, length |-> 0]

\* The name a key stands for: keys are single words here.
NoName == ""
KeyName(key) == IF key = <<>> THEN NoName ELSE key[1]

\* A line is over.  The first is the status line, of which three characters
\* from the ninth on are kept, here its third word; from a value the first
\* character, taken for a blank, and the last, taken for \r, are dropped.
LineEnds(p) ==
    IF p.key # <<>> /\ p.key[1] = CR THEN [p EXCEPT !.part = "over"]
    ELSE [part |-> "key", key |-> <<>>, value |-> <<>>, length |-> p.length,
          found |-> IF p.found = NoFields
                    THEN With(p.found, "Status", SubSeq(p.key, 3, IF Len(p.key) < 3 THEN 2 ELSE 3))
                    ELSE With(p.found, KeyName(p.key), SubSeq(p.value, 2, Len(p.value) - 1))]

\* Every colon, also one within a value, only says that a value follows.
Character(p, c) ==
    LET q == [p EXCEPT !.length = @ + 1] IN
    IF p.part = "over" THEN p
    ELSE IF c = Colon THEN [q EXCEPT !.part = "value"]
    ELSE IF c = LF THEN LineEnds(q)
    ELSE IF p.part = "value" THEN [q EXCEPT !.value = Append(@, c)]
    ELSE [q EXCEPT !.key = Append(@, c)]

Parsed(text) ==
    LET after[i \in 0 .. Len(text)] == IF i = 0 THEN Start ELSE Character(after[i - 1], text[i])
    IN  after[Len(text)]

\* What a server answers with (external).
ServerAnswers(code, m) ==
    LET lines[j \in 0 .. Len(Fields)] ==
            IF j = 0 THEN <<Version, Blank, code, Blank, "OK">> \o EndOfLine
            ELSE IF Fields[j] \in DOMAIN m THEN lines[j - 1] \o FieldLine(Fields[j], m[Fields[j]])
            ELSE lines[j - 1]
    IN  lines[Len(Fields)] \o EndOfLine

\* ClearHeaders and Parse of an answer, whose fields are as many as asked for.
ParseHeader(code) ==
    LET p == Parsed(ServerAnswers(code, fields)) IN
    /\ ~ Answered /\ p.part = "over"
    /\ fields' = p.found
    /\ headerLength' = p.length
    /\ before' = fields

HeaderNext ==
    \/ \E k \in ToSet(Fields), v \in Contents : AddHeader(k, v)
    \/ \E k \in ToSet(Fields) : RemoveHeader(k)
    \/ ClearHeaders
    \/ \E code \in Codes : ParseHeader(code)

HeaderSpec == HeaderInit /\ [][HeaderNext]_rqvars

-----------------------------------------------------------------------------
NoColons(v) ==
    LET kept[i \in 0 .. Len(v)] ==
            IF i = 0 THEN <<>> ELSE IF v[i] = Colon THEN kept[i - 1] ELSE Append(kept[i - 1], v[i])
    IN  kept[Len(v)]

\* A header starts with its request line, whatever order the fields were added
\* in and the map keeps them in, and has exactly one blank line, at its end.
RequestFirst ==
    LET text == HeaderString(fields) IN
    /\ DOMAIN fields \cap Requests # {} => text[1] \in Requests
    /\ \A i \in 1 .. Len(text) - 3 :
          SubSeq(text, i, i + 3) = EndOfLine \o EndOfLine => i = Len(text) - 3

\* What a server says is what is found, but for the colons within a value: the
\* status, each field under its name, and where the header ends.
AnswerRead ==
    Answered =>
        /\ \E code \in Codes : fields["Status"] = <<code>>
                              /\ headerLength = Len(ServerAnswers(code, before))
        /\ \A k \in DOMAIN before :
              fields[k] = NoColons(before[k])

\* The fields of a request reach the wire, and those of an answer the list,
\* as messages the other side can read.
FieldsKept == RequestFirst /\ AnswerRead
=============================================================================
