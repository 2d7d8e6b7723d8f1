----------------------------- MODULE RealHeader -----------------------------
(***************************************************************************)
(* The head of a RealMedia file: built from a session description          *)
(* (sdpplin.c, real_parse_sdp in real.c), put right and written out        *)
(* (rmff.c), and read again as a player would.  Only what places things is *)
(* kept: sizes, counts, numbers and one value for the rest of a chunk.     *)
(***************************************************************************)
EXTENDS Integers, Sequences, FiniteSets, SequencesExt, FiniteSetsExt

CONSTANTS
    NameLengths,    \* lengths of a stream's name
    DataLengths,    \* lengths of its type specific data
    Rates,          \* bit rates
    MaxStreams,     \* bound on the streams (model)
    MaxLines        \* bound on a stream's lines after "m=" (model)

ASSUME RealAssumption ==
    /\ NameLengths \cup DataLengths \cup Rates \subseteq Nat
    /\ MaxStreams \in Nat /\ MaxLines \in Nat

VARIABLES
    description,    \* the lines, [is |-> kind, n |-> number]
    stage,          \* what has been done with them
    desc,           \* the sdpplin_t
    header,         \* the rmff_header_t
    file            \* offset -> what was written there

rvars == <<description, stage, desc, header, file>>

Line(is, n) == [is |-> is, n |-> n]
StreamLines == {Line("rate", n) : n \in Rates} \cup {Line("name", n) : n \in NameLengths}
    \cup {Line("data", n) : n \in DataLengths} \cup {Line("other", 0)}

-----------------------------------------------------------------------------
(* sdpplin_parse.  A line that has been used makes room for the next one,   *)
(* which the tests that follow in the same turn of the loop look at.        *)

NoStream == [id |-> 0, max |-> 0, avg |-> 0, name |-> 0, data |-> 0]

\* One attribute of a stream; a rate is the average until there is another.
Attribute(stream, l) ==
    CASE l.is = "id"   -> [stream EXCEPT !.id = l.n]
      [] l.is = "rate" -> [stream EXCEPT !.max = l.n, !.avg = IF @ = 0 THEN l.n ELSE @]
      [] l.is = "name" -> [stream EXCEPT !.name = l.n]
      [] l.is = "data" -> [stream EXCEPT !.data = l.n]
      [] OTHER -> stream

\* The order in which sdpplin_parse_stream tests a line.
Tests == <<"id", "rate", "name", "data">>

\* One turn of its loop from line i: each test takes the line there, if it is
\* its own; if none has, the line is skipped.
Turn(s) ==
    LET Test(t, is) ==
            IF t.i <= Len(description) /\ description[t.i].is = is
            THEN [i |-> t.i + 1, stream |-> Attribute(t.stream, description[t.i])] ELSE t
        end == FoldLeft(Test, s, Tests)
    IN  IF end.i = s.i THEN [s EXCEPT !.i = @ + 1] ELSE end

\* Mutant: a stream does not end where the next begins.
sdpplin_parse_stream_ToTheEnd(from) ==
    LET Over(s) == s.i > Len(description)
        Loop(s, k) == IF Over(s) THEN s ELSE Turn(s)
    IN  FoldLeft(Loop, [i |-> from + 1, stream |-> NoStream], description)

sdpplin_parse_stream(from) ==
    LET Over(s) == s.i > Len(description) \/ description[s.i].is = "m"
        Loop(s, k) == IF Over(s) THEN s ELSE Turn(s)
    IN  FoldLeft(Loop, [i |-> from + 1, stream |-> NoStream], description)

\* desc->stream[id] = stream, for every "m=" in turn.
sdpplin_parse ==
    LET ms == {i \in DOMAIN description : description[i].is = "m"}
        Count == {description[i].n : i \in {j \in DOMAIN description : description[j].is = "count"}}
        streams == {sdpplin_parse_stream(i).stream : i \in ms}
    IN  [count |-> CHOOSE n \in Count : TRUE, stream |-> [k \in {s.id : s \in streams} |->
            CHOOSE s \in streams : s.id = k]]

-----------------------------------------------------------------------------
(* rmff.c *)

rmff_new_fileheader(n) == [tag |-> "RMF", size |-> 18, n |-> n, len |-> 0, id |-> 0]
rmff_new_cont == [tag |-> "CONT", size |-> 18, n |-> 0, len |-> 0, id |-> 0]
rmff_new_dataheader == [tag |-> "DATA", size |-> 18, n |-> 0, len |-> 0, id |-> 0]
rmff_new_prop(rate, streams) == [tag |-> "PROP", size |-> 50, n |-> rate, len |-> 0, id |-> streams]

\* n: the length of the name, len: of the data.
rmff_new_mdpr(id, name, len) ==
    [tag |-> "MDPR", size |-> name + len + 46, n |-> name, len |-> len, id |-> id]

\* The streams, in the order of their numbers, and the totals.
real_parse_sdp ==
    LET mdprs == [i \in 1 .. desc.count |->
                    LET s == desc.stream[i - 1] IN rmff_new_mdpr(s.id, s.name, s.data)]
    IN  [fileheader |-> rmff_new_fileheader(4 + desc.count), cont |-> rmff_new_cont,
         data |-> rmff_new_dataheader, streams |-> mdprs,
         prop |-> rmff_new_prop(
            FoldLeft(LAMBDA a, m : a + desc.stream[m.id].max, 0, mdprs), desc.count),
         dataOffset |-> 0]

\* num_headers counts every chunk, data_offset is where DATA begins; data.size
\* becomes an estimate for the data itself, by which nothing is placed.
rmff_fix_header(h) ==
    LET size == FoldLeft(LAMBDA a, m : a + m.size, 0, h.streams)
    IN  [h EXCEPT !.fileheader.n = Len(h.streams) + 4, !.prop.id = Len(h.streams),
                  !.dataOffset = size + h.prop.size + h.cont.size + h.fileheader.size,
                  !.data.size = 0]

Chunks(h) == <<h.fileheader, h.prop, h.cont>> \o h.streams \o <<h.data>>

\* Each chunk is written behind the previous one, by its size.
OffsetOf(h, i) == FoldLeft(LAMBDA a, c : a + c.size, 0, SubSeq(Chunks(h), 1, i - 1))
rmff_dump_header(h) ==
    [o \in {OffsetOf(h, i) : i \in DOMAIN Chunks(h)} |->
        Chunks(h)[CHOOSE i \in DOMAIN Chunks(h) : OffsetOf(h, i) = o]]

\* The length of a name is written as one byte; what is read there is not a
\* name and data of the lengths written if it is longer.
rmff_scan_mdpr(c) == [c EXCEPT !.n = @ % 256]

\* A player reads from the front, num_headers chunks, each behind the
\* previous one, as long as it knows what is there.
rmff_scan_header(f) ==
    LET Scan(p, i) ==
            IF p.at \notin DOMAIN f THEN p
            ELSE LET c == IF f[p.at].tag = "MDPR" THEN rmff_scan_mdpr(f[p.at]) ELSE f[p.at]
                 IN  [at |-> p.at + c.size, c |-> Append(p.c, c)]
    IN  FoldLeft(Scan, [at |-> 0, c |-> <<>>], [i \in 1 .. f[0].n |-> i]).c

-----------------------------------------------------------------------------
RealStart ==
    /\ description = <<>> /\ stage = "receiving"
    /\ desc = [count |-> 0, stream |-> <<>>] /\ header = <<>> /\ file = <<>>

Streams == Cardinality({i \in DOMAIN description : description[i].is = "m"})

\* The description, as a server writes it: every stream has its number, and
\* the numbers are those below the count.
DescriptionArrives ==
    /\ stage = "receiving"
    /\ \/ description = <<>> /\ \E n \in 1 .. MaxStreams : description' = <<Line("count", n)>>
       \/ /\ description # <<>> /\ Streams < description[1].n
          /\ \E before, after \in SeqOf(StreamLines, MaxLines) :
                /\ Len(before) + Len(after) <= MaxLines
                /\ \E id \in (0 .. description[1].n - 1) \
                        {description[i].n : i \in {j \in DOMAIN description : description[j].is = "id"}} :
                      description' = description \o <<Line("m", 0)>> \o before \o <<Line("id", id)>> \o after
    /\ UNCHANGED <<stage, desc, header, file>>

ParseDescription ==
    /\ stage = "receiving" /\ description # <<>> /\ Streams = description[1].n
    /\ stage' = "parsed" /\ desc' = sdpplin_parse
    /\ UNCHANGED <<description, header, file>>

\* real_parse_sdp fixes its header, and real_setup_and_get_header again.
BuildHeader ==
    /\ stage = "parsed" /\ stage' = "built"
    /\ header' = rmff_fix_header(rmff_fix_header(real_parse_sdp))
    /\ UNCHANGED <<description, desc, file>>

DumpHeader ==
    /\ stage = "built" /\ stage' = "dumped"
    /\ file' = rmff_dump_header(header)
    /\ UNCHANGED <<description, desc, header>>

RealNext == DescriptionArrives \/ ParseDescription \/ BuildHeader \/ DumpHeader
RealSpec == RealStart /\ [][RealNext]_rvars

-----------------------------------------------------------------------------
\* The section of the description in which a stream has its number.
Section(id) ==
    LET i == CHOOSE j \in DOMAIN description : description[j] = Line("id", id)
        from == Max({j \in 1 .. i : description[j].is = "m"})
        ends == {j \in i .. Len(description) : description[j].is = "m"}
    IN  SubSeq(description, from, IF ends = {} THEN Len(description) ELSE Min(ends) - 1)

\* In whatever order the lines come, repeated or among others, a stream gets
\* the last of each kind in its own section, and no line of another's.
AttributesLand ==
    stage # "receiving" =>
        \A id \in 0 .. desc.count - 1 :
            LET Given(is) == {i \in DOMAIN Section(id) : Section(id)[i].is = is}
                LastOf(is) == IF Given(is) = {} THEN 0 ELSE Section(id)[Max(Given(is))].n
            IN  /\ id \in DOMAIN desc.stream
                /\ desc.stream[id].max = LastOf("rate")
                /\ desc.stream[id].name = LastOf("name")
                /\ desc.stream[id].data = LastOf("data")

\* What a player reads is what was meant: every chunk, with the names and data
\* of each stream, and the data where the header says they begin.
HeaderReadable ==
    stage = "dumped" =>
        /\ rmff_scan_header(file) = Chunks(header)
        /\ header.dataOffset \in DOMAIN file /\ file[header.dataOffset].tag = "DATA"

\* From the description the server sends to the header a player reads: what is
\* said of a stream is said of that stream.
DescriptionBecomesHeader == AttributesLand /\ HeaderReadable
=============================================================================
