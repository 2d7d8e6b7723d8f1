-------------------------------- MODULE Getopt --------------------------------
(***************************************************************************)
(* getopt.c: one call after another of getopt_long, until it returns -1,   *)
(* whatever answers the caller gets in between.                            *)
(***************************************************************************)
EXTENDS Integers, Sequences

CONSTANTS
    Elements,       \* what an element of argv may be
    MaxArgs,        \* bound on their number (model)
    ShortOpts,      \* option character -> whether it takes an argument
    LongOpts,       \* long option -> whether it takes one
    Abbreviated     \* name -> the long options it begins, in table order

ASSUME GetoptAssumption ==
    /\ MaxArgs \in Nat
    /\ Elements \subseteq [kind : {"word", "dashes", "short", "long"}, text : Seq(STRING), value : BOOLEAN]
    /\ \A e \in Elements : e.kind \in {"short", "long"} => e.text # <<>>
    /\ \A c \in DOMAIN ShortOpts : ShortOpts[c] \in {"no", "required", "optional"}
    /\ DOMAIN LongOpts \subseteq STRING
    /\ \A n \in DOMAIN Abbreviated : Abbreviated[n] \in Seq(DOMAIN LongOpts)

VARIABLES
    given,          \* argv, without the program's name, as it was
    argv,           \* and as it has been permuted
    optind, first_nonopt, last_nonopt,
    nextchar,       \* the rest of the element the last call looked at
    ordering,       \* PERMUTE, REQUIRE_ORDER or RETURN_IN_ORDER
    returned,       \* history: the answers
    finished        \* history: whether -1 was one

gvars == <<given, argv, optind, first_nonopt, last_nonopt, nextchar, ordering, returned, finished>>

\* An element: a word (or "-"), "--", a group of option characters, or a long
\* option with a value or without one.  Arguments are elements or parts of one.
Element(kind, text, value) == [kind |-> kind, text |-> text, value |-> value]
Nothing == Element("nothing", <<>>, FALSE)
IsWord(e) == e.kind = "word"

GetoptStart(args, o) ==
    /\ given = args /\ argv = args
    /\ optind = 1 /\ first_nonopt = 1 /\ last_nonopt = 1 /\ nextchar = <<>>
    /\ ordering = o
    /\ returned = <<>> /\ finished = FALSE

GetoptInit ==
    \E n \in 0 .. MaxArgs : \E args \in [1 .. n -> Elements] :
        \E o \in {"permute", "require", "return"} : GetoptStart(args, o)

argc == Len(given) + 1

-----------------------------------------------------------------------------
(* One option.  `next': 0 if the element has more, 1 if it is done, 2 if the *)
(* following one is its argument.                                            *)

Answer(opt, arg, left, next) == [opt |-> opt, arg |-> arg, left |-> left, next |-> next]
Bad(left, next) == Answer("?", Nothing, left, next)

LongOption(e, following) ==
    LET name  == e.text[1]
        fits  == IF name \in DOMAIN Abbreviated THEN Abbreviated[name] ELSE <<>>
        exact == name \in DOMAIN LongOpts
        found == IF exact THEN name ELSE fits[1]
    IN  IF ~ exact /\ Len(fits) # 1 THEN Bad(<<>>, 1)
        ELSE IF e.value
        THEN IF LongOpts[found] = "no" THEN Bad(<<>>, 1)
             ELSE Answer(found, Element("value", e.text, TRUE), <<>>, 1)
        ELSE IF LongOpts[found] # "required" THEN Answer(found, Nothing, <<>>, 1)
        ELSE IF following = <<>> THEN Bad(<<>>, 1)
        ELSE Answer(found, following[1], <<>>, 2)

ShortOption(letters, following) ==
    LET c    == Head(letters)
        rest == Tail(letters)
        here == IF rest = <<>> THEN 1 ELSE 0
    IN  IF c \notin DOMAIN ShortOpts THEN Bad(rest, here)
        ELSE IF ShortOpts[c] = "no" THEN Answer(c, Nothing, rest, here)
        ELSE IF rest # <<>> THEN Answer(c, Element("rest", rest, FALSE), <<>>, 1)
        ELSE IF ShortOpts[c] = "optional" THEN Answer(c, Nothing, <<>>, 1)
        ELSE IF following = <<>> THEN Bad(<<>>, 1)
        ELSE Answer(c, following[1], <<>>, 2)

OneOption(e, letters, following) ==
    IF e.kind = "long" THEN LongOption(e, following)
    ELSE ShortOption(IF letters = <<>> THEN e.text ELSE letters, following)

-----------------------------------------------------------------------------
(* The elements that are not options move behind those that are *)

Swapped(a, i, j, len) ==
    [k \in DOMAIN a |-> IF k \in i .. i + len - 1 THEN a[k - i + j]
                        ELSE IF k \in j .. j + len - 1 THEN a[k - j + i] ELSE a[k]]

\* One turn of exchange's loop: the shorter of the two segments goes to its place.
SwapShorter(x) ==
    LET below == x.middle - x.bottom
        above == x.top - x.middle
    IN  IF below <= 0 \/ above <= 0 THEN x
        ELSE IF above > below
        THEN [x EXCEPT !.a = Swapped(@, x.bottom, x.top - below, below), !.top = @ - below]
        ELSE [x EXCEPT !.a = Swapped(@, x.bottom, x.middle, above), !.bottom = @ + above]

\* exchange: every turn brings an element at least to its place.
Exchanged(a, bottom, middle, top) ==
    LET turn[n \in 0 .. top - bottom] ==
            IF n = 0 THEN [a |-> a, bottom |-> bottom, middle |-> middle, top |-> top]
            ELSE SwapShorter(turn[n - 1])
    IN  turn[top - bottom].a

Scan0 == [argv |-> argv, optind |-> optind,
          first |-> IF first_nonopt > optind THEN optind ELSE first_nonopt,
          last  |-> IF last_nonopt > optind THEN optind ELSE last_nonopt]

\* Mutant: the mark before the words stays.
Exchange_KeepsFirst(s) ==
    [s EXCEPT !.argv = Exchanged(@, s.first, s.last, s.optind), !.last = s.optind]

Exchange(s) ==
    [s EXCEPT !.argv = Exchanged(@, s.first, s.last, s.optind),
              !.first = @ + (s.optind - s.last), !.last = s.optind]

\* PERMUTE: what was skipped is moved behind the options since, and more words
\* are skipped.
SkipWords(s) ==
    LET t == IF s.first # s.last /\ s.last # s.optind THEN Exchange(s)
             ELSE IF s.last # s.optind THEN [s EXCEPT !.first = s.optind] ELSE s
        stops == {i \in t.optind .. argc - 1 : ~ IsWord(t.argv[i])} \cup {argc}
        stop  == CHOOSE i \in stops : \A j \in stops : i <= j
    IN  IF ordering = "permute" THEN [t EXCEPT !.optind = stop, !.last = stop] ELSE t

\* "--" is moved to the options, and what follows is skipped.
SkipDashes(s) ==
    LET t == [s EXCEPT !.optind = @ + 1]
        u == IF t.first # t.last /\ t.last # t.optind THEN Exchange(t)
             ELSE IF t.first = t.last THEN [t EXCEPT !.first = t.optind] ELSE t
    IN  IF s.optind # argc /\ s.argv[s.optind].kind = "dashes"
        THEN [u EXCEPT !.last = argc, !.optind = argc] ELSE s

Advanced ==
    LET s == IF ordering = "permute" THEN SkipWords(Scan0) ELSE Scan0 IN
    IF nextchar = <<>> THEN SkipDashes(s) ELSE [Scan0 EXCEPT !.first = first_nonopt, !.last = last_nonopt]

Leaves(s, ind) ==
    /\ argv' = s.argv /\ optind' = ind /\ first_nonopt' = s.first /\ last_nonopt' = s.last
    /\ UNCHANGED <<given, ordering>>

\* There are no more options: optind is where the words are.
ReturnsEnd ==
    LET s == Advanced
        over == s.optind = argc
    IN  /\ ~ finished
        /\ over \/ (~ over /\ nextchar = <<>> /\ IsWord(s.argv[s.optind]) /\ ordering = "require")
        /\ Leaves(s, IF over /\ s.first # s.last THEN s.first ELSE s.optind)
        /\ nextchar' = <<>> /\ finished' = TRUE /\ UNCHANGED returned

ReturnsWord ==
    LET s == Advanced IN
    /\ ~ finished /\ s.optind # argc
    /\ nextchar = <<>> /\ IsWord(s.argv[s.optind]) /\ ordering = "return"
    /\ Leaves(s, s.optind + 1)
    /\ returned' = Append(returned, Answer("word", s.argv[s.optind], <<>>, 1))
    /\ UNCHANGED <<nextchar, finished>>

ReturnsOption ==
    LET s == Advanced
        following == IF s.optind + 1 < argc THEN <<s.argv[s.optind + 1]>> ELSE <<>>
        a == OneOption(s.argv[s.optind], nextchar, following)
    IN  /\ ~ finished /\ s.optind # argc
        /\ nextchar # <<>> \/ ~ IsWord(s.argv[s.optind])
        /\ Leaves(s, s.optind + a.next)
        /\ nextchar' = a.left /\ returned' = Append(returned, a)
        /\ UNCHANGED finished

GetoptNext == ReturnsEnd \/ ReturnsWord \/ ReturnsOption

GetoptSpec == GetoptInit /\ [][GetoptNext]_gvars

-----------------------------------------------------------------------------
(* The reference: one pass over args, from left to right, that moves nothing *)

\* One step of it: a word, an answer or the end.
Further(args, order, p) ==
    LET e == args[p.i]
        following == IF p.i < Len(args) THEN <<args[p.i + 1]>> ELSE <<>>
        a == OneOption(e, p.letters, following)
    IN  IF p.stage = "done" THEN p
        ELSE IF p.i > Len(args) THEN [p EXCEPT !.stage = "done"]
        ELSE IF p.letters = <<>> /\ e.kind = "dashes"
        THEN [p EXCEPT !.rest = SubSeq(args, p.i + 1, Len(args)), !.stage = "done"]
        ELSE IF p.letters = <<>> /\ IsWord(e)
        THEN CASE order = "permute" -> [p EXCEPT !.i = @ + 1, !.words = Append(@, e)]
               [] order = "require" -> [p EXCEPT !.rest = SubSeq(args, p.i, Len(args)), !.stage = "done"]
               [] order = "return" ->
                    [p EXCEPT !.i = @ + 1, !.answers = Append(@, Answer("word", e, <<>>, 1))]
        ELSE [p EXCEPT !.i = @ + a.next, !.letters = a.left, !.answers = Append(@, a)]

PassStart == [i |-> 1, letters |-> <<>>, answers |-> <<>>, words |-> <<>>, rest |-> <<>>, stage |-> "reading"]

\* Where it is after n steps.
Pass(args, order, n) ==
    LET pass[k \in Nat] == IF k = 0 THEN PassStart ELSE Further(args, order, pass[k - 1])
    IN  pass[n]

\* Whatever argv is and however it has been permuted meanwhile, the caller has
\* got every option once, in the order given, with its own argument, and finds
\* the words, in the order given, from optind on.
AnswersInOrder ==
    finished =>
        \E n \in 0 .. Len(returned) + Len(given) + 1 :
            LET p == Pass(given, ordering, n) IN
            /\ p.stage = "done"
            /\ returned = p.answers
            /\ SubSeq(argv, optind, Len(argv)) = p.words \o p.rest

\* While there is more to read, nothing from optind on has been touched, and
\* before it words that were skipped are together between the two marks.
UnreadIsUntouched ==
    ~ finished =>
        /\ \A i \in optind .. Len(argv) : argv[i] = given[i]
        /\ first_nonopt <= last_nonopt /\ last_nonopt <= optind
        /\ \A i \in first_nonopt .. last_nonopt - 1 : IsWord(argv[i])

\* However options and words are mixed, the permuted scan reports every one of
\* them, in order, and never permutes what it has not read.
ArgumentsInOrder == AnswersInOrder /\ UnreadIsUntouched
=============================================================================
