----------------------------- MODULE MCLibrary -----------------------------
(***************************************************************************)
(* The sequential parts and the two that processes share, for one run of   *)
(* TLC: the initial state decides which of them the behaviour is about,    *)
(* and the others stay in one of their initial states.                     *)
(***************************************************************************)
EXTENDS HashTable, Progress, Screen, Headers, FtpList, Url, Files, Text,
        Getopt, Options, TLC

VARIABLE subject

-----------------------------------------------------------------------------
(* Values of constants that a cfg cannot write *)

\* "A" and "a" test equal in a table without case; the hash functions put
\* keys at the end of a table of three and of five positions, or before it.
KeysDef == {"A", "a", "B", "C"}
TestNameDef == [k \in KeysDef |-> IF k \in {"A", "a"} THEN "a" ELSE k]
HashesDef == {h \in [KeysDef -> {2, 4}] : h["A"] = h["a"]}
PrimesDef == <<3, 5, 11>>

NamesDef == {[matches |-> "dot", params |-> ""], [matches |-> "bar", params |-> "force"],
             [matches |-> "bar", params |-> ""]}

FieldsDef == <<"Connection", "GET", "Host", "Range">>
ContentsDef == {<<"a">>, <<"a", ":", "b">>}

PortsDef == ("80" :> 80) @@ ("70000" :> 70000)

ElementsDef ==
    {Element("word", <<"f">>, FALSE), Element("word", <<"g">>, FALSE),
     Element("dashes", <<>>, FALSE), Element("short", <<"a">>, FALSE),
     Element("short", <<"a", "b">>, FALSE), Element("short", <<"b", "a">>, FALSE),
     Element("short", <<"x", "c">>, FALSE), Element("long", <<"all">>, TRUE),
     Element("long", <<"al">>, FALSE), Element("long", <<"bo">>, FALSE),
     Element("long", <<"copy">>, FALSE), Element("long", <<"co">>, TRUE)}
ShortOptsDef == ("a" :> "no") @@ ("b" :> "required") @@ ("c" :> "optional")
LongOptsDef == ("all" :> "no") @@ ("alter" :> "no") @@ ("body" :> "required") @@ ("copy" :> "optional")
AbbreviatedDef == ("al" :> <<"all", "alter">>) @@ ("bo" :> <<"body">>) @@ ("co" :> <<"copy">>)

-----------------------------------------------------------------------------
MCInit ==
    /\ subject \in {"hash", "gauge", "screen", "header", "listing", "url",
                    "files", "text", "getopt", "options"}
    /\ IF subject = "hash" THEN HashInit ELSE hash_table_new(CHOOSE h \in Hashes : TRUE, CHOOSE n \in Prealloc : TRUE)
    /\ IF subject = "screen" THEN ScreenInit ELSE ScreenStart([class |-> "simple", lines |-> CHOOSE n \in Lines : TRUE])
    /\ IF subject = "listing" THEN FtpListInit ELSE FtpListStart(<<>>)
    /\ IF subject = "url" THEN UrlInit ELSE UrlStart(CHOOSE p \in PartsSet : TRUE)
    /\ IF subject = "files" THEN FilesInit ELSE FilesStart({})
    /\ IF subject = "text" THEN TextInit ELSE TextStart(<<>>)
    /\ IF subject = "getopt" THEN GetoptInit ELSE GetoptStart(<<>>, "permute")
    /\ ProgressInit /\ HeaderInit /\ OptionsInit

HashSteps ==
    /\ subject = "hash" /\ HashNext
    /\ UNCHANGED <<pvars, wvars, rqvars, lvars, uvars, dvars, tvars, gvars, ovars, subject>>

GaugeSteps ==
    /\ subject = "gauge" /\ ProgressNext
    /\ UNCHANGED <<hvars, wvars, rqvars, lvars, uvars, dvars, tvars, gvars, ovars, subject>>

ScreenSteps ==
    /\ subject = "screen" /\ ScreenNext
    /\ UNCHANGED <<hvars, pvars, rqvars, lvars, uvars, dvars, tvars, gvars, ovars, subject>>

HeaderSteps ==
    /\ subject = "header" /\ HeaderNext
    /\ UNCHANGED <<hvars, pvars, wvars, lvars, uvars, dvars, tvars, gvars, ovars, subject>>

ListingSteps ==
    /\ subject = "listing" /\ FtpListNext
    /\ UNCHANGED <<hvars, pvars, wvars, rqvars, uvars, dvars, tvars, gvars, ovars, subject>>

UrlSteps ==
    /\ subject = "url" /\ UrlNext
    /\ UNCHANGED <<hvars, pvars, wvars, rqvars, lvars, dvars, tvars, gvars, ovars, subject>>

FilesSteps ==
    /\ subject = "files" /\ FilesNext
    /\ UNCHANGED <<hvars, pvars, wvars, rqvars, lvars, uvars, tvars, gvars, ovars, subject>>

TextSteps ==
    /\ subject = "text" /\ TextNext
    /\ UNCHANGED <<hvars, pvars, wvars, rqvars, lvars, uvars, dvars, gvars, ovars, subject>>

GetoptSteps ==
    /\ subject = "getopt" /\ GetoptNext
    /\ UNCHANGED <<hvars, pvars, wvars, rqvars, lvars, uvars, dvars, tvars, ovars, subject>>

OptionsSteps ==
    /\ subject = "options" /\ OptionsNext
    /\ UNCHANGED <<hvars, pvars, wvars, rqvars, lvars, uvars, dvars, tvars, gvars, subject>>

MCNext ==
    \/ HashSteps \/ GaugeSteps \/ ScreenSteps \/ HeaderSteps
    \/ ListingSteps \/ UrlSteps \/ FilesSteps \/ TextSteps
    \/ GetoptSteps \/ OptionsSteps

MCSpec == MCInit /\ [][MCNext]_<<hvars, pvars, wvars, rqvars, lvars, uvars, dvars, tvars, gvars, ovars, subject>>
=============================================================================
