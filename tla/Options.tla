------------------------------- MODULE Options -------------------------------
(***************************************************************************)
(* options.cpp and init.cpp: what each command line option does to `opt'.  *)
(* One option stands for all that have the same handler.  A value is a     *)
(* sequence of words and characters; upper case is left out.               *)
(***************************************************************************)
EXTENDS Integers, Sequences, SequencesExt

CONSTANTS
    Places,         \* lengths of the table `commands' searched (model)
    MaxOptions      \* bound on the options of a command line (model)

ASSUME OptionsAssumption == Places \subseteq Nat /\ MaxOptions \in Nat

VARIABLES
    opt,            \* struct options
    outcome,        \* "running", or how the program has ended
    last, used      \* history: the option set last, and how many have been

ovars == <<opt, outcome, last, used>>

-----------------------------------------------------------------------------
(* Values *)

No == [ok |-> FALSE, value |-> 0]
Yes(v) == [ok |-> TRUE, value |-> v]

cmd_boolean(val) ==
    IF val \in {<<"on">>, <<"yes">>, <<"1">>} THEN Yes(1)
    ELSE IF val \in {<<"off">>, <<"no">>, <<"0">>} THEN Yes(0) ELSE No

\* Mutant: "never" does not lock.
cmd_lockable_boolean_NeverOpen(val, old) ==
    IF old = 2 THEN Yes(old)
    ELSE IF val \in {<<"always">>, <<"2">>} THEN Yes(2)
    ELSE IF val \in {<<"never">>, <<"-", "1">>} THEN Yes(-1)
    ELSE cmd_boolean(val)

\* "always" and "never", once given, are not changed any more.
cmd_lockable_boolean(val, old) ==
    IF old \in {-1, 2} THEN Yes(old)
    ELSE IF val \in {<<"always">>, <<"2">>} THEN Yes(2)
    ELSE IF val \in {<<"never">>, <<"-", "1">>} THEN Yes(-1)
    ELSE cmd_boolean(val)

Gap == " "
DigitOf(c) == CASE c = "0" -> 0 [] c = "1" -> 1 [] c = "2" -> 2 [] c = "5" -> 5 [] OTHER -> -1

Stripped(s) ==
    LET kept == {i \in DOMAIN s : s[i] # Gap} IN
    IF kept = {} THEN <<>>
    ELSE SubSeq(s, CHOOSE i \in kept : \A j \in kept : i <= j, CHOOSE i \in kept : \A j \in kept : j <= i)

\* simple_atof, behind the sign: the number read is num / div, of the kinds of
\* characters seen.
NumberStart == [num |-> 0, div |-> 1, seen |-> {}]
NumberGoesOn(n, c) ==
    IF DigitOf(c) >= 0
    THEN [num |-> 10 * n.num + DigitOf(c), div |-> IF "dot" \in n.seen THEN 10 * n.div ELSE n.div,
          seen |-> n.seen \cup {"digit"}]
    ELSE [num |-> n.num, div |-> n.div,
          seen |-> n.seen \cup {IF c = "." /\ "dot" \notin n.seen THEN "dot" ELSE "other"}]
NumberOf(s) ==
    LET read[i \in 0 .. Len(s)] == IF i = 0 THEN NumberStart ELSE NumberGoesOn(read[i - 1], s[i])
    IN  read[Len(s)]

simple_atof(s) ==
    LET t == Stripped(s)
        signed == t # <<>> /\ t[1] \in {"-", "+"}
        n == NumberOf(IF signed THEN Tail(t) ELSE t)
    IN  [ok |-> "digit" \in n.seen /\ "other" \notin n.seen,
         num |-> IF signed /\ t[1] = "-" THEN - n.num ELSE n.num, div |-> n.div]

ByteUnit(c) == CASE c = "k" -> 1024 [] c = "m" -> 1024 * 1024 [] c = "g" -> 1024 * 1024 * 1024
                 [] c = "t" -> 1024 * 1024 * 1024 * 1024 [] OTHER -> 0
TimeUnit(c) == CASE c = "s" -> 1 [] c = "m" -> 60 [] c = "h" -> 3600 [] c = "d" -> 86400
                 [] c = "w" -> 604800 [] OTHER -> 0

\* A number of bytes or of seconds with a unit behind it, times scale; blanks
\* may be around both.
WithUnit(val, of, scale) ==
    LET t == Stripped(val)
        unit == IF t = <<>> THEN 0 ELSE IF of = "bytes" THEN ByteUnit(Last(t)) ELSE TimeUnit(Last(t))
        n == simple_atof(IF unit > 0 THEN Front(t) ELSE t)
    IN  IF t = <<>> \/ ~ n.ok THEN No
        ELSE Yes((n.num * scale * (IF unit > 0 THEN unit ELSE 1)) \div n.div)

parse_bytes_helper(val) ==
    IF val = <<"inf">> THEN Yes(0)
    ELSE LET n == WithUnit(val, "bytes", 1) IN IF n.value < 0 THEN No ELSE n

\* Tenths of a second; a time may be negative.
cmd_time(val) == WithUnit(val, "seconds", 10)

\* cmd_number accepts everything and sets nothing.
cmd_number_inf(val, old) == IF val = <<"inf">> THEN Yes(0) ELSE Yes(old)

-----------------------------------------------------------------------------
(* Commands: what a value does to `opt'; failing, it does nothing *)

defaults ==
    [dirstruct |-> 0, no_dirstruct |-> 0, recursive |-> 0, timestamping |-> 0, reclevel |-> 5,
     remove_listing |-> 1, htmlify |-> 1, ftp_pasv |-> 1, noclobber |-> 0, noparent |-> 0,
     verbose |-> -1, add_hostdir |-> 1, ntry |-> 20, limit_rate |-> 0, useragent |-> <<>>,
     read_timeout |-> 9000, connect_timeout |-> 0, dns_timeout |-> 0, progress |-> <<>>,
     thread_count |-> 3]

Plain(o, field, r) == [ok |-> r.ok, opt |-> IF r.ok THEN [o EXCEPT ![field] = r.value] ELSE o]

cmd_spec_dirstruct(o, val) ==
    LET r == cmd_boolean(val) IN
    [ok |-> r.ok, opt |-> IF r.ok THEN [o EXCEPT !.dirstruct = r.value, !.no_dirstruct = 1 - r.value] ELSE o]

cmd_spec_htmlify(o, val) ==
    LET r == cmd_boolean(val) IN
    [ok |-> r.ok, opt |-> IF r.ok THEN [o EXCEPT !.htmlify = r.value, !.remove_listing = IF r.value = 0 THEN 0 ELSE @] ELSE o]

cmd_spec_mirror(o, val) ==
    LET r == cmd_boolean(val) IN
    [ok |-> r.ok,
     opt |-> IF r.value = 0 THEN o
             ELSE [o EXCEPT !.recursive = 1, !.dirstruct = IF o.no_dirstruct = 0 THEN 1 ELSE @,
                            !.timestamping = 1, !.reclevel = 1, !.remove_listing = 0]]

cmd_spec_recursive(o, val) ==
    LET r == cmd_boolean(val) IN
    [ok |-> r.ok,
     opt |-> IF ~ r.ok THEN o
             ELSE [o EXCEPT !.recursive = r.value,
                            !.dirstruct = IF r.value = 1 /\ o.no_dirstruct = 0 THEN 1 ELSE @]]

cmd_spec_timeout(o, val) ==
    LET r == cmd_time(val) IN
    [ok |-> r.ok,
     opt |-> IF ~ r.ok THEN o
             ELSE [o EXCEPT !.read_timeout = r.value, !.connect_timeout = r.value, !.dns_timeout = r.value]]

\* A name may be cut short, and what follows a colon is not looked at.
cmd_spec_progress(o, val) ==
    LET ok == val = <<>> \/ val[1] \in {"bar", "dot", ":"} IN
    [ok |-> ok, opt |-> IF ok THEN [o EXCEPT !.progress = val] ELSE o]

\* What is allowed is found out, and not kept.
cmd_spec_restrict_file_names(o, val) ==
    [ok |-> val \in {<<a>> : a \in {"unix", "windows", "nocontrol"}}
                    \cup {<<a, ",", "nocontrol">> : a \in {"unix", "windows", "nocontrol"}}, opt |-> o]

cmd_spec_useragent(o, val) ==
    [ok |-> "\n" \notin ToSet(val), opt |-> IF "\n" \notin ToSet(val) THEN [o EXCEPT !.useragent = val] ELSE o]

Command(o, com, val) ==
    CASE com = "dirstruct" -> cmd_spec_dirstruct(o, val)
      [] com = "htmlify"   -> cmd_spec_htmlify(o, val)
      [] com = "mirror"    -> cmd_spec_mirror(o, val)
      [] com = "recursive" -> cmd_spec_recursive(o, val)
      [] com = "timeout"   -> cmd_spec_timeout(o, val)
      [] com = "progress"  -> cmd_spec_progress(o, val)
      [] com = "restrictfilenames" -> cmd_spec_restrict_file_names(o, val)
      [] com = "useragent" -> cmd_spec_useragent(o, val)
      [] com = "passiveftp" -> Plain(o, "ftp_pasv", cmd_lockable_boolean(val, o.ftp_pasv))
      [] com = "removelisting" -> Plain(o, "remove_listing", cmd_boolean(val))
      [] com = "noclobber" -> Plain(o, "noclobber", cmd_boolean(val))
      [] com = "noparent"  -> Plain(o, "noparent", cmd_boolean(val))
      [] com = "verbose"   -> Plain(o, "verbose", cmd_boolean(val))
      [] com = "addhostdir" -> Plain(o, "add_hostdir", cmd_boolean(val))
      [] com = "limitrate" -> Plain(o, "limit_rate", parse_bytes_helper(val))
      [] com = "readtimeout" -> Plain(o, "read_timeout", cmd_time(val))
      [] com = "tries"     -> Plain(o, "ntry", cmd_number_inf(val, o.ntry))
      [] com = "thread-count" -> Plain(o, "thread_count", cmd_number_inf(val, o.thread_count))

\* Mutant: the last place of a range is not looked at.
command_by_name_HalfOpen(table, name) ==
    LET within[r \in (0 .. Len(table)) \X (-1 .. Len(table) - 1)] ==
            LET mid == (r[1] + r[2]) \div 2 IN
            IF r[1] >= r[2] THEN -1
            ELSE IF name < table[mid + 1] THEN within[<<r[1], mid - 1>>]
            ELSE IF name > table[mid + 1] THEN within[<<mid + 1, r[2]>>]
            ELSE mid
    IN  within[<<0, Len(table) - 1>>]

\* command_by_name, on a table of numbers: r is the range from lo to hi.
command_by_name(table, name) ==
    LET within[r \in (0 .. Len(table)) \X (-1 .. Len(table) - 1)] ==
            LET mid == (r[1] + r[2]) \div 2 IN
            IF r[1] > r[2] THEN -1
            ELSE IF name < table[mid + 1] THEN within[<<r[1], mid - 1>>]
            ELSE IF name > table[mid + 1] THEN within[<<mid + 1, r[2]>>]
            ELSE mid
    IN  within[<<0, Len(table) - 1>>]

-----------------------------------------------------------------------------
(* The command line *)

\* Options with a value, and Booleans, by the command they run (init_switches
\* gives the latter an optional value and a form with "no-").
ValueOptions == {"timeout", "progress", "useragent", "limitrate", "readtimeout", "tries", "thread-count"}
BooleanOptions == {"dirstruct", "htmlify", "mirror", "recursive", "restrictfilenames", "passiveftp",
                   "removelisting", "noclobber", "noparent", "verbose", "addhostdir"}

\* A value for a number: what it is made of (model: all of them only for the
\* first option).
Amounts == [lead : {<<>>, <<Gap>>}, sign : {<<>>, <<"-">>, <<"+">>}, whole : {<<>>, <<"2">>, <<"1", "0">>},
            frac : {<<>>, <<".">>, <<".", "5">>, <<".", "5", ".">>}, gap : {<<>>, <<Gap>>},
            unit : {<<>>, <<"k">>, <<"m">>}]
TextOf(a) == a.lead \o a.sign \o a.whole \o a.frac \o a.gap \o a.unit \o a.lead

ValueTexts(com) ==
    CASE com \in {"limitrate", "readtimeout"} /\ used = 0 -> {TextOf(a) : a \in Amounts}
      [] com \in {"timeout", "limitrate", "readtimeout"} -> {<<"2", "k">>, <<"5", "m">>, <<"inf">>}
      [] com \in {"tries", "thread-count"} -> {<<"inf">>, <<"5">>}
      [] com = "progress" -> {<<"bar", ":">>, <<"dots">>}
      [] com = "useragent" -> {<<"me">>, <<"me", "\n">>}
      [] com = "restrictfilenames" -> {<<"1">>, <<"unix">>, <<"windows", ",", "nocontrol">>}
      [] com = "passiveftp" -> {<<"always">>, <<"never">>, <<"on">>, <<"off">>, <<"maybe">>}
      [] OTHER -> {<<"1">>, <<"0">>, <<"maybe">>}

OptionsInit ==
    /\ opt = defaults /\ outcome = "running"
    /\ last = [com |-> "", val |-> <<>>] /\ used = 0

Another == outcome = "running" /\ used < MaxOptions /\ used' = used + 1

\* setoptval: a value that is refused ends the program.
setoptval(com, val) ==
    LET r == Command(opt, com, val) IN
    /\ Another
    /\ opt' = r.opt /\ outcome' = IF r.ok THEN "running" ELSE "exit"
    /\ last' = [com |-> com, val |-> val]

\* -n with several letters is -n with each of them in turn; one that is not
\* allowed ends the program.
LetterCommands ==
    [v |-> <<"verbose", "0">>, H |-> <<"addhostdir", "0">>, d |-> <<"dirstruct", "0">>,
     c |-> <<"noclobber", "1">>, p |-> <<"noparent", "1">>]

NoLetters ==
    \/ \E l \in DOMAIN LetterCommands : setoptval(LetterCommands[l][1], <<LetterCommands[l][2]>>)
    \/ Another /\ last' = [com |-> "no", val |-> <<"z">>] /\ outcome' = "exit" /\ UNCHANGED opt

\* --parent and --clobber mean the opposite of their commands.
ParentOrClobber(com, val) ==
    setoptval(com, <<IF val \in {<<>>, <<"1">>, <<"yes">>, <<"on">>} THEN "0" ELSE "1">>)

DontRemoveListing == setoptval("removelisting", <<"0">>)

\* --egd-file and --random-file have no command without SSL: the assertion in
\* setval_internal fails.  cmd_directory reads a name cmd_file has not set, and
\* --execute a line nobody has parsed.
Crashes ==
    /\ Another
    /\ \E com \in {"egdfile", "randomfile", "dirprefix", "execute"} : last' = [com |-> com, val |-> <<>>]
    /\ outcome' = "crash" /\ UNCHANGED opt

OptionsNext ==
    \/ \E com \in ValueOptions \cup BooleanOptions : \E val \in ValueTexts(com) : setoptval(com, val)
    \/ NoLetters
    \/ \E com \in {"noparent", "noclobber"}, val \in {<<>>, <<"1">>, <<"no">>} : ParentOrClobber(com, val)
    \/ DontRemoveListing
    \/ Crashes

OptionsSpec == OptionsInit /\ [][OptionsNext]_ovars

-----------------------------------------------------------------------------
\* Directories that have been switched off stay so, whether a recursive or
\* mirroring download was asked for before or after.
NoDirectoriesWins == opt.no_dirstruct = 1 => opt.dirstruct = 0

\* Passive mode that is on "always" or off for "never" is not changed by any
\* later option.
LockKept == [][opt.ftp_pasv \in {-1, 2} => opt'.ftp_pasv = opt.ftp_pasv]_ovars

\* A value that is refused has changed nothing.
RefusedChangesNothing == [][outcome' = "exit" => opt' = opt]_ovars

\* A number means what it says, wherever there are blanks in it, is refused if
\* there is no digit or a second dot in it, and a rate is never negative.
NumbersMeanWhatTheySay ==
    last.com \in {"limitrate", "readtimeout"} /\ last.val # <<"inf">> =>
        \A a \in {b \in Amounts : TextOf(b) = last.val} :
            LET tenths == (IF a.whole = <<>> THEN 0 ELSE IF a.whole = <<"2">> THEN 20 ELSE 100)
                          + (IF Len(a.frac) = 2 THEN 5 ELSE 0)
                right  == Len(a.frac) < 3 /\ (a.whole # <<>> \/ Len(a.frac) = 2)
                amount == IF a.sign = <<"-">> THEN - tenths ELSE tenths
            IN  IF last.com = "limitrate"
                THEN /\ outcome = "running" <=> right /\ amount >= 0
                     /\ outcome = "running" =>
                          10 * opt.limit_rate = amount * (IF a.unit = <<>> THEN 1 ELSE ByteUnit(a.unit[1]))
                                                - (IF a.unit = <<>> /\ tenths % 10 # 0 THEN 5 ELSE 0)
                ELSE /\ outcome = "running" <=> right /\ a.unit # <<"k">>
                     /\ outcome = "running" =>
                          opt.read_timeout = amount * (IF a.unit = <<"m">> THEN 60 ELSE 1)

\* The binary search finds every command there is, and no other, whatever the
\* length of the table.
CommandsFound ==
    used = 1 => \A n \in Places :
        LET table == [i \in 1 .. n |-> 2 * i] IN
        \A name \in 1 .. 2 * n + 1 :
            command_by_name(table, name) = IF name % 2 = 0 THEN name \div 2 - 1 ELSE -1

\* After any sequence of commands the options say what the user meant.
OptionsMean == NoDirectoriesWins /\ NumbersMeanWhatTheySay /\ CommandsFound

\* A command that is locked out or refused leaves every option as it was.
OptionsKept == LockKept /\ RefusedChangesNothing
=============================================================================
