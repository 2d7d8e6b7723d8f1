------------------------------- MODULE FtpList -------------------------------
(***************************************************************************)
(* headers.cpp: what is read from an FTP server's listing of one file, by  *)
(* FtpCommand::GetLISTSize, which FtpRetreiver uses, and by FtpListParse,  *)
(* which knows more formats and guesses the year of a date without one.    *)
(* A line is a sequence of columns; days are counted, not seconds.         *)
(***************************************************************************)
EXTENDS Integers, Sequences

CONSTANTS
    Sizes,          \* sizes a line may show
    FirstYear, LastYear,
    Recent          \* how many days a line shows no year for

ASSUME FtpListAssumption == FirstYear \in Nat /\ LastYear \in Nat /\ Recent \in Nat /\ Recent < 350

VARIABLES
    listing,        \* the columns of the line
    place,          \* how many of them FtpListParse::Parse has seen
    state,          \* its `state'
    size, month, mday, when,    \* what it has found
    today, past     \* [year, month, mday]: the day it is, and one before it

lvars == <<listing, place, state, size, month, mday, when, today, past>>

\* getlong of a word: a number nobody meant.
Garbage == -1
Unset == -2
Number(column) == IF column[1] = "number" THEN column[2] ELSE Garbage

-----------------------------------------------------------------------------
(* The calendar *)

\* totai, in days: a year of Parse starts in March, months are 0 .. 11.
\* Division and remainder are those of C, which the years here do not show.
totai(year, mon, day) ==
    LET y  == IF mon >= 2 THEN year ELSE year - 1
        m  == IF mon >= 2 THEN mon - 2 ELSE mon + 10
        d1 == ((day - 1) * 10 + 5 + 306 * m) \div 10
        y1 == IF d1 = 365 THEN y - 3 ELSE y
        r1 == IF d1 = 365 THEN 1460 ELSE d1 + 365 * (y % 4)
        y2 == y1 \div 4
        r2 == r1 + 1461 * (y2 % 25)
        y3 == y2 \div 25
        y4 == IF r2 = 36524 THEN y3 - 3 ELSE y3
        r3 == IF r2 = 36524 THEN 146096 ELSE r2 + 36524 * (y3 % 4)
    IN  r3 + 146097 * (y4 \div 4 - 5) + 11017

\* initnow: the year of a day.
currentyear(now) ==
    LET d0 == now - 11017
        y0 == (5 + d0 \div 146097) * 4
        d1 == d0 % 146097
        y1 == (IF d1 = 146096 THEN y0 + 3 ELSE y0 + d1 \div 36524) * 25
        d2 == IF d1 = 146096 THEN 36524 ELSE d1 % 36524
        y2 == (y1 + d2 \div 1461) * 4
        d3 == d2 % 1461
        y3 == IF d3 = 1460 THEN y2 + 3 ELSE y2 + d3 \div 365
        d4 == IF d3 = 1460 THEN 365 ELSE d3 % 365
    IN  IF (d4 * 10 + 5) \div 306 >= 10 THEN y3 + 1 ELSE y3

\* guesstai: the first year from last year on that puts the date less than
\* 350 days ago, or in the future.
guesstai(now, mon, day) ==
    LET years == currentyear(now) - 1 .. currentyear(now) + 1
        fits  == {y \in years : now - totai(y, mon, day) < 350}
    IN  IF fits = {} THEN 0
        ELSE totai(CHOOSE y \in fits : \A z \in fits : y <= z, mon, day)

\* The reference: how the days go by.
Leap(y) == y % 4 = 0 /\ (y % 100 # 0 \/ y % 400 = 0)
DaysIn(y, m) ==
    IF m = 1 THEN (IF Leap(y) THEN 29 ELSE 28) ELSE IF m \in {3, 5, 8, 10} THEN 30 ELSE 31

Tomorrow(d) ==
    IF d.mday < DaysIn(d.year, d.month) THEN [d EXCEPT !.mday = @ + 1]
    ELSE IF d.month < 11 THEN [d EXCEPT !.month = @ + 1, !.mday = 1]
    ELSE [year |-> d.year + 1, month |-> 0, mday |-> 1]

Tai(d) == totai(d.year, d.month, d.mday)

\* A day passes, for the clock or for the file as well.
DayPasses ==
    /\ listing = <<>> /\ today.year <= LastYear
    /\ today' = Tomorrow(today)
    /\ \/ past' = Tomorrow(past) /\ Tai(today) - Tai(past) > 0
       \/ past' = past /\ Tai(today) - Tai(past) < Recent
    /\ UNCHANGED <<listing, place, state, size, month, mday, when>>

-----------------------------------------------------------------------------
(* One line, column by column *)

Word(w) == <<"word", w>>
Numeral(n) == <<"number", n>>

\* The comments' examples: permissions, links, owner, perhaps a group, size;
\* NetWare and NetPresenz; then a date with a year or a time, and the name.
Fronts(n) ==
    {<<Word("perm"), Numeral(1), Word("user"), Word("group"), Numeral(n)>>,
     <<Word("perm"), Numeral(2), Word("user"), Numeral(n)>>,
     <<Word("perm"), Word("[RWC]"), Word("user"), Numeral(n)>>,
     <<Word("perm"), Word("folder"), Numeral(n)>>,
     <<Word("perm"), Numeral(326), Numeral(1391972), Numeral(n)>>}

Dates == {<<Word("month"), Numeral(14), Numeral(1994)>>, <<Word("month"), Numeral(29), <<"time", 3>>>>}

FtpListStart(l) ==
    /\ listing = l
    /\ place = 0 /\ state = 1
    /\ size = Unset /\ month = Unset /\ mday = Unset /\ when = Unset
    /\ today = [year |-> FirstYear, month |-> 2, mday |-> 1]
    /\ past = today

FtpListInit ==
    \/ \E n \in Sizes : \E front \in Fronts(n), date \in Dates :
          FtpListStart(front \o date \o <<Word("name")>>)
    \/ FtpListStart(<<>>)

Column == listing[place + 1]
SeesColumn(there) ==
    /\ place < Len(listing) - 1 /\ place' = place + 1 /\ state' = there
    /\ UNCHANGED <<listing, today, past>>

\* Mutant: a folder of NetPresenz has columns like all others.
Skip_Folders ==
    /\ state \in 1 .. 3
    /\ SeesColumn(state + 1)
    /\ UNCHANGED <<size, month, mday, when>>

\* States 1 to 3 skip a column; a folder of NetPresenz has no more to skip.
Skip ==
    /\ state \in 1 .. 3
    /\ SeesColumn(IF state = 2 /\ Column = Word("folder") THEN 4 ELSE state + 1)
    /\ UNCHANGED <<size, month, mday, when>>

\* State 4 takes a size tentatively, state 5 another until it finds a month.
TentativeSize ==
    /\ state = 4 \/ (state = 5 /\ Column # Word("month"))
    /\ SeesColumn(5)
    /\ size' = Number(Column)
    /\ UNCHANGED <<month, mday, when>>

Month ==
    /\ state = 5 /\ Column = Word("month")
    /\ SeesColumn(6)
    /\ month' = 3
    /\ UNCHANGED <<size, mday, when>>

Day ==
    /\ state = 6 /\ SeesColumn(7)
    /\ mday' = Number(Column)
    /\ UNCHANGED <<size, month, when>>

\* State 7: a time of day, with the year guessed, or a year.
TimeOrYear ==
    /\ state = 7 /\ SeesColumn(8)
    /\ when' = IF Column[1] = "time" THEN guesstai(Tai(today), month, mday)
               ELSE totai(Number(Column), month, mday)
    /\ UNCHANGED <<size, month, mday>>

FtpListNext == DayPasses \/ Skip \/ TentativeSize \/ Month \/ Day \/ TimeOrYear

FtpListSpec == FtpListInit /\ [][FtpListNext]_lvars

-----------------------------------------------------------------------------

\* GetLISTSize: atol of the column after the fourth gap.
GetLISTSize == IF listing[5][1] = "number" THEN listing[5][2] ELSE 0

\* The reference: the number before the month.
TrueSize ==
    LET at == CHOOSE i \in DOMAIN listing : listing[i] = Word("month") IN Number(listing[at - 1])

\* Whatever columns a server leaves out, FtpListParse finds the size and the
\* date, and knows that the line is over when it has them.
ColumnsFound ==
    listing # <<>> /\ place = Len(listing) - 1 =>
        /\ state = 8 /\ size = TrueSize
        /\ when = IF listing[place][1] = "time" THEN guesstai(Tai(today), 3, listing[place - 1][2])
                  ELSE totai(listing[place][2], 3, listing[place - 1][2])

\* FtpRetreiver knows a file's size only if the server shows owner and group:
\* without a group it takes the day of the month for it if the month is the
\* fourth column, and finds none otherwise.
SizeNeedsGroup ==
    listing # <<>> =>
        GetLISTSize = IF listing[4] = Word("group") THEN TrueSize
                      ELSE IF listing[4] = Word("month") THEN listing[5][2] ELSE 0

\* A day's number is one more than that of the day before, over the end of
\* months, of leap years and of centuries, and gives the day's year back.
CalendarAgrees ==
    /\ Tai(Tomorrow(today)) = Tai(today) + 1
    /\ currentyear(Tai(today)) = today.year

\* A date shown without a year, less than Recent days old, is that day.
RecentDatesGuessed == guesstai(Tai(today), past.month, past.mday) = Tai(past)

\* A line of a listing means what the server meant: name, size and date.
ListingRead ==
    /\ ColumnsFound
    /\ SizeNeedsGroup
    /\ CalendarAgrees
    /\ RecentDatesGuessed
=============================================================================
