-------------------------------- MODULE Files --------------------------------
(***************************************************************************)
(* utils.cpp: make_directory and unique_create, called by processes that   *)
(* share a file system with each other and with other programs.  Every     *)
(* system call is a step.                                                  *)
(***************************************************************************)
EXTENDS Integers, FiniteSets

CONSTANTS
    Procs,
    Depth,          \* components of the directory asked for
    Stems,          \* names asked for
    ShortStems,     \* those of fewer than 45 characters
    LongStems,      \* those of more
    Others          \* bound on the numbered files other programs make

ASSUME FilesAssumption ==
    /\ Depth \in Nat \ {0} /\ Others \in Nat /\ IsFiniteSet(Procs)
    /\ ShortStems \cup LongStems \subseteq Stems /\ ShortStems \cap LongStems = {}

VARIABLES
    dirs,           \* component -> what is there: "none", "dir" or "file"
    denied,         \* components that mkdir may not make
    names,          \* files there: <<stem, number>>, 0 for no number
    job,            \* what each process is doing
    made            \* history: what unique_create has opened, for whom

dvars == <<dirs, denied, names, job, made>>

MaxCount == Cardinality(Procs) + Others + 1
NotBusy == [at |-> "idle"]

FilesStart(d) ==
    /\ dirs = [i \in 1 .. Depth |-> "none"] /\ denied = d
    /\ names = {} /\ made = [n \in {} |-> NotBusy]
    /\ job = [p \in Procs |-> NotBusy]

FilesInit == \E d \in SUBSET (1 .. Depth) : FilesStart(d)

HasParent(i) == i > 1 => dirs[i - 1] = "dir"

-----------------------------------------------------------------------------
(* make_directory: the path is cut at each slash, its part tested and made *)

MakeDirectory(p) ==
    /\ job[p] = NotBusy
    /\ job' = [job EXCEPT ![p] = [at |-> "test", i |-> 1, ret |-> 0]]
    /\ UNCHANGED <<dirs, denied, names, made>>

\* Only the last component's result is returned.
NextPart(p, ret) ==
    job' = [job EXCEPT ![p] = IF job[p].i = Depth THEN [at |-> "done", i |-> Depth, ret |-> ret]
                              ELSE [at |-> "test", i |-> job[p].i + 1, ret |-> ret]]

TestPart(p) ==
    /\ job[p].at = "test"
    /\ IF dirs[job[p].i] # "none" THEN NextPart(p, 0) ELSE job' = [job EXCEPT ![p].at = "mkdir"]
    /\ UNCHANGED <<dirs, denied, names, made>>

\* Mutant: a failure is not noticed.
Mkdir_NoResult(p) ==
    LET i == job[p].i
        succeeds == dirs[i] = "none" /\ HasParent(i) /\ i \notin denied
    IN  /\ job[p].at = "mkdir"
        /\ dirs' = [dirs EXCEPT ![i] = IF succeeds THEN "dir" ELSE @]
        /\ NextPart(p, 0)
        /\ UNCHANGED <<denied, names, made>>

Mkdir(p) ==
    LET i == job[p].i
        succeeds == dirs[i] = "none" /\ HasParent(i) /\ i \notin denied
    IN  /\ job[p].at = "mkdir"
        /\ dirs' = [dirs EXCEPT ![i] = IF succeeds THEN "dir" ELSE @]
        /\ NextPart(p, IF succeeds THEN 0 ELSE -1)
        /\ UNCHANGED <<denied, names, made>>

-----------------------------------------------------------------------------
(* unique_create *)

UniqueCreate(p, s) ==
    /\ job[p] = NotBusy
    /\ job' = [job EXCEPT ![p] = [at |-> "unique", name |-> s]]
    /\ UNCHANGED <<dirs, denied, names, made>>

\* unique_name: the name itself if nothing has it.
unique_name(p) ==
    LET s == job[p].name IN
    /\ job[p].at = "unique"
    /\ job' = [job EXCEPT ![p] =
            IF <<s, 0>> \in names THEN [at |-> "number", name |-> s, count |-> 1]
            ELSE [at |-> "open", name |-> s, uname |-> <<s, 0>>]]
    /\ UNCHANGED <<dirs, denied, names, made>>

\* unique_name_1 copies 45 characters of the name, with the terminator of a
\* shorter one, behind which the number is not seen.
Template(s, count) ==
    IF s \in ShortStems THEN <<s, 0>>
    ELSE IF s \in LongStems THEN <<"cut", count>>
    ELSE <<s, count>>

unique_name_1(p) ==
    LET s == job[p].name
        count == job[p].count
        tpl == Template(s, count)
    IN  /\ job[p].at = "number"
        /\ job' = [job EXCEPT ![p] =
                IF tpl \in names
                THEN [@ EXCEPT !.count = IF count = MaxCount THEN count ELSE count + 1]
                ELSE [at |-> "open", name |-> s, uname |-> tpl]]
        /\ UNCHANGED <<dirs, denied, names, made>>

\* Mutant: the file is opened without O_EXCL.
fopen_excl_Shared(p) ==
    LET n == job[p].uname IN
    /\ job[p].at = "open"
    /\ names' = names \cup {n} /\ job' = [job EXCEPT ![p].at = "opened"]
    /\ made' = [x \in DOMAIN made \cup {n} |-> IF x = n THEN p ELSE made[x]]
    /\ UNCHANGED <<dirs, denied>>

\* fopen_excl; when the name has been taken since, unique_create starts over.
fopen_excl(p) ==
    LET n == job[p].uname IN
    /\ job[p].at = "open"
    /\ IF n \notin names
       THEN /\ names' = names \cup {n} /\ job' = [job EXCEPT ![p].at = "opened"]
            /\ made' = [x \in DOMAIN made \cup {n} |-> IF x = n THEN p ELSE made[x]]
       ELSE job' = [job EXCEPT ![p] = [at |-> "unique", name |-> @.name]] /\ UNCHANGED <<names, made>>
    /\ UNCHANGED <<dirs, denied>>

-----------------------------------------------------------------------------
(* Other programs (external) make directories and files *)

SomeoneMakes(i) ==
    /\ dirs[i] = "none" /\ HasParent(i)
    /\ \E kind \in {"dir", "file"} : dirs' = [dirs EXCEPT ![i] = kind]
    /\ UNCHANGED <<denied, names, job, made>>

SomeoneWrites(s) ==
    /\ \E n \in 0 .. Others : <<s, n>> \notin names /\ names' = names \cup {<<s, n>>}
    /\ UNCHANGED <<dirs, denied, job, made>>

FilesNext ==
    \/ \E p \in Procs :
        \/ MakeDirectory(p) \/ TestPart(p) \/ Mkdir(p)
        \/ \E s \in Stems : UniqueCreate(p, s)
        \/ unique_name(p) \/ unique_name_1(p) \/ fopen_excl(p)
    \/ \E i \in 1 .. Depth : SomeoneMakes(i)
    \/ \E s \in Stems : SomeoneWrites(s)

FilesSpec == FilesInit /\ [][FilesNext]_dvars

-----------------------------------------------------------------------------
\* make_directory is true to what it returns even when others make the same
\* directories: after success the path is there, and after a failure it is
\* there as well (made between the test and the mkdir) unless a component is a
\* file or may not be made.
DirectoryMade ==
    \A p \in Procs : job[p].at = "done" =>
        /\ job[p].ret = 0 => dirs[Depth] # "none"
        /\ job[p].ret # 0 /\ denied = {} /\ (\A i \in 1 .. Depth : dirs[i] # "file")
             => dirs[Depth] = "dir"

\* unique_create never opens a file that was there, whoever made it and however
\* the test for the name and the opening are interleaved: a file that is there
\* and was not opened by a call never will be, and one that was stays its own.
NeverOverwrites ==
    [][/\ \A n \in names : n \in DOMAIN made' => n \in DOMAIN made /\ made'[n] = made[n]
       /\ \A p \in Procs : job'[p].at = "opened" => made'[job'[p].uname] = p]_dvars
=============================================================================
