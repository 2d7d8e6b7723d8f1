---------------------------- MODULE LibraryProofs ----------------------------
(***************************************************************************)
(* What processes and threads share, and what gauges keep, proved.         *)
(* Files, for any number of processes and of directories: what             *)
(* make_directory returns is true (Directories), and unique_create opens   *)
(* no file that was there (NewFiles).  DirInv says of a call under way     *)
(* that the components behind it are there; FileInv that a file opened is  *)
(* the caller's.  Screen, for any number of threads, bars and rows:        *)
(* messages and bars keep to their rows (RowsKept).  ScreenInv says who    *)
(* has yet to trim the list, to draw it or to make room.  Progress:        *)
(* GaugesKept, with GaugeInv, in which Window says which sample is at      *)
(* which place of the ring of speeds, BarOk what of a bar the image        *)
(* depends on, and DotOk what dots account for.                            *)
(*                                                                         *)
(* Text, for texts of any length and any bytes: TextIsKept.  LinesInv says *)
(* what read_whole_line has returned and holds.  A conversion is turned    *)
(* into a reader of one character after another (Folded), and induction    *)
(* over the text says what it has made of it: UrlCodedBack of the percent  *)
(* codes, SepsPlaced of numbers, NamesStay of names, ListsStay of lists,   *)
(* CodedIs and CodeTaken of base 64.                                       *)
(***************************************************************************)
EXTENDS Files, Screen, Progress, Text, ParserProofs

MakingJobs == [at : {"test", "mkdir", "done"}, i : 1 .. Depth, ret : {0, -1}]
NamingJobs == [at : {"unique"}, name : Stems]
NumberJobs == [at : {"number"}, name : Stems, count : Int]
OpeningJobs == [at : {"open", "opened"}, name : Stems, uname : (Stems \cup {"cut"}) \X Int]

JobTypes ==
    /\ dirs \in [1 .. Depth -> {"none", "dir", "file"}]
    /\ job \in [Procs -> {NotBusy} \cup MakingJobs \cup NamingJobs \cup NumberJobs
                            \cup OpeningJobs]

\* Nothing stands in the way of the directory.
Clear == denied = {} /\ \A i \in 1 .. Depth : dirs[i] # "file"

DirInv ==
    \A p \in Procs :
        /\ job[p].at = "done" /\ job[p].ret = 0 => dirs[Depth] # "none"
        /\ job[p].at = "done" /\ Clear => dirs[Depth] = "dir"
        /\ job[p].at \in {"test", "mkdir"} /\ Clear =>
              \A j \in 1 .. Depth : j < job[p].i => dirs[j] = "dir"

FileInv ==
    /\ DOMAIN made \subseteq names
    /\ \A p \in Procs : job[p].at = "opened" =>
          job[p].uname \in DOMAIN made /\ made[job[p].uname] = p

\* The call of p is making a directory.
LEMMA Making ==
    ASSUME JobTypes, NEW p \in Procs, job[p].at \in {"test", "mkdir", "done"}
    PROVE  job[p] \in MakingJobs
  BY DEF JobTypes, NotBusy, NamingJobs, NumberJobs, OpeningJobs, MakingJobs

\* The call of p has a name to open.
LEMMA Opening ==
    ASSUME JobTypes, NEW p \in Procs, job[p].at \in {"open", "opened"}
    PROVE  job[p] \in OpeningJobs
  BY DEF JobTypes, NotBusy, NamingJobs, NumberJobs, OpeningJobs, MakingJobs

\* What the next part of a path is and what it leaves of the call.
LEMMA Parts ==
    ASSUME JobTypes, NEW p \in Procs, NEW r \in {0, -1}, job[p].at \in {"test", "mkdir"},
           NextPart(p, r)
    PROVE  /\ \A q \in Procs \ {p} : job'[q] = job[q]
           /\ job'[p] \in MakingJobs
           /\ job'[p].ret = r
           /\ job'[p].at = IF job[p].i = Depth THEN "done" ELSE "test"
           /\ job[p].i # Depth => job'[p].i = job[p].i + 1
           /\ job' \in [Procs -> {NotBusy} \cup MakingJobs \cup NamingJobs \cup NumberJobs
                                   \cup OpeningJobs]
<1>1. job[p] \in MakingJobs
  BY Making
<1>2. job[p].i \in 1 .. Depth
  BY <1>1 DEF MakingJobs
<1>3. job' = [job EXCEPT ![p] = IF job[p].i = Depth
                                THEN [at |-> "done", i |-> Depth, ret |-> r]
                                ELSE [at |-> "test", i |-> job[p].i + 1, ret |-> r]]
  BY DEF NextPart
<1>4. CASE job[p].i = Depth
  <2>1. [at |-> "done", i |-> Depth, ret |-> r] \in MakingJobs
    BY <1>2, <1>4 DEF MakingJobs
  <2> QED
    BY <1>3, <1>4, <2>1 DEF JobTypes
<1>5. CASE job[p].i # Depth
  <2>1. [at |-> "test", i |-> job[p].i + 1, ret |-> r] \in MakingJobs
    BY <1>2, <1>5, FilesAssumption DEF MakingJobs
  <2> QED
    BY <1>3, <1>5, <2>1 DEF JobTypes
<1> QED
  BY <1>4, <1>5

-----------------------------------------------------------------------------
\* Every step keeps the types.
LEMMA JobTypesStep == JobTypes /\ [FilesNext]_dvars => JobTypes'
<1> SUFFICES ASSUME JobTypes, [FilesNext]_dvars PROVE JobTypes'
  OBVIOUS
<1>1. ASSUME NEW p \in Procs, MakeDirectory(p) PROVE JobTypes'
  <2>1. [at |-> "test", i |-> 1, ret |-> 0] \in MakingJobs
    BY FilesAssumption DEF MakingJobs
  <2> QED
    BY <1>1, <2>1 DEF MakeDirectory, JobTypes
<1>2. ASSUME NEW p \in Procs, TestPart(p) PROVE JobTypes'
  <2>1. CASE NextPart(p, 0)
    BY <1>2, <2>1, Parts DEF TestPart, JobTypes
  <2>2. CASE job' = [job EXCEPT ![p].at = "mkdir"]
    <3>1. [job[p] EXCEPT !.at = "mkdir"] \in MakingJobs
      BY <1>2, Making DEF TestPart, MakingJobs
    <3> QED
      BY <1>2, <2>2, <3>1 DEF TestPart, JobTypes
  <2> QED
    BY <1>2, <2>1, <2>2 DEF TestPart
<1>3. ASSUME NEW p \in Procs, Mkdir(p) PROVE JobTypes'
  <2>1. dirs' \in [1 .. Depth -> {"none", "dir", "file"}]
    BY <1>3 DEF Mkdir, JobTypes
  <2>2. job[p].at = "mkdir" /\ \E r \in {0, -1} : NextPart(p, r)
    BY <1>3 DEF Mkdir
  <2> QED
    BY <2>1, <2>2, Parts DEF JobTypes
<1>4. ASSUME NEW p \in Procs, NEW s \in Stems, UniqueCreate(p, s) PROVE JobTypes'
  <2>1. [at |-> "unique", name |-> s] \in NamingJobs
    BY DEF NamingJobs
  <2> QED
    BY <1>4, <2>1 DEF UniqueCreate, JobTypes
<1>5. ASSUME NEW p \in Procs, unique_name(p) PROVE JobTypes'
  <2>1. job[p].name \in Stems
    BY <1>5 DEF unique_name, JobTypes, NotBusy, MakingJobs, NamingJobs, NumberJobs, OpeningJobs
  <2>2. /\ [at |-> "number", name |-> job[p].name, count |-> 1] \in NumberJobs
        /\ [at |-> "open", name |-> job[p].name, uname |-> <<job[p].name, 0>>] \in OpeningJobs
    BY <2>1 DEF NumberJobs, OpeningJobs
  <2> QED
    BY <1>5, <2>2 DEF unique_name, JobTypes
<1>6. ASSUME NEW p \in Procs, unique_name_1(p) PROVE JobTypes'
  <2>1. job[p] \in NumberJobs
    BY <1>6 DEF unique_name_1, JobTypes, NotBusy, MakingJobs, NamingJobs, NumberJobs, OpeningJobs
  <2>2. job[p].name \in Stems /\ job[p].count \in Int
    BY <2>1 DEF NumberJobs
  <2>3. Template(job[p].name, job[p].count) \in (Stems \cup {"cut"}) \X Int
    BY <2>2 DEF Template
  <2>4. [at |-> "open", name |-> job[p].name,
         uname |-> Template(job[p].name, job[p].count)] \in OpeningJobs
    BY <2>2, <2>3 DEF OpeningJobs
  <2>5. \A n \in Int : [job[p] EXCEPT !.count = n] \in NumberJobs
    BY <2>1 DEF NumberJobs
  <2>6. CASE Template(job[p].name, job[p].count) \in names
    <3> DEFINE n == IF job[p].count = MaxCount THEN job[p].count ELSE job[p].count + 1
    <3>1. job' = [job EXCEPT ![p] = [job[p] EXCEPT !.count = n]] /\ UNCHANGED dirs
      BY <1>6, <2>6 DEF unique_name_1
    <3>2. n \in Int
      BY <2>2
    <3>3. [job[p] EXCEPT !.count = n] \in NumberJobs
      BY <2>5, <3>2
    <3> QED
      BY <3>1, <3>3 DEF JobTypes
  <2>7. CASE Template(job[p].name, job[p].count) \notin names
    BY <1>6, <2>4, <2>7 DEF unique_name_1, JobTypes
  <2> QED
    BY <2>6, <2>7
<1>7. ASSUME NEW p \in Procs, fopen_excl(p) PROVE JobTypes'
  <2>1. job[p] \in OpeningJobs
    BY <1>7, Opening DEF fopen_excl
  <2>2. [job[p] EXCEPT !.at = "opened"] \in OpeningJobs
        /\ [at |-> "unique", name |-> job[p].name] \in NamingJobs
    BY <2>1 DEF OpeningJobs, NamingJobs
  <2> QED
    BY <1>7, <2>2 DEF fopen_excl, JobTypes
<1>8. ASSUME NEW i \in 1 .. Depth, SomeoneMakes(i) PROVE JobTypes'
  BY <1>8 DEF SomeoneMakes, JobTypes
<1>9. ASSUME NEW s \in Stems, SomeoneWrites(s) PROVE JobTypes'
  BY <1>9 DEF SomeoneWrites, JobTypes
<1>10. CASE UNCHANGED dvars
  BY <1>10 DEF dvars, JobTypes
<1> QED
  BY <1>1, <1>2, <1>3, <1>4, <1>5, <1>6, <1>7, <1>8, <1>9, <1>10 DEF FilesNext

\* Nothing that is there goes away or changes: what is clear now was clear before.
LEMMA DirsStay ==
    ASSUME JobTypes, [FilesNext]_dvars
    PROVE  /\ \A i \in 1 .. Depth : dirs[i] # "none" => dirs'[i] = dirs[i]
           /\ Clear' => Clear
<1>1. denied' = denied
  BY DEF FilesNext, MakeDirectory, TestPart, Mkdir, UniqueCreate, unique_name, unique_name_1,
         fopen_excl, SomeoneMakes, SomeoneWrites, dvars
<1>2. \A i \in 1 .. Depth : dirs[i] # "none" => dirs'[i] = dirs[i]
  BY DEF FilesNext, MakeDirectory, TestPart, Mkdir, UniqueCreate, unique_name, unique_name_1,
         fopen_excl, SomeoneMakes, SomeoneWrites, dvars, JobTypes
<1> QED
  BY <1>1, <1>2 DEF Clear, JobTypes

\* A step of another process, or of one that makes no directory, breaks nothing.
LEMMA DirInvKept ==
    ASSUME JobTypes, DirInv, [FilesNext]_dvars, NEW p \in Procs,
           job'[p] = job[p] \/ job'[p].at \notin {"test", "mkdir", "done"}
    PROVE  /\ job'[p].at = "done" /\ job'[p].ret = 0 => dirs'[Depth] # "none"
           /\ job'[p].at = "done" /\ Clear' => dirs'[Depth] = "dir"
           /\ job'[p].at \in {"test", "mkdir"} /\ Clear' =>
                 \A j \in 1 .. Depth : j < job'[p].i => dirs'[j] = "dir"
  BY DirsStay, FilesAssumption DEF DirInv

\* A part of the path that is there or could not be made ends with what it found.
LEMMA DirInvPart ==
    ASSUME JobTypes, DirInv, [FilesNext]_dvars, NEW p \in Procs, NEW r \in {0, -1},
           job[p].at \in {"test", "mkdir"}, NextPart(p, r),
           r = 0 => dirs'[job[p].i] # "none",
           Clear' => dirs'[job[p].i] = "dir"
    PROVE  DirInv'
<1>1. job[p] \in MakingJobs
  BY Making
<1>2. job[p].i \in 1 .. Depth
  BY <1>1 DEF MakingJobs
<1>3. Clear' => \A j \in 1 .. Depth : j < job[p].i => dirs'[j] = "dir"
  BY DirsStay DEF DirInv
<1>4. ASSUME NEW q \in Procs
      PROVE  /\ job'[q].at = "done" /\ job'[q].ret = 0 => dirs'[Depth] # "none"
             /\ job'[q].at = "done" /\ Clear' => dirs'[Depth] = "dir"
             /\ job'[q].at \in {"test", "mkdir"} /\ Clear' =>
                   \A j \in 1 .. Depth : j < job'[q].i => dirs'[j] = "dir"
  <2>1. CASE q # p
    BY <2>1, Parts, DirInvKept
  <2>2. CASE q = p /\ job[p].i = Depth
    BY <1>2, <2>2, Parts
  <2>3. CASE q = p /\ job[p].i # Depth
    <3>1. job'[p].at = "test" /\ job'[p].i = job[p].i + 1
      BY <2>3, Parts
    <3>2. ASSUME Clear', NEW j \in 1 .. Depth, j < job[p].i + 1 PROVE dirs'[j] = "dir"
      <4>1. j < job[p].i \/ j = job[p].i
        BY <1>2, <3>2
      <4> QED
        BY <1>3, <3>2, <4>1
    <3> QED
      BY <2>3, <3>1, <3>2
  <2> QED
    BY <2>1, <2>2, <2>3
<1> QED
  BY <1>4 DEF DirInv

\* No step, of whatever process, breaks DirInv.
LEMMA DirInvStep == JobTypes /\ DirInv /\ [FilesNext]_dvars => DirInv'
<1> SUFFICES ASSUME JobTypes, DirInv, [FilesNext]_dvars PROVE DirInv'
  OBVIOUS
<1>1. ASSUME NEW p \in Procs, MakeDirectory(p) PROVE DirInv'
  <2>1. /\ job'[p] = [at |-> "test", i |-> 1, ret |-> 0]
        /\ \A q \in Procs \ {p} : job'[q] = job[q]
    BY <1>1 DEF MakeDirectory, JobTypes
  <2>2. \A j \in 1 .. Depth : ~ (j < 1)
    BY FilesAssumption
  <2>3. job'[p].at = "test" /\ job'[p].i = 1
    BY <2>1
  <2> QED
    BY <2>1, <2>2, <2>3, DirInvKept DEF DirInv
<1>2. ASSUME NEW p \in Procs, TestPart(p) PROVE DirInv'
  <2>1. CASE dirs[job[p].i] # "none"
    <3>1. job[p] \in MakingJobs
      BY <1>2, Making DEF TestPart
    <3>2. job[p].i \in 1 .. Depth /\ dirs' = dirs /\ NextPart(p, 0) /\ job[p].at = "test"
      BY <1>2, <2>1, <3>1 DEF TestPart, MakingJobs
    <3>3. Clear' => dirs'[job[p].i] = "dir"
      BY <2>1, <3>2 DEF Clear, JobTypes
    <3> QED
      BY <2>1, <3>2, <3>3, DirInvPart
  <2>2. CASE dirs[job[p].i] = "none"
    <3>1. job[p] \in MakingJobs /\ job' = [job EXCEPT ![p].at = "mkdir"]
      BY <1>2, <2>2, Making DEF TestPart
    <3>2. job'[p].at = "mkdir" /\ job'[p].i = job[p].i
      BY <3>1 DEF JobTypes, MakingJobs
    <3>3. \A q \in Procs \ {p} : job'[q] = job[q]
      BY <3>1 DEF JobTypes
    <3>4. dirs' = dirs /\ (Clear' => Clear) /\ job[p].at = "test"
      BY <1>2, DirsStay DEF TestPart
    <3>5. Clear' => \A j \in 1 .. Depth : j < job'[p].i => dirs'[j] = "dir"
      BY <3>2, <3>4 DEF DirInv
    <3> QED
      BY <3>2, <3>3, <3>5, DirInvKept DEF DirInv
  <2> QED
    BY <2>1, <2>2
<1>3. ASSUME NEW p \in Procs, Mkdir(p) PROVE DirInv'
  <2> DEFINE k == job[p].i
             made1 == dirs[k] = "none" /\ HasParent(k) /\ k \notin denied
  <2>1. job[p] \in MakingJobs /\ job[p].at = "mkdir" /\ denied' = denied
    BY <1>3, Making DEF Mkdir
  <2>2. k \in 1 .. Depth
    BY <2>1 DEF MakingJobs
  <2>3. CASE made1
    <3>1. dirs' = [dirs EXCEPT ![k] = "dir"] /\ NextPart(p, 0)
      BY <1>3, <2>3 DEF Mkdir
    <3>2. dirs'[k] = "dir"
      BY <2>2, <3>1 DEF JobTypes
    <3> QED
      BY <2>1, <3>1, <3>2, DirInvPart
  <2>4. CASE ~ made1
    <3>1. dirs' = dirs /\ NextPart(p, -1)
      BY <1>3, <2>2, <2>4 DEF Mkdir, JobTypes
    <3>2. ASSUME Clear' PROVE dirs'[k] = "dir"
      <4>1. Clear /\ denied = {}
        BY <3>2, DirsStay DEF Clear
      <4>2. ASSUME k > 1 PROVE dirs[k - 1] = "dir"
        <5>1. k - 1 \in 1 .. Depth /\ k - 1 < k
          BY <2>2, <4>2, FilesAssumption
        <5> QED
          BY <2>1, <4>1, <5>1 DEF DirInv
      <4>3. dirs[k] # "none"
        BY <2>4, <4>1, <4>2 DEF HasParent
      <4> QED
        BY <2>2, <3>1, <4>1, <4>3 DEF Clear, JobTypes
    <3> QED
      BY <2>1, <3>1, <3>2, DirInvPart
  <2> QED
    BY <2>3, <2>4
<1>4. ASSUME NEW p \in Procs, NEW s \in Stems, UniqueCreate(p, s) PROVE DirInv'
  <2>1. job'[p].at = "unique" /\ \A q \in Procs \ {p} : job'[q] = job[q]
    BY <1>4 DEF UniqueCreate, JobTypes
  <2> QED
    BY <2>1, DirInvKept DEF DirInv
<1>5. ASSUME NEW p \in Procs, unique_name(p) PROVE DirInv'
  <2>1. job'[p].at \in {"number", "open"} /\ \A q \in Procs \ {p} : job'[q] = job[q]
    BY <1>5 DEF unique_name, JobTypes
  <2> QED
    BY <2>1, DirInvKept DEF DirInv
<1>6. ASSUME NEW p \in Procs, unique_name_1(p) PROVE DirInv'
  <2>1. job[p] \in NumberJobs
    BY <1>6 DEF unique_name_1, JobTypes, NotBusy, MakingJobs, NamingJobs, NumberJobs, OpeningJobs
  <2>2. job'[p].at \in {"number", "open"} /\ \A q \in Procs \ {p} : job'[q] = job[q]
    BY <1>6, <2>1 DEF unique_name_1, JobTypes, NumberJobs
  <2> QED
    BY <2>2, DirInvKept DEF DirInv
<1>7. ASSUME NEW p \in Procs, fopen_excl(p) PROVE DirInv'
  <2>1. job[p] \in OpeningJobs
    BY <1>7, Opening DEF fopen_excl
  <2>2. job'[p].at \in {"opened", "unique"} /\ \A q \in Procs \ {p} : job'[q] = job[q]
    BY <1>7, <2>1 DEF fopen_excl, JobTypes, OpeningJobs
  <2> QED
    BY <2>2, DirInvKept DEF DirInv
<1>8. ASSUME (\E i \in 1 .. Depth : SomeoneMakes(i)) \/ (\E s \in Stems : SomeoneWrites(s))
             \/ UNCHANGED dvars
      PROVE  DirInv'
  <2>1. job' = job
    BY <1>8 DEF SomeoneMakes, SomeoneWrites, dvars
  <2> QED
    BY <2>1, DirInvKept DEF DirInv
<1> QED
  BY <1>1, <1>2, <1>3, <1>4, <1>5, <1>6, <1>7, <1>8 DEF FilesNext

\* At first nobody makes or opens anything.
LEMMA FilesInvInit == FilesInit => JobTypes /\ DirInv /\ FileInv
<1> SUFFICES ASSUME FilesInit PROVE JobTypes /\ DirInv /\ FileInv
  OBVIOUS
<1>1. /\ dirs = [i \in 1 .. Depth |-> "none"] /\ names = {}
      /\ made = [n \in {} |-> NotBusy] /\ job = [p \in Procs |-> NotBusy]
  BY DEF FilesInit, FilesStart
<1>2. \A p \in Procs : job[p].at = "idle"
  BY <1>1 DEF NotBusy
<1>3. DOMAIN made = {}
  BY <1>1
<1> QED
  BY <1>1, <1>2, <1>3 DEF JobTypes, DirInv, FileInv

\* make_directory (utils.cpp:550-585) is true to what it returns, whoever else
\* makes directories or files at the same time.
THEOREM Directories == FilesSpec => []DirectoryMade
<1>1. FilesInit => JobTypes /\ DirInv
  BY FilesInvInit
<1>2. JobTypes /\ DirInv /\ [FilesNext]_dvars => (JobTypes /\ DirInv)'
  BY JobTypesStep, DirInvStep
<1>3. JobTypes /\ DirInv => DirectoryMade
  BY DEF DirInv, DirectoryMade, Clear
<1> QED
  BY <1>1, <1>2, <1>3, PTL DEF FilesSpec

-----------------------------------------------------------------------------
\* A file that is there stays whose it is, and a file opened is the caller's.
FileStep ==
    /\ \A n \in names : n \in DOMAIN made' => n \in DOMAIN made /\ made'[n] = made[n]
    /\ \A p \in Procs : job'[p].at = "opened" => made'[job'[p].uname] = p

\* Only fopen_excl opens a file, and only one that nobody has made.
LEMMA FileInvStep == JobTypes /\ FileInv /\ [FilesNext]_dvars => FileInv' /\ FileStep
<1> SUFFICES ASSUME JobTypes, FileInv, [FilesNext]_dvars PROVE FileInv' /\ FileStep
  OBVIOUS
<1>1. ASSUME NEW p \in Procs, fopen_excl(p), job[p].uname \notin names
      PROVE  FileInv' /\ FileStep
  <2> DEFINE n == job[p].uname
  <2>1. job[p] \in OpeningJobs
    BY <1>1, Opening DEF fopen_excl
  <2>2. /\ job' = [job EXCEPT ![p].at = "opened"]
        /\ names' = names \cup {n}
        /\ made' = [x \in DOMAIN made \cup {n} |-> IF x = n THEN p ELSE made[x]]
    BY <1>1 DEF fopen_excl
  <2>3. job'[p].uname = n /\ \A q \in Procs \ {p} : job'[q] = job[q]
    BY <2>1, <2>2 DEF JobTypes, OpeningJobs
  <2>4. DOMAIN made' = DOMAIN made \cup {n} /\ made'[n] = p
        /\ \A x \in DOMAIN made : x # n => made'[x] = made[x]
    BY <2>2
  <2>5. n \notin names
    BY <1>1
  <2>6. \A x \in names : x \in DOMAIN made' => x \in DOMAIN made /\ made'[x] = made[x]
    BY <2>4, <2>5
  <2>7. ASSUME NEW q \in Procs, job'[q].at = "opened"
        PROVE  job'[q].uname \in DOMAIN made' /\ made'[job'[q].uname] = q
    <3>1. CASE q = p
      BY <2>3, <2>4, <3>1
    <3>2. CASE q # p
      BY <2>3, <2>4, <2>5, <2>7, <3>2 DEF FileInv
    <3> QED
      BY <3>1, <3>2
  <2>8. DOMAIN made' \subseteq names'
    BY <2>2, <2>4 DEF FileInv
  <2> QED
    BY <2>6, <2>7, <2>8 DEF FileInv, FileStep
<1>2. ASSUME made' = made, names \subseteq names',
             \A q \in Procs : job'[q] = job[q] \/ job'[q].at # "opened"
      PROVE  FileInv' /\ FileStep
  BY <1>2 DEF FileInv, FileStep
<1>3. ASSUME NEW p \in Procs, job'[p].at # "opened", made' = made, names' = names,
             \A q \in Procs \ {p} : job'[q] = job[q]
      PROVE  FileInv' /\ FileStep
  BY <1>2, <1>3
<1>4. ASSUME NEW p \in Procs, fopen_excl(p), job[p].uname \in names PROVE FileInv' /\ FileStep
  <2>1. job'[p].at # "opened" /\ \A q \in Procs \ {p} : job'[q] = job[q]
    BY <1>4 DEF fopen_excl, JobTypes
  <2> QED
    BY <1>3, <1>4, <2>1 DEF fopen_excl
<1>5. ASSUME NEW p \in Procs, MakeDirectory(p) \/ (\E s \in Stems : UniqueCreate(p, s))
                              \/ unique_name(p)
      PROVE  FileInv' /\ FileStep
  <2>1. job'[p].at # "opened" /\ \A q \in Procs \ {p} : job'[q] = job[q]
    BY <1>5 DEF MakeDirectory, UniqueCreate, unique_name, JobTypes
  <2>2. made' = made /\ names' = names
    BY <1>5 DEF MakeDirectory, UniqueCreate, unique_name
  <2> QED
    BY <1>3, <2>1, <2>2
<1>6. ASSUME NEW p \in Procs, TestPart(p) \/ Mkdir(p) PROVE FileInv' /\ FileStep
  <2>1. job[p].at \in {"test", "mkdir"} /\ made' = made /\ names' = names
    BY <1>6 DEF TestPart, Mkdir
  <2>2. (\E r \in {0, -1} : NextPart(p, r)) \/ job' = [job EXCEPT ![p].at = "mkdir"]
    BY <1>6 DEF TestPart, Mkdir
  <2>3. CASE \E r \in {0, -1} : NextPart(p, r)
    BY <1>3, <2>1, <2>3, Parts
  <2>4. CASE job' = [job EXCEPT ![p].at = "mkdir"]
    <3>1. job[p] \in MakingJobs
      BY <2>1, Making
    <3>2. job'[p].at # "opened" /\ \A q \in Procs \ {p} : job'[q] = job[q]
      BY <2>4, <3>1 DEF JobTypes, MakingJobs
    <3> QED
      BY <1>3, <2>1, <3>2
  <2> QED
    BY <2>2, <2>3, <2>4
<1>7. ASSUME NEW p \in Procs, unique_name_1(p) PROVE FileInv' /\ FileStep
  <2>1. job[p] \in NumberJobs
    BY <1>7 DEF unique_name_1, JobTypes, NotBusy, MakingJobs, NamingJobs, NumberJobs, OpeningJobs
  <2>2. job'[p].at # "opened" /\ \A q \in Procs \ {p} : job'[q] = job[q]
    BY <1>7, <2>1 DEF unique_name_1, JobTypes, NumberJobs
  <2>3. made' = made /\ names' = names
    BY <1>7 DEF unique_name_1
  <2> QED
    BY <1>3, <2>2, <2>3
<1>8. ASSUME (\E i \in 1 .. Depth : SomeoneMakes(i)) \/ (\E s \in Stems : SomeoneWrites(s))
             \/ UNCHANGED dvars
      PROVE  FileInv' /\ FileStep
  <2>1. job' = job /\ made' = made /\ names \subseteq names'
    BY <1>8 DEF SomeoneMakes, SomeoneWrites, dvars
  <2> QED
    BY <1>2, <2>1
<1> QED
  BY <1>1, <1>4, <1>5, <1>6, <1>7, <1>8 DEF FilesNext

\* unique_create (utils.cpp:478-505) opens no file that was there, whoever made it.
THEOREM NewFiles == FilesSpec => NeverOverwrites
<1>1. FilesInit => JobTypes /\ FileInv
  BY FilesInvInit
<1>2. JobTypes /\ FileInv /\ [FilesNext]_dvars => (JobTypes /\ FileInv)' /\ FileStep
  BY JobTypesStep, FileInvStep
<1>3. FilesSpec => [][FileStep]_dvars
  BY <1>1, <1>2, PTL DEF FilesSpec
<1> QED
  BY <1>3, PTL DEF NeverOverwrites, FileStep

-----------------------------------------------------------------------------
(* The windows *)

CallPlaces ==
    {"idle", "insert", "truncate", "lock", "draw", "resize", "lockBar", "drawBar"}
Msgs == {Msg(n) : n \in Nat}
Calls == [at : CallPlaces, bar : Bars \cup {-1}, msg : {None} \cup Msgs, row : Int]

ScreenTypes ==
    /\ window \in [class : {"simple", "progress"}, lines : Lines]
    /\ msgs \in Seq(Msgs)
    /\ barHeight \in Int
    /\ DOMAIN shown = 0 .. window.lines - 1
    /\ call \in [Writers -> Calls]
    /\ calls \in Nat /\ drawn \subseteq Bars
    /\ raced \in BOOLEAN /\ stale \in BOOLEAN

\* A thread that draws a bar or makes room for it has been told which.
Named == \A t \in Writers : call[t].at \in {"resize", "lockBar", "drawBar"} => call[t].bar # -1

\* The list has been changed, or its place has, and it has not been drawn since.
Untrimmed(t) == call[t].at = "truncate" \/ (call[t].at = "insert" /\ call[t].bar # -1)
Undrawn(t) == Untrimmed(t) \/ call[t].at \in {"lock", "draw"}

\* SimpleMWindow has room for every bar that has been drawn or is about to be.
RoomMade ==
    window.class = "simple" =>
        /\ \A r \in drawn : r <= barHeight
        /\ \A t \in Writers : call[t].at \notin {"idle", "resize"} /\ call[t].bar # -1
                                 => call[t].bar <= barHeight

\* While one thread makes room nobody else does, and there is less than it needs.
RoomWanted ==
    \A t \in Writers : call[t].at = "resize" =>
        /\ window.class = "simple" /\ call[t].bar # -1 /\ call[t].bar > barHeight
        /\ \A u \in Writers : call[u].at = "resize" => u = t

BarsDrawn == \A r \in drawn : r + 1 \in DOMAIN shown /\ r <= barHeight => shown[r + 1] = Bar(r)

Trimmed ==
    (\A t \in Writers : ~ Untrimmed(t)) =>
        (MsgHeight(barHeight) >= 0 => Len(msgs) <= MsgHeight(barHeight))

ListDrawn ==
    Fitting /\ (\A t \in Writers : ~ Undrawn(t)) =>
        \A i \in DOMAIN msgs :
            MsgBegin(barHeight) + i - 1 \in DOMAIN shown =>
                shown[MsgBegin(barHeight) + i - 1] = Drawn[i]

\* The inductive invariant of ScreenShows: who has yet to trim the list or to draw it,
\* and who has made room for a bar.
ScreenInv ==
    /\ ScreenTypes /\ Named
    /\ Sound => RoomMade /\ RoomWanted /\ BarsDrawn /\ Trimmed /\ ListDrawn

\* No message is a bar, nor the absence of one.
LEMMA NoMessages ==
    /\ \A n \in Nat : Msg(n) # None
    /\ \A b \in Bars : b \in Nat /\ b # -1
BY ScreenAssumption DEF Msg, None

\* A call is made of its parts.
LEMMA ACall ==
    ASSUME NEW at \in CallPlaces, NEW b \in Bars \cup {-1}, NEW m \in {None} \cup Msgs, NEW row \in Int
    PROVE  [at |-> at, bar |-> b, msg |-> m, row |-> row] \in Calls
BY DEF Calls

\* So is a call that has not begun, and one that is to draw a bar.
LEMMA IdleCall == Idle \in Calls
BY DEF Idle, Calls, CallPlaces

LEMMA BarCall ==
    ASSUME NEW to \in CallPlaces, NEW r \in Bars
    PROVE  [Idle EXCEPT !.at = to, !.bar = r] \in Calls
BY IdleCall DEF Calls

\* The initial screen is empty.
LEMMA InitScreen == ScreenInit => ScreenInv
<1> SUFFICES ASSUME ScreenInit PROVE ScreenInv
  OBVIOUS
<1>1. PICK w \in [class : {"simple", "progress"}, lines : Lines] : ScreenStart(w)
  BY DEF ScreenInit
<1>2. barHeight \in Int
  <2>1. window.lines \in Nat
    BY <1>1, ScreenAssumption DEF ScreenStart
  <2>2. CASE window.class = "simple"
    BY <1>1, <2>1, <2>2 DEF ScreenStart, FirstHeight
  <2>3. CASE window.class # "simple"
    BY <1>1, <2>1, <2>3 DEF ScreenStart, FirstHeight
  <2> QED
    BY <2>2, <2>3
<1>3. ScreenTypes
  <2>1. Idle \in Calls
    BY IdleCall
  <2>2. call \in [Writers -> Calls] /\ msgs \in Seq(Msgs)
    BY <1>1, <2>1 DEF ScreenStart
  <2> QED
    BY <1>1, <1>2, <2>2 DEF ScreenStart, ScreenTypes
<1>4. RoomMade /\ RoomWanted /\ BarsDrawn /\ Trimmed /\ ListDrawn
  BY <1>1 DEF ScreenStart, RoomMade, RoomWanted, BarsDrawn, Trimmed, ListDrawn, Idle
<1>5. Named
  BY <1>1 DEF ScreenStart, Named, Idle
<1> QED
  BY <1>3, <1>4, <1>5 DEF ScreenInv

\* The variables keep their types.
LEMMA StepScreenTypes == ScreenTypes /\ Named /\ [ScreenNext]_wvars => ScreenTypes'
<1> SUFFICES ASSUME ScreenTypes, Named, [ScreenNext]_wvars PROVE ScreenTypes'
  OBVIOUS
<1> USE DEF ScreenTypes
<1>1. ASSUME NEW t \in Writers, Writes(t) PROVE ScreenTypes'
  <2>1. call[t] \in Calls
    OBVIOUS
  <2>2. ASSUME NEW c \in Calls, Does(t, c) PROVE call' \in [Writers -> Calls] /\ raced' \in BOOLEAN
    BY <2>2 DEF Does, Racing
  <2>3. ASSUME NEW to \in CallPlaces, Go(t, to) PROVE call' \in [Writers -> Calls] /\ raced' \in BOOLEAN
    BY <2>1, <2>2, <2>3 DEF Go, Calls
  <2>4. CASE SayBegins(t)
    <3>1. [at |-> "insert", bar |-> -1, msg |-> Msg(calls'), row |-> MsgBegin(barHeight)] \in Calls
      <4>1. calls' \in Nat /\ MsgBegin(barHeight) \in Int
        BY <2>4 DEF SayBegins, MsgBegin
      <4>2. PICK m, row : m = Msg(calls') /\ row = MsgBegin(barHeight)
        OBVIOUS
      <4>3. m \in Msgs /\ row \in Int
        BY <4>1, <4>2 DEF Msgs
      <4> QED
        BY <4>2, <4>3, ACall DEF CallPlaces
    <3> QED
      BY <2>2, <2>4, <3>1 DEF SayBegins
  <2>5. CASE Insert(t)
    <3>1. msgs' \in Seq(Msgs)
      <4>1. CASE call[t].msg = None
        BY <2>5, <4>1 DEF Insert
      <4>2. CASE call[t].msg # None
        <5>1. call[t].msg \in Msgs
          BY <2>1, <4>2 DEF Calls
        <5>2. msgs' = <<call[t].msg>> \o msgs
          BY <2>5, <4>2 DEF Insert
        <5>3. PICK m \in Msgs : m = call[t].msg
          BY <5>1
        <5> QED
          BY <5>2, <5>3
      <4> QED
        BY <4>1, <4>2
    <3> QED
      BY <2>3, <2>5, <3>1 DEF Insert, CallPlaces
  <2>6. CASE Truncate(t)
    <3>1. msgs' \in Seq(Msgs)
      <4>1. PICK h : h = MsgHeight(barHeight)
        OBVIOUS
      <4>2. h \in Int
        BY <4>1, ScreenAssumption DEF MsgHeight
      <4>3. msgs' = msgs \/ (h >= 0 /\ Len(msgs) > h /\ msgs' = SubSeq(msgs, 1, h))
        BY <2>6, <4>1 DEF Truncate
      <4> QED
        BY <4>2, <4>3
    <3> QED
      BY <2>3, <2>6, <3>1 DEF Truncate, CallPlaces
  <2>7. CASE Lock(t)
    BY <2>3, <2>7 DEF Lock, CallPlaces
  <2>8. CASE Draw(t)
    <3>2. stale' \in BOOLEAN /\ DOMAIN shown' = DOMAIN shown /\ UNCHANGED <<window, msgs, barHeight, calls, drawn>>
      BY <2>8 DEF Draw
    <3>3. Go(t, "lockBar") \/ Does(t, Idle)
      BY <2>8 DEF Draw
    <3> QED
      BY <2>2, <2>3, <3>2, <3>3, IdleCall DEF CallPlaces
  <2>9. ASSUME NEW r \in Bars, UpdateBegins(t, r) PROVE ScreenTypes'
    <3>1. PICK to \in {"resize", "lockBar"} : Does(t, [Idle EXCEPT !.at = to, !.bar = r])
      BY <2>9 DEF UpdateBegins
    <3>2. [Idle EXCEPT !.at = to, !.bar = r] \in Calls
      BY BarCall DEF CallPlaces
    <3> QED
      BY <2>2, <2>9, <3>1, <3>2 DEF UpdateBegins
  <2>10. CASE Resize(t)
    <3>1. barHeight' \in Int
      BY <2>1, <2>10, ScreenAssumption DEF Resize, Calls
    <3>2. PICK row, c : row = MsgBegin(barHeight') /\ c = [call[t] EXCEPT !.at = "insert", !.row = row]
      OBVIOUS
    <3>3. c \in Calls
      <4>1. row \in Int
        BY <3>1, <3>2 DEF MsgBegin
      <4>2. "insert" \in CallPlaces
        BY DEF CallPlaces
      <4> QED
        BY <2>1, <3>2, <4>1, <4>2 DEF Calls
    <3>4. Does(t, c)
      BY <2>10, <3>2 DEF Resize
    <3> QED
      BY <2>2, <2>10, <3>1, <3>3, <3>4 DEF Resize
  <2>11. CASE DrawBar(t)
    <3>1. call[t].bar \in Bars
      BY <2>1, <2>11 DEF DrawBar, Named, Calls
    <3>2. DOMAIN shown' = DOMAIN shown /\ UNCHANGED <<window, msgs, barHeight, calls, stale>>
      BY <2>11 DEF DrawBar
    <3> QED
      BY <2>2, <2>11, <3>1, <3>2, IdleCall DEF DrawBar
  <2> QED
    BY <1>1, <2>4, <2>5, <2>6, <2>7, <2>8, <2>9, <2>10, <2>11 DEF Writes
<1>2. CASE UNCHANGED wvars
  BY <1>2 DEF wvars
<1> QED
  BY <1>1, <1>2 DEF ScreenNext

\* A step of one thread leaves the calls of the others alone.
LEMMA OthersCall ==
    ASSUME ScreenTypes, NEW t \in Writers, Writes(t), NEW u \in Writers \ {t}
    PROVE  call'[u] = call[u]
BY DEF Writes, SayBegins, Insert, Truncate, Lock, Draw, UpdateBegins, Resize, DrawBar, Does, Go,
       ScreenTypes

\* What a thread is doing: its bar is a number.
LEMMA CallIs ==
    ASSUME ScreenTypes, NEW t \in Writers
    PROVE  /\ call[t] \in Calls /\ call[t].bar \in Int /\ call[t].bar \in Bars \cup {-1}
           /\ call[t].bar >= 0 <=> call[t].bar # -1
<1>1. call[t] \in Calls
  BY DEF ScreenTypes
<1>2. call[t].bar \in Bars \cup {-1}
  BY <1>1 DEF Calls
<1>3. \A b \in Bars \cup {-1} : b \in Int /\ (b >= 0 <=> b # -1)
  BY ScreenAssumption
<1> QED
  BY <1>1, <1>2, <1>3

\* Where a step takes a thread, and with which bar.
LEMMA CallGoes ==
    ASSUME ScreenTypes, NEW t \in Writers, Writes(t)
    PROVE  /\ SayBegins(t) => call'[t].at = "insert" /\ call'[t].bar = -1
           /\ Insert(t) => call'[t].at = "truncate" /\ call'[t].bar = call[t].bar
           /\ Truncate(t) => call'[t].at = "lock" /\ call'[t].bar = call[t].bar
           /\ Lock(t) => /\ \/ call[t].at = "lock" /\ call'[t].at = "draw"
                            \/ call[t].at = "lockBar" /\ call'[t].at = "drawBar"
                         /\ call'[t].bar = call[t].bar
           /\ Draw(t) => \/ call[t].bar # -1 /\ call'[t].at = "lockBar" /\ call'[t].bar = call[t].bar
                         \/ call'[t].at = "idle"
           /\ \A r \in Bars : UpdateBegins(t, r) =>
                  call'[t].at \in {"resize", "lockBar"} /\ call'[t].bar = r
                  /\ (call'[t].at = "resize" <=> window.class = "simple" /\ r > barHeight)
           /\ Resize(t) => call'[t].at = "insert" /\ call'[t].bar = call[t].bar
           /\ DrawBar(t) => call'[t].at = "idle"
<1>0. call \in [Writers -> Calls]
  BY DEF ScreenTypes
<1>a. ASSUME NEW to, Go(t, to) PROVE call'[t].at = to /\ call'[t].bar = call[t].bar
  BY <1>0, <1>a DEF Go, Does, Calls
<1>1. SayBegins(t) => call'[t].at = "insert" /\ call'[t].bar = -1
  BY <1>0 DEF SayBegins, Does
<1>2. /\ Insert(t) => call'[t].at = "truncate" /\ call'[t].bar = call[t].bar
      /\ Truncate(t) => call'[t].at = "lock" /\ call'[t].bar = call[t].bar
  BY <1>a DEF Insert, Truncate
<1>3. ASSUME Lock(t)
      PROVE  /\ \/ call[t].at = "lock" /\ call'[t].at = "draw"
                \/ call[t].at = "lockBar" /\ call'[t].at = "drawBar"
             /\ call'[t].bar = call[t].bar
  <2>1. CASE call[t].at = "lock"
    BY <1>3, <1>a, <2>1 DEF Lock
  <2>2. CASE call[t].at = "lockBar"
    BY <1>3, <1>a, <2>2 DEF Lock
  <2> QED
    BY <1>3, <2>1, <2>2 DEF Lock
<1>4. ASSUME Draw(t)
      PROVE  \/ call[t].bar # -1 /\ call'[t].at = "lockBar" /\ call'[t].bar = call[t].bar
             \/ call'[t].at = "idle"
  <2>1. CASE call[t].bar >= 0
    BY <1>4, <1>a, <2>1, CallIs DEF Draw
  <2>2. CASE ~ call[t].bar >= 0
    BY <1>0, <1>4, <2>2 DEF Draw, Does, Idle
  <2> QED
    BY <2>1, <2>2
<1>5. ASSUME NEW r \in Bars, UpdateBegins(t, r)
      PROVE  call'[t].at \in {"resize", "lockBar"} /\ call'[t].bar = r
             /\ (call'[t].at = "resize" <=> window.class = "simple" /\ r > barHeight)
  BY <1>0, <1>5 DEF UpdateBegins, Does, Idle
<1>6. Resize(t) => call'[t].at = "insert" /\ call'[t].bar = call[t].bar
  BY <1>0 DEF Resize, Does, Calls
<1>7. DrawBar(t) => call'[t].at = "idle"
  BY <1>0 DEF DrawBar, Does, Idle
<1> QED
  BY <1>1, <1>2, <1>3, <1>4, <1>5, <1>6, <1>7

\* Threads know which bar they draw.
LEMMA StepNamed == ASSUME ScreenTypes, Named, NEW t \in Writers, Writes(t) PROVE Named'
<1>1. ASSUME NEW u \in Writers \ {t}, call'[u].at \in {"resize", "lockBar", "drawBar"}
      PROVE  call'[u].bar # -1
  BY <1>1, OthersCall DEF Named
<1>2. ASSUME call'[t].at \in {"resize", "lockBar", "drawBar"} PROVE call'[t].bar # -1
  <2>1. CASE SayBegins(t) \/ Insert(t) \/ Truncate(t) \/ Resize(t) \/ DrawBar(t)
    BY <1>2, <2>1, CallGoes
  <2>2. CASE Lock(t)
    BY <1>2, <2>2, CallGoes DEF Named
  <2>3. CASE Draw(t)
    BY <1>2, <2>3, CallGoes
  <2>4. ASSUME NEW r \in Bars, UpdateBegins(t, r) PROVE call'[t].bar # -1
    BY <2>4, CallGoes, NoMessages
  <2> QED
    BY <2>1, <2>2, <2>3, <2>4 DEF Writes
<1> QED
  BY <1>1, <1>2 DEF Named

\* What a step does to the window, the height and the bars that have been drawn.
LEMMA HeightGoes ==
    ASSUME ScreenTypes, NEW t \in Writers, Writes(t)
    PROVE  /\ window' = window
           /\ barHeight' = barHeight \/ (Resize(t) /\ call[t].at = "resize" /\ barHeight' = call[t].bar + 1)
           /\ drawn' = drawn \/ (DrawBar(t) /\ call[t].at = "drawBar" /\ drawn' = drawn \cup {call[t].bar})
           /\ ~ raced' => ~ raced /\ ~ Racing(call')
           /\ ~ stale' => ~ stale
BY DEF Writes, SayBegins, Insert, Truncate, Lock, Draw, UpdateBegins, Resize, DrawBar, Does, Go,
       ScreenTypes

\* Room is made by one thread at a time, until two race for it.
LEMMA StepRoom ==
    ASSUME ScreenTypes, Named, RoomMade, RoomWanted, NEW t \in Writers, Writes(t), ~ raced'
    PROVE  RoomMade' /\ RoomWanted'
<1>0. /\ call \in [Writers -> Calls] /\ barHeight \in Int /\ drawn \subseteq Bars /\ Bars \subseteq Nat
      /\ call[t].bar \in Int /\ window' = window
  BY HeightGoes, CallIs, ScreenAssumption DEF ScreenTypes
<1>1. \A u, v \in Writers : call'[u].at = "resize" /\ call'[v].at = "resize" => u = v
  BY HeightGoes DEF Racing
<1>2. barHeight' >= barHeight /\ barHeight' \in Int
  <2>1. call[t].at = "resize" => call[t].bar > barHeight
    BY DEF RoomWanted
  <2> QED
    BY <1>0, <2>1, HeightGoes
<1>3. RoomWanted'
  <2>1. ASSUME NEW u \in Writers \ {t}, call'[u].at = "resize"
        PROVE  window.class = "simple" /\ call'[u].bar # -1 /\ call'[u].bar > barHeight'
    <3>1. call[u].at = "resize" /\ call'[u] = call[u]
      BY <2>1, OthersCall
    <3>2. call[t].at # "resize"
      BY <3>1 DEF RoomWanted
    <3> QED
      BY <3>1, <3>2, HeightGoes DEF RoomWanted
  <2>2. ASSUME call'[t].at = "resize"
        PROVE  window.class = "simple" /\ call'[t].bar # -1 /\ call'[t].bar > barHeight'
    <3>1. PICK r \in Bars : UpdateBegins(t, r)
      BY <2>2, CallGoes DEF Writes
    <3>2. call[t].at = "idle"
      BY <3>1 DEF UpdateBegins
    <3> QED
      BY <2>2, <3>1, <3>2, CallGoes, HeightGoes, NoMessages
  <2> QED
    BY <1>0, <1>1, <2>1, <2>2 DEF RoomWanted
<1>4. RoomMade'
  <2> SUFFICES ASSUME window.class = "simple"
               PROVE  /\ \A r \in drawn' : r <= barHeight'
                      /\ \A u \in Writers : call'[u].at \notin {"idle", "resize"} /\ call'[u].bar # -1
                                               => call'[u].bar <= barHeight'
    BY <1>0 DEF RoomMade
  <2>1. \A r \in drawn' : r <= barHeight'
    <3>1. \A r \in drawn : r <= barHeight'
      BY <1>0, <1>2 DEF RoomMade
    <3>2. call[t].at = "drawBar" => call[t].bar <= barHeight'
      BY <1>0, <1>2 DEF RoomMade, Named
    <3> QED
      BY <3>1, <3>2, HeightGoes
  <2>2. ASSUME NEW u \in Writers \ {t}, call'[u].at \notin {"idle", "resize"}, call'[u].bar # -1
        PROVE  call'[u].bar <= barHeight'
    <3>1. call'[u] = call[u] /\ call[u].bar \in Int
      BY CallIs, OthersCall
    <3> QED
      BY <1>0, <1>2, <2>2, <3>1 DEF RoomMade
  <2>3. ASSUME call'[t].at \notin {"idle", "resize"}, call'[t].bar # -1
        PROVE  call'[t].bar <= barHeight'
    <3>1. CASE SayBegins(t) \/ DrawBar(t)
      BY <2>3, <3>1, CallGoes
    <3>2. CASE Insert(t) \/ Truncate(t) \/ Lock(t) \/ Draw(t)
      <4>1. call[t].at \notin {"idle", "resize"}
        BY <3>2 DEF Insert, Truncate, Lock, Draw
      <4>2. call'[t].bar = call[t].bar
        BY <2>3, <3>2, CallGoes
      <4> QED
        BY <1>0, <1>2, <2>3, <4>1, <4>2 DEF RoomMade
    <3>3. ASSUME NEW r \in Bars, UpdateBegins(t, r) PROVE call'[t].bar <= barHeight'
      <4>1. call'[t].bar = r /\ ~ r > barHeight
        BY <2>3, <3>3, CallGoes
      <4> QED
        BY <1>0, <1>2, <4>1
    <3>4. CASE Resize(t)
      <4>1. barHeight' = call[t].bar + 1
        BY <3>4 DEF Resize
      <4>2. call'[t].bar = call[t].bar
        BY <3>4, CallGoes
      <4> QED
        BY <1>0, <4>1, <4>2
    <3> QED
      BY <3>1, <3>2, <3>3, <3>4 DEF Writes
  <2> QED
    BY <2>1, <2>2, <2>3
<1> QED
  BY <1>3, <1>4

\* The rows that change: those of the list, from where its thread found it, or one bar's.
LEMMA RowsGo ==
    ASSUME ScreenTypes, NEW t \in Writers, Writes(t)
    PROVE  /\ shown' = shown \/ Draw(t) \/ DrawBar(t)
           /\ DOMAIN shown' = DOMAIN shown
           /\ \A r \in DOMAIN shown : r \in Int
           /\ Draw(t) /\ ~ stale' =>
                 /\ UNCHANGED <<msgs, barHeight, drawn, window>>
                 /\ shown' = [r \in DOMAIN shown |->
                       IF r - MsgBegin(barHeight) + 1 \in DOMAIN msgs
                       THEN Drawn[r - MsgBegin(barHeight) + 1] ELSE shown[r]]
           /\ DrawBar(t) =>
                 /\ UNCHANGED <<msgs, barHeight, window>> /\ drawn' = drawn \cup {call[t].bar}
                 /\ shown' = [r \in DOMAIN shown |->
                       IF r = call[t].bar + 1 THEN Bar(call[t].bar) ELSE shown[r]]
<1>1. shown' = shown \/ Draw(t) \/ DrawBar(t)
  BY DEF Writes, SayBegins, Insert, Truncate, Lock, UpdateBegins, Resize
<1>2. DOMAIN shown' = DOMAIN shown
  BY <1>1 DEF Draw, DrawBar
<1>3. \A r \in DOMAIN shown : r \in Int
  BY DEF ScreenTypes
<1>4. ASSUME Draw(t), ~ stale'
      PROVE  /\ UNCHANGED <<msgs, barHeight, drawn, window>>
             /\ shown' = [r \in DOMAIN shown |->
                   IF r - MsgBegin(barHeight) + 1 \in DOMAIN msgs
                   THEN Drawn[r - MsgBegin(barHeight) + 1] ELSE shown[r]]
  <2>1. call[t].row = MsgBegin(barHeight)
    BY <1>4 DEF Draw
  <2> QED
    BY <1>4, <2>1 DEF Draw
<1>5. DrawBar(t) =>
         /\ UNCHANGED <<msgs, barHeight, window>> /\ drawn' = drawn \cup {call[t].bar}
         /\ shown' = [r \in DOMAIN shown |->
               IF r = call[t].bar + 1 THEN Bar(call[t].bar) ELSE shown[r]]
  BY DEF DrawBar
<1> QED
  BY <1>1, <1>2, <1>3, <1>4, <1>5

\* No list is drawn over a bar, and no bar over another.
LEMMA StepBars ==
    ASSUME ScreenTypes, RoomMade, RoomWanted, BarsDrawn, NEW t \in Writers, Writes(t), ~ stale'
    PROVE  BarsDrawn'
<1> SUFFICES ASSUME NEW r \in drawn', r + 1 \in DOMAIN shown', r <= barHeight'
             PROVE  shown'[r + 1] = Bar(r)
  BY DEF BarsDrawn
<1>0. /\ barHeight \in Int /\ msgs \in Seq(Msgs) /\ call[t].bar \in Int /\ DOMAIN shown' = DOMAIN shown
      /\ \A q \in drawn : q \in Int
  BY RowsGo, CallIs, ScreenAssumption DEF ScreenTypes
<1>1. CASE Draw(t)
  <2>1. r \in drawn /\ r \in Int /\ r <= barHeight
    BY <1>0, <1>1, RowsGo
  <2>2. shown[r + 1] = Bar(r)
    BY <1>0, <2>1 DEF BarsDrawn
  <2>3. (r + 1) - MsgBegin(barHeight) + 1 \notin DOMAIN msgs
    BY <1>0, <2>1 DEF MsgBegin
  <2> QED
    BY <1>0, <1>1, <2>2, <2>3, RowsGo
<1>2. CASE DrawBar(t)
  <2>1. CASE r = call[t].bar
    BY <1>0, <1>2, <2>1, RowsGo
  <2>2. CASE r # call[t].bar
    <3>1. r \in drawn /\ r \in Int /\ r <= barHeight
      BY <1>0, <1>2, <2>2, RowsGo
    <3>2. shown[r + 1] = Bar(r) /\ r + 1 # call[t].bar + 1
      BY <1>0, <2>2, <3>1 DEF BarsDrawn
    <3> QED
      BY <1>0, <1>2, <3>2, RowsGo
  <2> QED
    BY <2>1, <2>2
<1>3. CASE ~ Draw(t) /\ ~ DrawBar(t)
  <2>1. shown' = shown /\ drawn' = drawn
    BY <1>3, RowsGo, HeightGoes
  <2>2. r <= barHeight
    <3>1. CASE barHeight' = barHeight
      BY <3>1
    <3>2. CASE barHeight' # barHeight
      BY <2>1, <3>2, HeightGoes DEF RoomWanted, RoomMade
    <3> QED
      BY <3>1, <3>2
  <2> QED
    BY <2>1, <2>2 DEF BarsDrawn
<1> QED
  BY <1>1, <1>2, <1>3

\* Who has changed the list, or its place, trims it.
LEMMA StepTrimmed ==
    ASSUME ScreenTypes, Named, Trimmed, RoomWanted, NEW t \in Writers, Writes(t)
    PROVE  Trimmed'
<1> SUFFICES ASSUME \A u \in Writers : ~ Untrimmed(u)', MsgHeight(barHeight)' >= 0
             PROVE  Len(msgs') <= MsgHeight(barHeight)'
  BY DEF Trimmed
<1>0. \A u \in Writers \ {t} : ~ Untrimmed(u)
  BY OthersCall DEF Untrimmed
<1>1. CASE Insert(t)
  BY <1>1, CallGoes DEF Untrimmed
<1>2. CASE Resize(t)
  <2>1. call[t].bar # -1
    BY <1>2 DEF Resize, Named
  <2> QED
    BY <1>2, <2>1, CallGoes DEF Untrimmed
<1>3. CASE Truncate(t)
  <2>1. window' = window /\ barHeight' = barHeight
    BY <1>3 DEF Truncate
  <2>2. PICK h : h = MsgHeight(barHeight)
    OBVIOUS
  <2>3. h \in Int /\ h >= 0 /\ MsgHeight(barHeight)' = h
    <3>1. window.lines \in Int /\ barHeight \in Int
      <4>1. window.lines \in Lines /\ barHeight \in Int
        BY DEF ScreenTypes
      <4>2. \A n \in Lines : n \in Int
        BY ScreenAssumption
      <4> QED
        BY <4>1, <4>2
    <3> QED
      BY <2>1, <2>2, <3>1 DEF MsgHeight
  <2>4. msgs' = IF h >= 0 /\ Len(msgs) > h THEN SubSeq(msgs, 1, h) ELSE msgs
    BY <1>3, <2>2 DEF Truncate
  <2>5. msgs \in Seq(Msgs)
    BY DEF ScreenTypes
  <2> QED
    BY <2>3, <2>4, <2>5
<1>4. CASE ~ Insert(t) /\ ~ Resize(t) /\ ~ Truncate(t)
  <2>1. msgs' = msgs /\ UNCHANGED <<window, barHeight>>
    BY <1>4 DEF Writes, SayBegins, Lock, Draw, UpdateBegins, DrawBar
  <2>2. ~ Untrimmed(t)
    BY <1>4 DEF Untrimmed, Writes, SayBegins, Lock, Draw, UpdateBegins, DrawBar
  <2> QED
    BY <1>0, <2>1, <2>2 DEF Trimmed, MsgHeight
<1> QED
  BY <1>1, <1>2, <1>3, <1>4

\* Who has changed the list, or its place, draws it; and no bar that fits is drawn over it.
LEMMA StepListed ==
    ASSUME ScreenTypes, Named, ListDrawn, RoomWanted, RoomMade', NEW t \in Writers, Writes(t), ~ stale'
    PROVE  ListDrawn'
<1> SUFFICES ASSUME Fitting', \A u \in Writers : ~ Undrawn(u)', NEW i \in DOMAIN msgs',
                    MsgBegin(barHeight)' + i - 1 \in DOMAIN shown'
             PROVE  shown'[MsgBegin(barHeight)' + i - 1] = Drawn'[i]
  BY DEF ListDrawn
<1>0. /\ barHeight \in Int /\ msgs \in Seq(Msgs) /\ call[t].bar \in Int /\ DOMAIN shown' = DOMAIN shown
      /\ \A q \in drawn : q \in Int
  BY RowsGo, CallIs, ScreenAssumption DEF ScreenTypes
<1>1. CASE Draw(t)
  <2>1. /\ UNCHANGED <<msgs, barHeight, window>> /\ i \in DOMAIN msgs /\ i \in Int
        /\ MsgBegin(barHeight)' = MsgBegin(barHeight) /\ Drawn' = Drawn
    BY <1>0, <1>1, RowsGo DEF MsgBegin, Drawn
  <2>2. PICK b : b = MsgBegin(barHeight)
    OBVIOUS
  <2>3. b \in Int
    BY <1>0, <2>2 DEF MsgBegin
  <2>4. (b + i - 1) - b + 1 = i
    BY <2>1, <2>3
  <2>5. shown'[b + i - 1] = Drawn[i]
    BY <1>0, <1>1, <2>1, <2>2, <2>4, RowsGo
  <2> QED
    BY <2>1, <2>2, <2>5
<1>2. CASE ~ Draw(t)
  <2>1. ~ Undrawn(t)
    <3>1. CASE Insert(t) \/ Truncate(t)
      BY <3>1, CallGoes DEF Undrawn, Untrimmed
    <3>2. CASE Lock(t)
      BY <3>2, CallGoes DEF Undrawn, Untrimmed
    <3>3. CASE SayBegins(t) \/ Resize(t) \/ DrawBar(t)
      BY <3>3 DEF SayBegins, Resize, DrawBar, Undrawn, Untrimmed
    <3>4. ASSUME NEW r \in Bars, UpdateBegins(t, r) PROVE ~ Undrawn(t)
      BY <3>4 DEF UpdateBegins, Undrawn, Untrimmed
    <3> QED
      BY <1>2, <3>1, <3>2, <3>3, <3>4 DEF Writes
  <2>2. ~ Insert(t) /\ ~ Truncate(t) /\ ~ Resize(t)
    <3>1. ~ Insert(t) /\ ~ Truncate(t)
      BY CallGoes DEF Undrawn, Untrimmed
    <3>2. CASE Resize(t)
      <4>1. call[t].bar # -1
        BY <3>2 DEF Resize, Named
      <4> QED
        BY <3>2, <4>1, CallGoes DEF Undrawn, Untrimmed
    <3> QED
      BY <3>1, <3>2
  <2>3. \A u \in Writers : ~ Undrawn(u)
    <3>1. ASSUME NEW u \in Writers \ {t} PROVE ~ Undrawn(u)
      BY OthersCall DEF Undrawn, Untrimmed
    <3> QED
      BY <2>1, <3>1
  <2>4. UNCHANGED <<msgs, barHeight, window>>
    BY <1>2, <2>2 DEF Writes, SayBegins, Lock, UpdateBegins, DrawBar
  <2>5. i \in DOMAIN msgs /\ i \in Int /\ i >= 1 /\ MsgBegin(barHeight)' = MsgBegin(barHeight) /\ Drawn' = Drawn
    BY <1>0, <2>4 DEF MsgBegin, Drawn
  <2>6. Fitting
    BY <2>4, HeightGoes DEF Fitting
  <2>7. shown[MsgBegin(barHeight) + i - 1] = Drawn[i]
    BY <1>0, <2>3, <2>5, <2>6 DEF ListDrawn
  <2>8. CASE DrawBar(t)
    <3>1. call[t].bar \in drawn' /\ barHeight' = barHeight
      BY <2>8, RowsGo
    <3>2. call[t].bar <= barHeight
      BY <3>1 DEF Fitting, RoomMade
    <3>3. MsgBegin(barHeight) + i - 1 # call[t].bar + 1
      BY <1>0, <2>5, <3>2 DEF MsgBegin
    <3> QED
      BY <1>0, <2>5, <2>7, <2>8, <3>3, RowsGo
  <2>9. CASE ~ DrawBar(t)
    BY <1>2, <2>5, <2>7, <2>9, RowsGo
  <2> QED
    BY <2>8, <2>9
<1> QED
  BY <1>1, <1>2

\* Every step keeps the screen's invariant.
LEMMA StepScreen == ScreenInv /\ [ScreenNext]_wvars => ScreenInv'
<1> SUFFICES ASSUME ScreenInv, [ScreenNext]_wvars PROVE ScreenInv'
  OBVIOUS
<1>1. ScreenTypes /\ Named
  BY DEF ScreenInv
<1>2. ScreenTypes'
  BY <1>1, StepScreenTypes
<1>3. CASE UNCHANGED wvars
  BY <1>1, <1>2, <1>3
  DEF wvars, ScreenInv, Named, Sound, RoomMade, RoomWanted, BarsDrawn, Trimmed, ListDrawn, Fitting,
      Untrimmed, Undrawn, MsgBegin, MsgHeight, Drawn
<1>4. ASSUME NEW t \in Writers, Writes(t) PROVE ScreenInv'
  <2>1. Named'
    BY <1>1, <1>4, StepNamed
  <2>2. ASSUME Sound' PROVE RoomMade' /\ RoomWanted' /\ BarsDrawn' /\ Trimmed' /\ ListDrawn'
    <3>1. Sound /\ ~ raced' /\ ~ stale'
      BY <1>1, <1>4, <2>2, HeightGoes DEF Sound
    <3>2. RoomMade /\ RoomWanted /\ BarsDrawn /\ Trimmed /\ ListDrawn
      BY <3>1 DEF ScreenInv
    <3>3. RoomMade' /\ RoomWanted'
      BY <1>1, <1>4, <3>1, <3>2, StepRoom
    <3> QED
      BY <1>1, <1>4, <3>1, <3>2, <3>3, StepBars, StepTrimmed, StepListed
  <2> QED
    BY <1>2, <2>1, <2>2 DEF ScreenInv
<1> QED
  BY <1>3, <1>4 DEF ScreenNext

\* Whatever the number of threads, of bars and of rows, and however the calls interleave:
\* until two threads race for the list or one draws where it no longer belongs, no
\* message is drawn over a bar that fits, no bar over a message, and between calls the
\* screen is the list, trimmed (mwui.cpp:400-459, progress.cpp:1214-1262).
THEOREM RowsKept == ScreenSpec => []ScreenShows
<1>1. ScreenInv => ScreenShows
  <2> SUFFICES ASSUME ScreenInv PROVE ScreenShows
    OBVIOUS
  <2>1. BarsStay
    BY DEF ScreenInv, BarsStay, Sound, BarsDrawn, RoomMade, ScreenTypes
  <2>2. ListShown
    <3> SUFFICES ASSUME Sound, Fitting, \A t \in Writers : call[t].at = "idle"
                 PROVE  /\ MsgHeight(barHeight) >= 0 => Len(msgs) <= MsgHeight(barHeight)
                        /\ \A i \in DOMAIN msgs :
                              MsgBegin(barHeight) + i - 1 \in DOMAIN shown =>
                                  shown[MsgBegin(barHeight) + i - 1] = Drawn[i]
      BY DEF ListShown
    <3>1. \A t \in Writers : ~ Untrimmed(t) /\ ~ Undrawn(t)
      BY DEF Untrimmed, Undrawn
    <3> QED
      BY <3>1 DEF ScreenInv, Trimmed, ListDrawn
  <2> QED
    BY <2>1, <2>2 DEF ScreenShows
<1> QED
  BY <1>1, InitScreen, StepScreen, PTL DEF ScreenSpec

-----------------------------------------------------------------------------
(* Progress *)

Histories ==
    [times : [0 .. Ring - 1 -> Int], bytes : [0 .. Ring - 1 -> Int], pos : 0 .. Ring - 1,
     time : Int, sum : Int]

BarGauges ==
    [kind : {"bar"}, initial : Nat, total : Nat, count : Nat, shown : Int, width : Int, buffer : Int,
     tick : Nat, hist : Histories, start : Int, recent : Int, stalled : BOOLEAN, etatime : Int, eta : Int]

\* A total that is known is not below what there is of it.
BarOk(bp) ==
    /\ bp \in BarGauges
    /\ bp.total = 0 \/ bp.initial + bp.count <= bp.total
    /\ bp.buffer = bp.width + 1 /\ bp.width >= 44

\* The place in the ring of the k-th sample back from at.
RingBack(at, k) == IF k <= at THEN at - k ELSE at - k + Ring

\* A ring holds the differences of the running totals s, and their sum.
Window(ring, at, sum, s, c) ==
    /\ \A k \in 1 .. Ring :
          ring[RingBack(at, k)] =
              IF k <= Len(s) THEN SoFar(s, c, Len(s) - k + 1) - SoFar(s, c, Len(s) - k) ELSE 0
    /\ sum = SoFar(s, c, Len(s)) - SoFar(s, c, IF Len(s) > Ring THEN Len(s) - Ring ELSE 0)

RingOk(hist, s) ==
    Window(hist.times, hist.pos, hist.time, s, 1) /\ Window(hist.bytes, hist.pos, hist.sum, s, 2)

ImageOk(im) ==
    /\ im.percentage <= 100
    /\ im.insz <= im.dlsz /\ im.dlsz <= im.room
    /\ im.room > 0 => im.star \in 1 .. im.room - 1
    /\ im.legible <= 15 => im.length <= im.width
    /\ im.left = 0 => im.eta \in {-1, 0}

DotGauges == [kind : {"dot"}, initial : Nat, total : Nat, accumulated : Nat, dots : Nat, rows : Nat]

\* The dots account for what there is, rows by rows.
DotOk(dp, bytes) ==
    LET skipped == dp.initial \div RowBytes
    IN  /\ dp \in DotGauges
        /\ skipped <= dp.rows
        /\ dp.initial + bytes = skipped * RowBytes + (dp.rows - skipped) * (DotsInLine * DotBytes)
                                + dp.dots * DotBytes + dp.accumulated

Totals == Int \X Int

GaugeInv ==
    /\ screen = 0 \/ (screen \in Nat /\ screen >= 45)
    /\ got \in Nat /\ now \in Int /\ samples \in Seq(Totals)
    /\ gauge = NoGauge => got = 0 /\ samples = <<>>
    /\ gauge \in {NoGauge, [kind |-> "undefined"]} \cup BarGauges \cup DotGauges
    /\ gauge.kind = "bar" => BarOk(gauge) /\ RingOk(gauge.hist, samples)
    /\ gauge.kind = "dot" => DotOk(gauge, got)
    /\ image # NoImage => ImageOk(image)

\* Quotient and remainder.
LEMMA Division ==
    ASSUME NEW x \in Nat, NEW d \in Nat \ {0}
    PROVE  /\ x \div d \in Nat /\ x % d \in 0 .. d - 1 /\ x % d \in Nat
           /\ x = (x \div d) * d + (x % d)
  OBVIOUS

\* A share of a whole is at most the whole's.
LEMMA Shares ==
    ASSUME NEW a \in Nat, NEW b \in Nat, a <= b, NEW d \in Nat \ {0}, NEW n \in Nat
    PROVE  /\ (n * a) \div d \in Int /\ (n * b) \div d \in Int
           /\ (n * a) \div d <= (n * b) \div d
           /\ b <= d => (n * b) \div d <= n
<1>1. n * a \in Nat /\ n * b \in Nat /\ n * a <= n * b
  OBVIOUS
<1>2. ASSUME NEW x \in Nat, NEW y \in Nat, x <= y PROVE x \div d <= y \div d
  <2>1. PICK q \in Nat, r \in 0 .. d - 1 : q = x \div d /\ x = q * d + r
    BY Division
  <2>2. PICK p \in Nat, s \in 0 .. d - 1 : p = y \div d /\ y = p * d + s
    BY Division
  <2>3. ~ q > p
    <3> SUFFICES ASSUME q > p PROVE FALSE
      OBVIOUS
    <3>1. q * d >= (p + 1) * d
      OBVIOUS
    <3>2. (p + 1) * d = p * d + d /\ p * d \in Nat /\ q * d \in Nat
      OBVIOUS
    <3>3. r >= 0 /\ s < d /\ r \in Int /\ s \in Int
      OBVIOUS
    <3>4. x >= q * d /\ y < p * d + d
      BY <1>2, <2>1, <2>2, <3>2, <3>3
    <3> QED
      BY <1>2, <3>1, <3>2, <3>4
  <2> QED
    BY <2>1, <2>2, <2>3
<1>3. b <= d => (n * b) \div d <= n
  <2> HAVE b <= d
  <2>1. n * b <= n * d /\ n * d \in Nat
    OBVIOUS
  <2>2. (n * d) \div d = n
    OBVIOUS
  <2> QED
    BY <1>1, <1>2, <2>1, <2>2
<1> QED
  BY <1>1, <1>2, <1>3, Division

\* A number has between 1 and 19 digits.
LEMMA DigitsType == ASSUME NEW n PROVE Digits(n) \in 1 .. 19
<1> DEFINE Fits(d) == n < 10 ^ d
<1>1. \E d \in 1 .. 19 : (d = 19 \/ Fits(d)) /\ (d = 1 \/ ~ Fits(d - 1))
  <2> HIDE DEF Fits
  <2>1. CASE \A d \in 1 .. 18 : ~ Fits(d)
    BY <2>1
  <2>2. CASE \E d \in 1 .. 18 : Fits(d) /\ \A e \in 1 .. 18 : Fits(e) => d <= e
    BY <2>2
  <2>3. (\E d \in 1 .. 18 : Fits(d)) => \E d \in 1 .. 18 : Fits(d) /\ \A e \in 1 .. 18 : Fits(e) => d <= e
    <3> DEFINE S == {d \in 1 .. 18 : Fits(d)}
    <3>1. S # {} => \E d \in S : \A e \in S : d <= e
      OBVIOUS
    <3> QED
      BY <3>1
  <2> QED
    BY <2>1, <2>2, <2>3
<1> QED
  BY <1>1 DEF Digits

LEMMA LegibleType == ASSUME NEW size PROVE Legible(size) \in Nat
<1>1. ASSUME NEW d \in Nat \ {0} PROVE d + (d - 1) \div 3 \in Nat
  OBVIOUS
<1>2. (IF size = 0 THEN 1 ELSE Digits(size) + Zeros) \in Nat \ {0}
  BY DigitsType, ProgressAssumption
<1> QED
  BY <1>1, <1>2 DEF Legible

LEMMA MaxType ==
    ASSUME NEW a \in Int, NEW b \in Int
    PROVE  MaxOf(a, b) \in {a, b} /\ MaxOf(a, b) >= a /\ MaxOf(a, b) >= b
  BY DEF MaxOf

\* The estimate is a number, and 0 if nothing is left.
LEMMA EtaType ==
    ASSUME NEW bp \in BarGauges, NEW t \in Int, EtaShown(bp, t)
    PROVE  Eta(bp, t) \in Int /\ (bp.total = bp.initial + bp.count => Eta(bp, t) = 0)
<1>1. bp.total \in Nat /\ bp.initial \in Nat /\ bp.count \in Nat \ {0} /\ bp.eta \in Int
  BY DEF BarGauges, EtaShown
<1>2. 1000 * bp.count \in Nat \ {0} /\ bp.total - bp.initial - bp.count \in Int
  BY <1>1
<1>3. t * (bp.total - bp.initial - bp.count) \in Int
  BY <1>2
<1>4. (t * (bp.total - bp.initial - bp.count)) \div (1000 * bp.count) \in Int
  BY <1>2, <1>3
<1>5. bp.total = bp.initial + bp.count
        => (t * (bp.total - bp.initial - bp.count)) \div (1000 * bp.count) = 0
  <2> HAVE bp.total = bp.initial + bp.count
  <2>1. bp.total - bp.initial - bp.count = 0
    BY <1>1
  <2>2. t * 0 = 0 /\ 0 \div (1000 * bp.count) = 0
    BY <1>2
  <2> QED
    BY <2>1, <2>2
<1> QED
  BY <1>1, <1>4, <1>5 DEF Eta, EtaKept

\* Where the star of an unknown total is drawn.
LEMMA Star ==
    ASSUME NEW tick \in Nat, NEW size \in Nat, size >= 5
    PROVE  StarAt(tick, size) \in 1 .. size - 1
<1>1. size * 2 - 6 \in Nat \ {0}
  OBVIOUS
<1>2. tick % (size * 2 - 6) \in 0 .. size * 2 - 7
  BY <1>1, Division
<1> QED
  BY <1>2 DEF StarAt

\* What is drawn fits, whatever the gauge was told.
LEMMA Drawing == ASSUME NEW bp, BarOk(bp), NEW t \in Int PROVE ImageOk(BarDrawn(bp, t))
<1> DEFINE size == bp.initial + bp.count
           room == ProgressSize(bp)
           known == bp.total > 0
           part(n) == IF known THEN (n * room) \div bp.total ELSE 0
           im == BarDrawn(bp, t)
           legible == Legible(size)
<1>1. /\ bp \in BarGauges /\ bp.total \in Nat /\ bp.initial \in Nat /\ bp.count \in Nat
      /\ bp.width \in Int /\ bp.width >= 44 /\ bp.tick \in Nat
      /\ size \in Nat /\ bp.initial <= size
      /\ bp.total = 0 \/ size <= bp.total
  BY DEF BarOk, BarGauges
<1>2. legible \in Nat
  BY LegibleType
<1>3. MaxOf(legible, 11) \in Nat /\ MaxOf(legible, 11) \in {legible, 11}
  BY <1>2, MaxType
<1>4. /\ room \in Nat /\ (room > 0 => room >= 5)
      /\ room > 0 => room = bp.width - (31 + MaxOf(legible, 11))
  BY <1>1, <1>3 DEF ProgressSize
<1>5. im.percentage <= 100
  <2>1. im.percentage = IF known THEN (100 * size) \div bp.total ELSE 0
    BY DEF BarDrawn
  <2>2. CASE known
    BY <1>1, <2>1, <2>2, Shares, SMTT(30)
  <2> QED
    BY <1>1, <2>1, <2>2
<1>6. im.insz <= im.dlsz /\ im.dlsz <= im.room
  <2>1. im.insz = part(bp.initial) /\ im.dlsz = part(size) /\ im.room = room
    BY DEF BarDrawn
  <2>2. CASE known
    <3>1. part(bp.initial) = (room * bp.initial) \div bp.total /\ part(size) = (room * size) \div bp.total
      BY <1>1, <1>4, <2>2
    <3>2. bp.total \in Nat \ {0} /\ size <= bp.total
      BY <1>1, <2>2
    <3>3. (room * bp.initial) \div bp.total <= (room * size) \div bp.total
      BY <1>1, <1>4, <3>2, Shares
    <3>4. (room * size) \div bp.total <= room
      BY <1>1, <1>4, <3>2, Shares
    <3> QED
      BY <2>1, <3>1, <3>3, <3>4
  <2>3. CASE ~ known
    BY <1>4, <2>1, <2>3
  <2> QED
    BY <2>2, <2>3
<1>7. im.room > 0 => im.star \in 1 .. im.room - 1
  <2>1. im.room = room /\ im.star = IF ~ known /\ room > 0 THEN StarAt(bp.tick, room) ELSE 1
    BY DEF BarDrawn
  <2>2. room > 0 => StarAt(bp.tick, room) \in 1 .. room - 1
    <3> HIDE DEF room
    <3> QED
      BY <1>1, <1>4, Star
  <2> HIDE DEF room
  <2> QED
    BY <1>4, <2>1, <2>2
<1>8. im.legible <= 15 => im.length <= im.width
  <2>1. /\ im.legible = legible /\ im.width = bp.width
        /\ im.length = 4 + (IF room > 0 THEN room + 2 ELSE 0)
                         + 1 + MaxOf(legible, 11) + 11
                         + (IF EtaShown(bp, t) THEN EtaLength(Eta(bp, t))
                            ELSE IF known THEN 13 ELSE 0)
    BY DEF BarDrawn
  <2>2. \A eta : EtaLength(eta) = 13
    BY DEF EtaLength
  <2> QED
    BY <1>1, <1>2, <1>3, <1>4, <2>1, <2>2
<1>9. im.left = 0 => im.eta \in {-1, 0}
  <2>1. im.left = bp.total - size /\ im.eta = IF EtaShown(bp, t) THEN Eta(bp, t) ELSE -1
    BY DEF BarDrawn
  <2>2. bp.total - size = 0 => bp.total = bp.initial + bp.count
    BY <1>1
  <2> QED
    BY <1>1, <2>1, <2>2, EtaType
<1> QED
  BY <1>5, <1>6, <1>7, <1>8, <1>9 DEF ImageOk

\* Drawing leaves a good gauge, and its ring alone.
LEMMA Redrawn ==
    ASSUME NEW bp, BarOk(bp), NEW t \in Int
    PROVE  BarOk(AfterDrawing(bp, t)) /\ AfterDrawing(bp, t).hist = bp.hist
<1> DEFINE x == IF bp.total = 0 /\ ProgressSize(bp) > 0 THEN bp.tick + 1 ELSE bp.tick
           y == IF EtaShown(bp, t) THEN Eta(bp, t) ELSE bp.eta
           z == IF EtaShown(bp, t) /\ ~ EtaKept(bp, t) THEN t ELSE bp.etatime
<1>1. AfterDrawing(bp, t) = [bp EXCEPT !.tick = x, !.eta = y, !.etatime = z]
  BY DEF AfterDrawing, BarOk, BarGauges
<1>2. x \in Nat /\ y \in Int /\ z \in Int
  BY EtaType DEF BarOk, BarGauges
<1> HIDE DEF x, y, z
<1> QED
  BY <1>1, <1>2 DEF BarOk, BarGauges

\* Bytes that are counted leave a good gauge, and its ring alone.
LEMMA CountedOk ==
    ASSUME NEW bp, BarOk(bp), NEW h \in Nat
    PROVE  /\ BarOk(Counted(bp, h))
           /\ LET b == Counted(bp, h) IN
              <<b.hist, b.start, b.recent, b.stalled>> = <<bp.hist, bp.start, bp.recent, bp.stalled>>
<1> DEFINE size == bp.initial + bp.count + h
           total == IF bp.total > 0 THEN MaxOf(bp.total, size) ELSE bp.total
<1>1. Counted(bp, h) = [bp EXCEPT !.count = bp.count + h, !.total = total]
  BY DEF Counted, BarOk, BarGauges
<1>2. bp.count + h \in Nat /\ total \in Nat /\ (total = 0 \/ bp.initial + (bp.count + h) <= total)
  <2>1. bp.total \in Nat /\ size \in Nat /\ bp.initial \in Nat /\ bp.count \in Nat
    BY DEF BarOk, BarGauges
  <2> QED
    BY <2>1 DEF MaxOf
<1> HIDE DEF total
<1> QED
  BY <1>1, <1>2 DEF BarOk, BarGauges

\* The ring's places, seen from where the next sample goes.
LEMMA RingPlaces ==
    ASSUME NEW at \in 0 .. Ring - 1
    PROVE  LET next == (at + 1) % Ring IN
           /\ next \in 0 .. Ring - 1
           /\ RingBack(at, Ring) = at /\ RingBack(next, 1) = at
           /\ \A k \in 1 .. Ring : RingBack(at, k) \in 0 .. Ring - 1
           /\ \A k \in 1 .. Ring - 1 : RingBack(at, k) # at /\ RingBack(next, k + 1) = RingBack(at, k)
<1>1. Ring \in Nat \ {0}
  BY ProgressAssumption
<1>2. (at + 1) % Ring = IF at + 1 = Ring THEN 0 ELSE at + 1
  BY <1>1
<1> QED
  BY <1>1, <1>2 DEF RingBack

\* A sample moves the window on by one.
LEMMA WindowMoves ==
    ASSUME NEW ring \in [0 .. Ring - 1 -> Int], NEW at \in 0 .. Ring - 1, NEW sum \in Int,
           NEW s \in Seq(Totals), NEW c \in {1, 2}, Window(ring, at, sum, s, c),
           NEW a \in Int, NEW new \in Totals, new[c] = SoFar(s, c, Len(s)) + a
    PROVE  Window([ring EXCEPT ![at] = a], (at + 1) % Ring, sum - ring[at] + a, Append(s, new), c)
<1> DEFINE n == Len(s)
           t == Append(s, new)
           next == (at + 1) % Ring
           moved == [ring EXCEPT ![at] = a]
<1>1. Ring \in Nat \ {0} /\ n \in Nat /\ Len(t) = n + 1
  BY ProgressAssumption
<1>2. \A i \in 0 .. n : SoFar(s, c, i) \in Int /\ SoFar(t, c, i) = SoFar(s, c, i)
  <2> SUFFICES ASSUME NEW i \in 0 .. n PROVE SoFar(s, c, i) \in Int /\ SoFar(t, c, i) = SoFar(s, c, i)
    OBVIOUS
  <2>1. i # 0 => s[i] \in Totals /\ t[i] = s[i]
    OBVIOUS
  <2> QED
    BY <2>1, SMTT(30) DEF SoFar, Totals
<1>3. SoFar(t, c, n + 1) = SoFar(s, c, n) + a
  BY <1>1 DEF SoFar
<1> DEFINE Held(k) == IF k <= n THEN SoFar(s, c, n - k + 1) - SoFar(s, c, n - k) ELSE 0
<1>w. /\ \A k \in 1 .. Ring : ring[RingBack(at, k)] = Held(k)
      /\ sum = SoFar(s, c, n) - SoFar(s, c, IF n > Ring THEN n - Ring ELSE 0)
  BY DEF Window
<1>4. ring[at] = Held(Ring)
  <2> HIDE DEF Held
  <2>1. Ring \in 1 .. Ring /\ RingBack(at, Ring) = at
    BY <1>1, RingPlaces
  <2> QED
    BY <1>w, <2>1
<1>5. ASSUME NEW k \in 1 .. Ring
      PROVE  moved[RingBack(next, k)] =
                 IF k <= n + 1 THEN SoFar(t, c, n + 1 - k + 1) - SoFar(t, c, n + 1 - k) ELSE 0
  <2>1. CASE k = 1
    <3>1. moved[RingBack(next, 1)] = a
      BY RingPlaces
    <3>2. n + 1 - 1 + 1 = n + 1 /\ n + 1 - 1 = n /\ n \in 0 .. n
      BY <1>1
    <3>3. SoFar(t, c, n + 1) - SoFar(t, c, n) = a
      BY <1>2, <1>3, <3>2
    <3> QED
      BY <1>1, <2>1, <3>1, <3>2, <3>3
  <2>2. CASE k # 1
    <3> DEFINE j == k - 1
    <3>1. j \in 1 .. Ring - 1 /\ j + 1 = k
      BY <1>1, <2>2
    <3>2. moved[RingBack(next, k)] = ring[RingBack(at, j)]
      BY <3>1, RingPlaces, SMTT(30)
    <3>3. ring[RingBack(at, j)] = Held(j)
      <4> HIDE DEF Held
      <4>1. j \in 1 .. Ring
        BY <1>1, <3>1
      <4> QED
        BY <1>w, <4>1
    <3>4. CASE j <= n
      <4>1. n + 1 - k + 1 = n - j + 1 /\ n + 1 - k = n - j /\ n - j + 1 \in 0 .. n /\ n - j \in 0 .. n /\ k <= n + 1
        BY <1>1, <3>1, <3>4
      <4> QED
        BY <1>2, <3>2, <3>3, <3>4, <4>1
    <3>5. CASE ~ j <= n
      BY <1>1, <3>1, <3>2, <3>3, <3>5
    <3> QED
      BY <3>4, <3>5
  <2> QED
    BY <2>1, <2>2
<1>6. sum - ring[at] + a =
          SoFar(t, c, n + 1) - SoFar(t, c, IF n + 1 > Ring THEN n + 1 - Ring ELSE 0)
  <2>1. CASE Ring <= n
    <3>1. n - Ring + 1 \in 0 .. n /\ n - Ring \in 0 .. n /\ 0 \in 0 .. n /\ n \in 0 .. n /\ n + 1 - Ring = n - Ring + 1
      BY <1>1, <2>1
    <3>2. (IF n > Ring THEN n - Ring ELSE 0) = n - Ring
      BY <1>1, <2>1
    <3>3. /\ ring[at] = SoFar(s, c, n - Ring + 1) - SoFar(s, c, n - Ring)
          /\ sum = SoFar(s, c, n) - SoFar(s, c, n - Ring)
      BY <1>4, <1>w, <2>1, <3>2
    <3>4. (IF n + 1 > Ring THEN n + 1 - Ring ELSE 0) = n - Ring + 1
      BY <1>1, <2>1
    <3>5. /\ SoFar(s, c, n) \in Int /\ SoFar(s, c, n - Ring) \in Int /\ SoFar(s, c, n - Ring + 1) \in Int
          /\ SoFar(t, c, n - Ring + 1) = SoFar(s, c, n - Ring + 1)
      BY <1>2, <3>1
    <3>6. sum - ring[at] + a = SoFar(t, c, n + 1) - SoFar(t, c, n - Ring + 1)
      BY <1>3, <3>3, <3>5
    <3> QED
      BY <3>4, <3>6
  <2>2. CASE ~ Ring <= n
    <3>1. 0 \in 0 .. n /\ n \in 0 .. n /\ ~ n > Ring /\ ~ n + 1 > Ring
      BY <1>1, <2>2
    <3>2. ring[at] = 0 /\ sum = SoFar(s, c, n) - SoFar(s, c, 0)
      BY <1>4, <1>w, <2>2, <3>1
    <3>3. SoFar(s, c, n) \in Int /\ SoFar(s, c, 0) \in Int /\ SoFar(t, c, 0) = SoFar(s, c, 0)
      BY <1>2, <3>1
    <3>4. sum - ring[at] + a = SoFar(t, c, n + 1) - SoFar(t, c, 0)
      BY <1>3, <3>2, <3>3
    <3> QED
      BY <3>1, <3>4
  <2> QED
    BY <2>1, <2>2
<1> HIDE DEF moved, next, t, n
<1> QED
  BY <1>1, <1>5, <1>6 DEF Window, n, t, next, moved

\* A ring that was scratched holds nothing, and so do the totals.
LEMMA WindowEmpty ==
    ASSUME NEW c PROVE Window([i \in 0 .. Ring - 1 |-> 0], 0, 0, <<>>, c)
<1>1. Ring \in Nat \ {0}
  BY ProgressAssumption
<1>2. \A k \in 1 .. Ring : RingBack(0, k) \in 0 .. Ring - 1
  BY <1>1 DEF RingBack
<1>3. Len(<<>>) = 0 /\ SoFar(<<>>, c, 0) = 0
  BY DEF SoFar
<1> QED
  BY <1>1, <1>2, <1>3 DEF Window

\* The samples after an update.
Sampling(bp, h, t, s) ==
    IF Sampled(bp, h, t)
    THEN Append(s, <<SoFar(s, 1, Len(s)) + SampleTime(bp, t), SoFar(s, 2, Len(s)) + bp.recent + h>>)
    ELSE IF Stalling(bp, h, t) THEN <<>> ELSE s

\* An empty ring.
LEMMA HistEmpty == NewHist \in Histories /\ RingOk(NewHist, <<>>)
<1>1. Ring \in Nat \ {0}
  BY ProgressAssumption
<1>2. NewHist \in Histories
  BY <1>1 DEF NewHist, Histories
<1> QED
  BY <1>2, WindowEmpty DEF RingOk, NewHist

\* A sample is stored.
LEMMA HistStored ==
    ASSUME NEW hist \in Histories, NEW s \in Seq(Totals), RingOk(hist, s),
           NEW age \in Int, NEW counted \in Int, NEW new,
           new = <<SoFar(s, 1, Len(s)) + age, SoFar(s, 2, Len(s)) + counted>>
    PROVE  /\ Stored(hist, age, counted) \in Histories
           /\ RingOk(Stored(hist, age, counted), Append(s, new))
           /\ Append(s, new) \in Seq(Totals)
<1>1. /\ hist.pos \in 0 .. Ring - 1 /\ hist.time \in Int /\ hist.sum \in Int
      /\ hist.times \in [0 .. Ring - 1 -> Int] /\ hist.bytes \in [0 .. Ring - 1 -> Int]
  BY DEF Histories
<1>2. SoFar(s, 1, Len(s)) \in Int /\ SoFar(s, 2, Len(s)) \in Int
  <2>1. Len(s) # 0 => s[Len(s)] \in Totals
    OBVIOUS
  <2> QED
    BY <2>1 DEF SoFar, Totals
<1>3. new \in Totals /\ new[1] = SoFar(s, 1, Len(s)) + age /\ new[2] = SoFar(s, 2, Len(s)) + counted
  BY <1>2 DEF Totals
<1>4. /\ Window([hist.times EXCEPT ![hist.pos] = age], (hist.pos + 1) % Ring,
                hist.time - hist.times[hist.pos] + age, Append(s, new), 1)
      /\ Window([hist.bytes EXCEPT ![hist.pos] = counted], (hist.pos + 1) % Ring,
                hist.sum - hist.bytes[hist.pos] + counted, Append(s, new), 2)
  BY <1>1, <1>3, WindowMoves DEF RingOk
<1>5. hist.time - hist.times[hist.pos] + age \in Int /\ hist.sum - hist.bytes[hist.pos] + counted \in Int
  <2>1. hist.times[hist.pos] \in Int /\ hist.bytes[hist.pos] \in Int
    BY <1>1
  <2> QED
    BY <1>1, <2>1, SMTT(30)
<1>6. (hist.pos + 1) % Ring \in 0 .. Ring - 1
  BY <1>1, RingPlaces
<1>7. Stored(hist, age, counted) \in Histories
  BY <1>1, <1>5, <1>6 DEF Stored, Histories
<1> QED
  BY <1>3, <1>4, <1>7 DEF Stored, RingOk

\* A gauge with another ring.
LEMMA AnotherRing ==
    ASSUME NEW bp, BarOk(bp), NEW hist \in Histories, NEW stalled \in BOOLEAN
    PROVE  LET b == [bp EXCEPT !.stalled = stalled, !.hist = hist] IN BarOk(b) /\ b.hist = hist
  BY DEF BarOk, BarGauges

\* A gauge whose recent period starts anew.
LEMMA Restarted ==
    ASSUME NEW bp, BarOk(bp), NEW start \in Int
    PROVE  LET b == [bp EXCEPT !.start = start] IN BarOk(b) /\ b.hist = bp.hist
  BY DEF BarOk, BarGauges

LEMMA NoneRecent ==
    ASSUME NEW bp, BarOk(bp)
    PROVE  LET b == [bp EXCEPT !.recent = 0] IN BarOk(b) /\ b.hist = bp.hist
  BY DEF BarOk, BarGauges

\* Whether a sample is taken, none, or the ring scratched: it stays the window.
LEMMA RingUpdated ==
    ASSUME NEW bp, BarOk(bp), NEW s \in Seq(Totals), RingOk(bp.hist, s), NEW h \in Nat, NEW t \in Int
    PROVE  LET new == update_speed_ring(bp, h, t) IN
           BarOk(new) /\ RingOk(new.hist, Sampling(bp, h, t, s)) /\ Sampling(bp, h, t, s) \in Seq(Totals)
<1> DEFINE new == update_speed_ring(bp, h, t)
           counted == bp.recent + h
           age == SampleTime(bp, t)
<1>1. bp \in BarGauges /\ bp.hist \in Histories /\ bp.recent \in Int /\ bp.start \in Int
  BY DEF BarOk, BarGauges
<1>2. age \in Int /\ counted \in Int
  BY <1>1 DEF SampleTime
<1>3. CASE Sampled(bp, h, t)
  <2> DEFINE sample == <<SoFar(s, 1, Len(s)) + age, SoFar(s, 2, Len(s)) + bp.recent + h>>
             hist == Stored(bp.hist, age, counted)
  <2>1. Sampling(bp, h, t, s) = Append(s, sample)
    BY <1>3 DEF Sampling
  <2>2. new = [bp EXCEPT !.stalled = FALSE, !.hist = hist, !.start = t, !.recent = 0]
    BY <1>3 DEF update_speed_ring
  <2>3. SoFar(s, 2, Len(s)) + bp.recent + h = SoFar(s, 2, Len(s)) + counted
    <3>1. SoFar(s, 2, Len(s)) \in Int
      <4>1. Len(s) # 0 => s[Len(s)] \in Totals
        OBVIOUS
      <4> QED
        BY <4>1 DEF SoFar, Totals
    <3> QED
      BY <1>1, <3>1
  <2>4. hist \in Histories /\ RingOk(hist, Append(s, sample)) /\ Append(s, sample) \in Seq(Totals)
    BY <1>1, <1>2, <2>3, HistStored
  <2>5. BarOk(new) /\ new.hist = hist
    <3> DEFINE b == [bp EXCEPT !.stalled = FALSE, !.hist = hist]
    <3>1. BarOk(b) /\ b.hist = hist
      <4> HIDE DEF hist
      <4> QED
        BY <2>4, AnotherRing
    <3> DEFINE c == [b EXCEPT !.start = t]
    <3>2. new = [c EXCEPT !.recent = 0]
      BY <2>2
    <3> HIDE DEF new, b, hist
    <3>3. t \in Int /\ BarOk(c) /\ c.hist = hist
      BY <3>1, Restarted
    <3> HIDE DEF c
    <3> QED
      BY <3>2, <3>3, NoneRecent
  <2> QED
    BY <2>1, <2>4, <2>5
<1>4. CASE ~ Sampled(bp, h, t) /\ Stalling(bp, h, t)
  <2>1. Sampling(bp, h, t, s) = <<>>
    BY <1>4 DEF Sampling
  <2>2. new = [bp EXCEPT !.stalled = TRUE, !.hist = NewHist, !.recent = 0]
    BY <1>4 DEF update_speed_ring
  <2>3. BarOk(new) /\ new.hist = NewHist
    <3> DEFINE b == [bp EXCEPT !.stalled = TRUE, !.hist = NewHist]
    <3>1. BarOk(b) /\ b.hist = NewHist
      BY HistEmpty, AnotherRing
    <3>2. new = [b EXCEPT !.recent = 0]
      BY <2>2
    <3> HIDE DEF new, b
    <3> QED
      BY <3>1, <3>2, NoneRecent
  <2> QED
    BY <2>1, <2>3, HistEmpty
<1>5. CASE ~ Sampled(bp, h, t) /\ ~ Stalling(bp, h, t)
  <2>1. new = [bp EXCEPT !.recent = counted] /\ Sampling(bp, h, t, s) = s
    BY <1>5 DEF update_speed_ring, Sampling
  <2>2. BarOk(new) /\ new.hist = bp.hist
    <3> HIDE DEF new
    <3> QED
      BY <1>2, <2>1 DEF BarOk, BarGauges
  <2> QED
    BY <2>1, <2>2
<1> QED
  BY <1>3, <1>4, <1>5

\* A new bar.
LEMMA NewBarOk ==
    ASSUME NEW initial \in Nat, NEW total \in Nat, NEW width \in Nat, width >= 44
    PROVE  BarOk(NewBar(initial, total, width)) /\ NewBar(initial, total, width).hist = NewHist
<1>1. MaxOf(initial, total) \in Nat /\ initial + 0 <= MaxOf(initial, total)
  BY DEF MaxOf
<1> QED
  BY <1>1, HistEmpty DEF NewBar, BarOk, BarGauges

\* A terminal has 45 columns at least, or is taken to have 80.
LEMMA Columns == ASSUME NEW c \in Terminals PROVE Widened(c) \in Nat /\ Widened(c) >= 45
  BY ProgressAssumption DEF Widened, MaxOf

\* New dots account for the bytes there are.
LEMMA NewDots ==
    ASSUME NEW initial \in Nat, NEW total \in Nat
    PROVE  DotOk(dot_create(initial, total), 0)
<1> DEFINE r == initial % RowBytes
           dp == dot_create(initial, total)
<1>1. RowBytes \in Nat \ {0} /\ DotBytes \in Nat \ {0} /\ DotsInLine \in Nat \ {0}
  BY ProgressAssumption
<1>2. r \in Nat /\ initial \div RowBytes \in Nat /\ initial = (initial \div RowBytes) * RowBytes + r
  BY <1>1, Division
<1>3. r \div DotBytes \in Nat /\ r % DotBytes \in Nat /\ r = (r \div DotBytes) * DotBytes + (r % DotBytes)
  <2> HIDE DEF r
  <2> QED
    BY <1>1, <1>2, Division
<1>4. /\ dp = [kind |-> "dot", initial |-> initial, total |-> total, accumulated |-> r % DotBytes,
               dots |-> r \div DotBytes, rows |-> initial \div RowBytes]
  BY DEF dot_create
<1>5. dp \in DotGauges
  BY <1>2, <1>3, <1>4 DEF DotGauges
<1>6. (initial \div RowBytes - initial \div RowBytes) * (DotsInLine * DotBytes) = 0
  <2>1. initial \div RowBytes - initial \div RowBytes = 0 /\ DotsInLine * DotBytes \in Nat
    BY <1>1, <1>2
  <2> QED
    BY <2>1
<1>7. /\ (r \div DotBytes) * DotBytes \in Nat /\ (initial \div RowBytes) * RowBytes \in Nat
  BY <1>1, <1>2, <1>3
<1>8. initial + 0 = (initial \div RowBytes) * RowBytes + 0 + (r \div DotBytes) * DotBytes + (r % DotBytes)
  BY <1>2, <1>3, <1>7
<1>9. dp.initial = initial /\ dp.rows = initial \div RowBytes /\ dp.dots = r \div DotBytes /\ dp.accumulated = r % DotBytes
  BY <1>4
<1> HIDE DEF dp, r
<1> QED
  BY <1>2, <1>5, <1>6, <1>8, <1>9 DEF DotOk, dp

\* More dots account for more bytes.
LEMMA MoreDots ==
    ASSUME NEW dp, NEW bytes \in Nat, DotOk(dp, bytes), NEW h \in Nat
    PROVE  DotOk(dot_update(dp, h), bytes + h)
<1> DEFINE acc == dp.accumulated + h
           q == acc \div DotBytes
           dots == dp.dots + q
           p == dots \div DotsInLine
           new == dot_update(dp, h)
           skipped == dp.initial \div RowBytes
<1>1. RowBytes \in Nat \ {0} /\ DotBytes \in Nat \ {0} /\ DotsInLine \in Nat \ {0}
  BY ProgressAssumption
<1>2. /\ dp \in DotGauges /\ dp.accumulated \in Nat /\ dp.dots \in Nat /\ dp.rows \in Nat /\ dp.initial \in Nat
      /\ skipped \in Nat /\ skipped <= dp.rows
  BY <1>1, Division DEF DotOk, DotGauges
<1>3. q \in Nat /\ acc % DotBytes \in Nat /\ acc = q * DotBytes + (acc % DotBytes)
  <2>1. acc \in Nat
    BY <1>2
  <2> HIDE DEF acc
  <2> QED
    BY <1>1, <2>1, Division
<1>4. p \in Nat /\ dots % DotsInLine \in Nat /\ dots = p * DotsInLine + (dots % DotsInLine)
  <2>1. dots \in Nat
    BY <1>2, <1>3
  <2> HIDE DEF dots
  <2> QED
    BY <1>1, <2>1, Division
<1>5. new = [dp EXCEPT !.accumulated = acc % DotBytes, !.dots = dots % DotsInLine, !.rows = dp.rows + p]
  BY <1>2 DEF dot_update, DotGauges
<1> DEFINE z == dp.rows - skipped
           acc2 == acc % DotBytes
           dots2 == dots % DotsInLine
<1>6. /\ new \in DotGauges /\ new.initial = dp.initial /\ new.accumulated = acc2
      /\ new.dots = dots2 /\ new.rows = dp.rows + p
  <2> HIDE DEF new, acc, dots, p, acc2, dots2
  <2>1. acc2 \in Nat /\ dots2 \in Nat /\ dp.rows + p \in Nat
    BY <1>2, <1>3, <1>4 DEF acc2, dots2
  <2>2. new = [dp EXCEPT !.accumulated = acc2, !.dots = dots2, !.rows = dp.rows + p]
    BY <1>5 DEF acc2, dots2
  <2> QED
    BY <1>2, <2>1, <2>2 DEF DotGauges
<1>7. /\ acc2 \in Nat /\ dots2 \in Nat /\ z \in Nat
      /\ dp.accumulated + h = q * DotBytes + acc2
      /\ dp.dots + q = p * DotsInLine + dots2
  BY <1>2, <1>3, <1>4
<1>8. dp.initial + bytes + h = skipped * RowBytes + (z + p) * (DotsInLine * DotBytes) + dots2 * DotBytes + acc2
  <2>1. dp.initial + bytes = skipped * RowBytes + z * (DotsInLine * DotBytes) + dp.dots * DotBytes + dp.accumulated
    BY DEF DotOk
  <2> HIDE DEF skipped, acc, dots, p, q, z, acc2, dots2
  <2>2. (z + p) * (DotsInLine * DotBytes) = z * (DotsInLine * DotBytes) + (p * DotsInLine) * DotBytes
    BY <1>1, <1>4, <1>7
  <2>3. (dp.dots + q) * DotBytes = (p * DotsInLine) * DotBytes + dots2 * DotBytes
    <3>1. (p * DotsInLine + dots2) * DotBytes = (p * DotsInLine) * DotBytes + dots2 * DotBytes
      BY <1>1, <1>4, <1>7
    <3> QED
      BY <1>7, <3>1
  <2>4. (dp.dots + q) * DotBytes = dp.dots * DotBytes + q * DotBytes
    BY <1>1, <1>2, <1>3
  <2>5. /\ z * (DotsInLine * DotBytes) \in Nat /\ (p * DotsInLine) * DotBytes \in Nat
        /\ dots2 * DotBytes \in Nat /\ dp.dots * DotBytes \in Nat /\ q * DotBytes \in Nat /\ skipped * RowBytes \in Nat
    BY <1>1, <1>2, <1>3, <1>4, <1>7
  <2> QED
    BY <1>2, <1>7, <2>1, <2>2, <2>3, <2>4, <2>5
<1>9. /\ dp.initial + bytes + h = dp.initial + (bytes + h)
      /\ dp.rows + p - skipped = z + p /\ skipped <= dp.rows + p
  BY <1>2, <1>4
<1> HIDE DEF new, skipped, acc, dots, p, q, z, acc2, dots2
<1>10. DotOk(new, bytes + h)
  <2>1. new.initial \div RowBytes = skipped
    BY <1>6 DEF skipped
  <2>2. new.rows - skipped = z + p /\ skipped <= new.rows
    <3>1. new.rows = dp.rows + p
      BY <1>6
    <3> QED
      BY <1>2, <1>4, <1>7, <1>9, <3>1
  <2>3. new.initial + (bytes + h) = skipped * RowBytes + (new.rows - skipped) * (DotsInLine * DotBytes)
                                    + new.dots * DotBytes + new.accumulated
    BY <1>6, <1>8, <1>9, <2>2
  <2> QED
    BY <1>6, <2>1, <2>2, <2>3 DEF DotOk
<1> QED
  BY <1>10 DEF new

\* What is accounted for is not less than what finish claims.
LEMMA DotsClaimed ==
    ASSUME NEW dp, NEW bytes \in Nat, DotOk(dp, bytes)
    PROVE  LET skipped == dp.initial \div RowBytes
           IN  /\ dp.initial + bytes = skipped * RowBytes + (dp.rows - skipped) * DotsInLine * DotBytes
                                       + dp.dots * DotBytes + dp.accumulated
               /\ DotsClaim(dp) <= dp.initial + bytes
<1> DEFINE skipped == dp.initial \div RowBytes
           z == dp.rows - skipped
<1>1. /\ RowBytes \in Nat \ {0} /\ DotBytes \in Nat \ {0} /\ DotsInLine \in Nat \ {0}
      /\ RowBytes <= DotBytes * DotsInLine
  BY ProgressAssumption
<1>2. /\ dp.accumulated \in Nat /\ dp.dots \in Nat /\ dp.rows \in Nat /\ dp.initial \in Nat
      /\ skipped \in Nat /\ z \in Nat /\ dp.rows = skipped + z
  <2>1. dp \in DotGauges /\ skipped <= dp.rows
    BY DEF DotOk
  <2>2. dp.accumulated \in Nat /\ dp.dots \in Nat /\ dp.rows \in Nat /\ dp.initial \in Nat
    BY <2>1 DEF DotGauges
  <2>3. skipped \in Nat
    BY <1>1, <2>2, Division
  <2> HIDE DEF skipped
  <2> QED
    BY <2>1, <2>2, <2>3
<1>3. dp.initial + bytes = skipped * RowBytes + z * (DotsInLine * DotBytes) + dp.dots * DotBytes + dp.accumulated
  BY DEF DotOk
<1> HIDE DEF skipped, z
<1>4. z * DotsInLine * DotBytes = z * (DotsInLine * DotBytes)
  BY <1>1, <1>2
<1>5. z * RowBytes <= z * (DotsInLine * DotBytes)
  <2>1. RowBytes <= DotsInLine * DotBytes /\ DotsInLine * DotBytes \in Nat
    BY <1>1
  <2> QED
    BY <1>1, <1>2, <2>1
<1>6. dp.rows * RowBytes = skipped * RowBytes + z * RowBytes
  <2>1. (skipped + z) * RowBytes = skipped * RowBytes + z * RowBytes
    BY <1>1, <1>2
  <2> QED
    BY <1>2, <2>1
<1>7. /\ z * RowBytes \in Nat /\ skipped * RowBytes \in Nat /\ z * (DotsInLine * DotBytes) \in Nat
      /\ dp.dots * DotBytes \in Nat
  BY <1>1, <1>2
<1>8. DotsClaim(dp) <= dp.initial + bytes
  BY <1>2, <1>3, <1>5, <1>6, <1>7 DEF DotsClaim
<1> QED
  BY <1>3, <1>4, <1>8 DEF skipped, z

\* The kinds of gauges are apart.
LEMMA GaugeKinds ==
    /\ \A g \in BarGauges : g.kind = "bar" /\ g # NoGauge
    /\ \A g \in DotGauges : g.kind = "dot" /\ g # NoGauge
    /\ NoGauge.kind = "none"
  BY DEF BarGauges, DotGauges, NoGauge

\* A gauge is made: the bytes told to the last one are forgotten.
LEMMA StepCreate ==
    ASSUME GaugeInv, NEW initial \in InitialSizes, NEW total \in InitialSizes, Create(initial, total)
    PROVE  GaugeInv'
<1>1. gauge = NoGauge /\ got = 0 /\ samples = <<>> /\ got' = 0 /\ samples' = <<>> /\ now' = now
  BY DEF Create, GaugeInv
<1>2. initial \in Nat /\ total \in Nat
  BY ProgressAssumption
<1>3. samples' \in Seq(Totals) /\ got' \in Nat /\ now' \in Int
  BY <1>1 DEF GaugeInv
<1>4. CASE Current = "dot" /\ gauge' = dot_create(initial, total) /\ UNCHANGED <<screen, winch, image>>
  <2>1. DotOk(gauge', got')
    BY <1>1, <1>2, <1>4, NewDots
  <2>2. gauge' \in DotGauges
    BY <2>1 DEF DotOk
  <2> QED
    BY <1>3, <1>4, <2>1, <2>2, GaugeKinds DEF GaugeInv
<1>5. CASE /\ Current = "bar"
           /\ IF screen = 0 \/ winch
              THEN (\E columns \in Terminals : screen' = Widened(columns)) /\ winch' = FALSE
              ELSE UNCHANGED <<screen, winch>>
           /\ LET bp == NewBar(initial, total, screen' - 1)
              IN  image' = BarDrawn(bp, 0) /\ gauge' = AfterDrawing(bp, 0)
  <2>1. screen' \in Nat /\ screen' >= 45
    BY <1>5, Columns DEF GaugeInv
  <2> DEFINE bp == NewBar(initial, total, screen' - 1)
  <2>2. image' = BarDrawn(bp, 0) /\ gauge' = AfterDrawing(bp, 0)
    BY <1>5
  <2>3. BarOk(bp) /\ bp.hist = NewHist
    BY <1>2, <2>1, NewBarOk
  <2> HIDE DEF bp
  <2>4. BarOk(gauge') /\ gauge'.hist = NewHist /\ ImageOk(image')
    BY <2>2, <2>3, Drawing, Redrawn
  <2>5. gauge' \in BarGauges
    BY <2>4 DEF BarOk
  <2> QED
    BY <1>1, <1>3, <2>1, <2>4, <2>5, HistEmpty, GaugeKinds DEF GaugeInv
<1> QED
  BY <1>4, <1>5 DEF Create

\* An update.
LEMMA StepUpdate ==
    ASSUME GaugeInv, NEW h \in HowMuch, NEW t \in Int, Update(h, t)
    PROVE  GaugeInv'
<1>1. h \in Nat /\ got' = got + h /\ now' = t /\ got' \in Nat
  BY ProgressAssumption DEF Update, GaugeInv
<1>2. CASE /\ gauge.kind = "dot" /\ gauge' = dot_update(gauge, h)
           /\ UNCHANGED <<screen, winch, image, samples>>
  <2>1. DotOk(gauge, got)
    BY <1>2 DEF GaugeInv
  <2>2. DotOk(gauge', got')
    BY <1>1, <1>2, <2>1, MoreDots DEF GaugeInv
  <2>3. gauge' \in DotGauges
    BY <2>2 DEF DotOk
  <2> QED
    BY <1>1, <1>2, <2>2, <2>3, GaugeKinds DEF GaugeInv
<1>3. CASE gauge.kind = "bar"
  <2> DEFINE counted == update_speed_ring(Counted(gauge, h), h, t)
             resized == IF screen' # screen THEN [counted EXCEPT !.width = screen' - 1, !.buffer = screen']
                        ELSE counted
  <2>1. BarOk(gauge) /\ RingOk(gauge.hist, samples)
    BY <1>3 DEF GaugeInv
  <2>2. samples' = Sampling(gauge, h, t, samples)
    BY <1>3 DEF Update, Sampling
  <2>3. /\ BarOk(Counted(gauge, h))
        /\ Counted(gauge, h).hist = gauge.hist
        /\ Sampling(Counted(gauge, h), h, t, samples) = Sampling(gauge, h, t, samples)
    <3> DEFINE b == Counted(gauge, h)
    <3>1. BarOk(b) /\ b.hist = gauge.hist /\ b.start = gauge.start /\ b.recent = gauge.recent /\ b.stalled = gauge.stalled
      BY <1>1, <2>1, CountedOk
    <3> HIDE DEF b
    <3>2. /\ Sampled(b, h, t) = Sampled(gauge, h, t) /\ Stalling(b, h, t) = Stalling(gauge, h, t)
          /\ SampleTime(b, t) = SampleTime(gauge, t)
      BY <3>1 DEF Sampled, Stalling, SampleTime
    <3>3. Sampling(b, h, t, samples) = Sampling(gauge, h, t, samples)
      BY <3>1, <3>2 DEF Sampling
    <3> QED
      BY <3>1, <3>3 DEF b
  <2>4. BarOk(counted) /\ RingOk(counted.hist, samples') /\ samples' \in Seq(Totals)
    BY <1>1, <2>1, <2>2, <2>3, RingUpdated DEF GaugeInv
  <2> HIDE DEF counted
  <2>5. screen' = screen \/ (screen' \in Nat /\ screen' >= 45)
    BY <1>3, Columns DEF Update
  <2>6. BarOk(resized) /\ resized.hist = counted.hist
    <3>1. CASE screen' # screen
      <4>1. resized = [counted EXCEPT !.width = screen' - 1, !.buffer = screen']
        BY <3>1
      <4> HIDE DEF resized
      <4>2. screen' - 1 \in Int /\ screen' \in Int /\ screen' = screen' - 1 + 1 /\ screen' - 1 >= 44
        BY <2>5, <3>1
      <4>3. counted \in BarGauges
        BY <2>4 DEF BarOk
      <4>4. /\ resized \in BarGauges /\ resized.hist = counted.hist
            /\ resized.width = screen' - 1 /\ resized.buffer = screen'
        BY <4>1, <4>2, <4>3 DEF BarGauges
      <4>5. resized.total = counted.total /\ resized.initial = counted.initial /\ resized.count = counted.count
        BY <4>1, <4>3 DEF BarGauges
      <4> QED
        BY <2>4, <4>2, <4>4, <4>5 DEF BarOk
    <3>2. CASE screen' = screen
      BY <2>4, <3>2
    <3> QED
      BY <3>1, <3>2
  <2> HIDE DEF resized
  <2>7. \/ gauge' = counted /\ UNCHANGED image
        \/ image' = BarDrawn(resized, t) /\ gauge' = [AfterDrawing(resized, t) EXCEPT !.shown = t]
    BY <1>3 DEF Update, counted, resized
  <2>8. BarOk(gauge') /\ RingOk(gauge'.hist, samples') /\ (image' # NoImage => ImageOk(image'))
    <3>1. CASE gauge' = counted /\ UNCHANGED image
      BY <2>4, <3>1 DEF GaugeInv
    <3>2. CASE image' = BarDrawn(resized, t) /\ gauge' = [AfterDrawing(resized, t) EXCEPT !.shown = t]
      <4> DEFINE drawn1 == AfterDrawing(resized, t)
      <4>1. BarOk(drawn1) /\ drawn1.hist = counted.hist /\ ImageOk(image')
        BY <2>6, <3>2, Drawing, Redrawn
      <4> HIDE DEF drawn1
      <4>2. BarOk([drawn1 EXCEPT !.shown = t]) /\ [drawn1 EXCEPT !.shown = t].hist = drawn1.hist
        BY <4>1 DEF BarOk, BarGauges
      <4>3. gauge' = [drawn1 EXCEPT !.shown = t]
        BY <3>2 DEF drawn1
      <4> QED
        BY <2>4, <4>1, <4>2, <4>3
    <3> QED
      BY <2>7, <3>1, <3>2
  <2>9. gauge' \in BarGauges
    BY <2>8 DEF BarOk
  <2> QED
    BY <1>1, <2>4, <2>5, <2>8, <2>9, GaugeKinds DEF GaugeInv
<1> QED
  BY <1>2, <1>3 DEF Update

\* The last image is drawn and the gauge is gone.
LEMMA StepFinish == ASSUME GaugeInv, Finish PROVE GaugeInv'
<1>1. image' # NoImage => ImageOk(image')
  <2>1. CASE gauge.kind = "bar"
    BY <2>1, Drawing DEF Finish, GaugeInv
  <2>2. CASE gauge.kind # "bar"
    BY <2>2 DEF Finish, GaugeInv
  <2> QED
    BY <2>1, <2>2
<1>2. <<>> \in Seq(Totals)
  OBVIOUS
<1> QED
  BY <1>1, <1>2, GaugeKinds DEF Finish, GaugeInv

LEMMA StepGauge == GaugeInv /\ [ProgressNext]_pvars => GaugeInv'
<1> SUFFICES ASSUME GaugeInv, [ProgressNext]_pvars PROVE GaugeInv'
  OBVIOUS
<1>1. ASSUME UNCHANGED <<screen, gauge, image, now, got, samples>> PROVE GaugeInv'
  BY <1>1 DEF GaugeInv
<1>2. ASSUME NEW name \in Names, SetImplementation(name) PROVE GaugeInv'
  BY <1>1, <1>2 DEF SetImplementation
<1>3. CASE ScheduleRedirect \/ WindowChanges
  BY <1>1, <1>3 DEF ScheduleRedirect, WindowChanges
<1>4. ASSUME NEW initial \in InitialSizes, NEW total \in InitialSizes, Create(initial, total)
      PROVE  GaugeInv'
  BY <1>4, StepCreate
<1>5. CASE CreateOnDirtyMemory
  <2>1. /\ gauge' = [kind |-> "undefined"]
        /\ UNCHANGED <<screen, image, now, got, samples>>
    BY <1>5 DEF CreateOnDirtyMemory
  <2>2. gauge'.kind = "undefined" /\ gauge' # NoGauge
    BY <2>1 DEF NoGauge
  <2> QED
    BY <2>1, <2>2 DEF GaugeInv
<1>6. ASSUME NEW h \in HowMuch, NEW step \in Steps, Update(h, now + step) PROVE GaugeInv'
  <2>1. now + step \in Int
    BY ProgressAssumption DEF GaugeInv
  <2> QED
    BY <1>6, <2>1, StepUpdate
<1>7. CASE Finish
  BY <1>7, StepFinish
<1>8. CASE UNCHANGED pvars
  BY <1>1, <1>8 DEF pvars
<1> QED
  BY <1>2, <1>3, <1>4, <1>5, <1>6, <1>7, <1>8 DEF ProgressNext

\* Whatever sizes a gauge was made for, bytes it is told and widths the terminal
\* takes: the totals of the ring are those of its last samples, the parts of the
\* bar fit it and the image its buffer (for less than 10^12 bytes), a complete
\* download shows no old estimate, and dots account for every byte
\* (progress.cpp:198-260, 622-720, 905-1080).
THEOREM GaugesKept == ProgressSpec => []GaugesTrue
<1>1. ProgressInit => GaugeInv
  <2>1. <<>> \in Seq(Totals)
    OBVIOUS
  <2> QED
    BY <2>1, GaugeKinds DEF ProgressInit, GaugeInv
<1>2. GaugeInv => GaugesTrue
  <2> SUFFICES ASSUME GaugeInv PROVE GaugesTrue
    OBVIOUS
  <2>1. RingIsWindow
    BY DEF RingIsWindow, GaugeInv, RingOk, Window
  <2>2. ImageFits
    BY DEF ImageFits, GaugeInv, ImageOk, BarOk
  <2>3. CompleteShowsNoEta
    BY DEF CompleteShowsNoEta, GaugeInv, ImageOk
  <2>4. DotsAccount
    BY DotsClaimed DEF DotsAccount, GaugeInv
  <2> QED
    BY <2>1, <2>2, <2>3, <2>4 DEF GaugesTrue
<1> QED
  BY <1>1, <1>2, StepGauge, PTL DEF ProgressSpec

-----------------------------------------------------------------------------
(* Text: Pieces put together                                               *)

\* What FlattenSeq does, piece by piece.
Flattens(f, ss) == f = [i \in 1 .. Len(ss) |-> IF i = 1 THEN ss[i] ELSE f[i - 1] \o ss[i]]

LEMMA FlattenRuns ==
    ASSUME NEW S, NEW ss \in Seq(Seq(S)), ss # <<>>
    PROVE  \E f : /\ FlattenSeq(ss) = f[Len(ss)]
                  /\ \A i \in 1 .. Len(ss) : f[i] \in Seq(S) /\ f[i] = IF i = 1 THEN ss[i] ELSE Joined(f[i - 1], ss[i])
<1> DEFINE n == Len(ss)
           step == [i \in 1 .. n |-> [x \in Seq(S) |-> Joined(x, ss[i])]]
           f0 == CHOOSE f : Flattens(f, ss)
<1>1. n \in Nat /\ n > 0 /\ \A i \in 1 .. n : ss[i] \in Seq(S)
  BY LenProperties, EmptySeq, ElementOfSeq
<1>2. \A i \in 1 .. n : \A x \in Seq(S) : Joined(x, ss[i]) \in Seq(S)
  BY <1>1, JoinedIs
<1>3. step \in [1 .. n -> [Seq(S) -> Seq(S)]]
  BY <1>2
<1>4. <<>> \in Seq(S)
  BY EmptySeq
<1> HIDE DEF n
<1>5. PICK h : Recurs(h, Seq(S), <<>>, n, step)
  BY <1>1, <1>3, <1>4, Recursion
<1>6. h \in [0 .. n -> Seq(S)] /\ h[0] = <<>> /\ \A i \in 1 .. n : h[i] = Joined(h[i - 1], ss[i])
  <2> DEFINE T == Seq(S)
  <2> HIDE DEF T
  <2>1. h \in [0 .. n -> T] /\ h[0] = <<>> /\ \A i \in 1 .. n : h[i] = step[i][h[i - 1]]
    BY <1>5 DEF Recurs, T
  <2>2. \A i \in 1 .. n : \A x \in T : step[i][x] = Joined(x, ss[i])
    BY DEF T
  <2> HIDE DEF step
  <2>3. \A i \in 1 .. n : h[i - 1] \in T
    BY <1>1, <2>1
  <2>4. \A i \in 1 .. n : h[i] = Joined(h[i - 1], ss[i])
    BY <2>1, <2>2, <2>3
  <2> QED
    BY <2>1, <2>4 DEF T
<1> DEFINE g == [i \in 1 .. n |-> h[i]]
<1>7. \A i \in 1 .. n : g[i] \in Seq(S) /\ g[i] = IF i = 1 THEN ss[i] ELSE g[i - 1] \o ss[i]
  <2> TAKE i \in 1 .. n
  <2>1. CASE i = 1
    <3>1. h[1] = Joined(<<>>, ss[1])
      BY <1>1, <1>6
    <3>2. Joined(<<>>, ss[1]) = ss[1] /\ ss[1] \in Seq(S)
      BY <1>1, JoinedNothing
    <3> QED
      BY <1>1, <2>1, <3>1, <3>2
  <2>2. CASE i # 1
    <3>1. i - 1 \in 1 .. n /\ i \in 0 .. n
      BY <1>1, <2>2
    <3> QED
      BY <1>6, <2>2, <3>1 DEF Joined
  <2> QED
    BY <2>1, <2>2
<1>8. Flattens(g, ss)
  <2>1. [i \in 1 .. n |-> IF i = 1 THEN ss[i] ELSE g[i - 1] \o ss[i]] = g
    <3> HIDE DEF g
    <3>1. g = [i \in 1 .. n |-> g[i]]
      BY DEF g
    <3> QED
      BY <1>7, <3>1
  <2> QED
    BY <2>1 DEF Flattens, n
<1>9. Flattens(f0, ss)
  BY <1>8
<1>10. FlattenSeq(ss) = f0[n]
  <2>1. Len(ss) # 0
    BY <1>1 DEF n
  <2> QED
    BY <2>1 DEF FlattenSeq, Flattens, n
<1> HIDE DEF f0, g
<1>11. f0 = [i \in 1 .. n |-> IF i = 1 THEN ss[i] ELSE f0[i - 1] \o ss[i]]
  BY <1>9 DEF Flattens, n
<1>12. \A i \in 1 .. n : f0[i] = IF i = 1 THEN ss[i] ELSE Joined(f0[i - 1], ss[i])
  BY <1>11 DEF Joined
<1> DEFINE P == {i \in 0 .. n : i = 0 \/ f0[i] \in Seq(S)}
<1>13. 0 .. n \subseteq P
  <2>1. 0 \in P
    BY <1>1
  <2>2. ASSUME NEW i \in 1 .. n, i - 1 \in P PROVE i \in P
    <3>1. CASE i = 1
      BY <1>1, <1>12, <3>1
    <3>2. CASE i # 1
      <4>1. f0[i - 1] \in Seq(S) /\ f0[i] = Joined(f0[i - 1], ss[i])
        BY <1>1, <1>12, <2>2, <3>2
      <4>2. Joined(f0[i - 1], ss[i]) \in Seq(S)
        BY <1>2, <4>1
      <4>3. f0[i] \in Seq(S)
        BY <4>1, <4>2
      <4> QED
        BY <1>1, <4>3
    <3> QED
      BY <3>1, <3>2
  <2> HIDE DEF P
  <2> QED
    BY <1>1, <2>1, <2>2, Inductive
<1>14. \A i \in 1 .. n : f0[i] \in Seq(S)
  BY <1>1, <1>13
<1> QED
  BY <1>10, <1>12, <1>14 DEF n

\* Pieces put together are a text, and a piece more is behind the others.
LEMMA FlattenGrows ==
    ASSUME NEW S
    PROVE  /\ FlattenSeq(<<>>) = <<>>
           /\ \A ss \in Seq(Seq(S)) : FlattenSeq(ss) \in Seq(S)
           /\ \A ss \in Seq(Seq(S)) : \A s \in Seq(S) : FlattenSeq(Longer(ss, s)) = Joined(FlattenSeq(ss), s)
<1>1. FlattenSeq(<<>>) = <<>>
  BY DEF FlattenSeq
<1>2. ASSUME NEW ss \in Seq(Seq(S)) PROVE FlattenSeq(ss) \in Seq(S)
  <2>1. CASE ss = <<>>
    BY <1>1, <2>1, EmptySeq
  <2>2. CASE ss # <<>>
    <3>1. Len(ss) \in 1 .. Len(ss)
      BY <2>2, LenProperties, EmptySeq
    <3> QED
      BY <2>2, <3>1, FlattenRuns
  <2> QED
    BY <2>1, <2>2
<1>3. ASSUME NEW ss \in Seq(Seq(S)), NEW s \in Seq(S)
      PROVE  FlattenSeq(Longer(ss, s)) = Joined(FlattenSeq(ss), s)
  <2> DEFINE n == Len(ss)
             tt == Longer(ss, s)
  <2>1. n \in Nat
    BY LenProperties
  <2>2. /\ tt \in Seq(Seq(S)) /\ Len(tt) = n + 1 /\ tt[n + 1] = s
        /\ \A i \in 1 .. n : tt[i] = ss[i]
    BY AppendProperties DEF Longer
  <2> HIDE DEF tt
  <2>3. tt # <<>>
    BY <2>1, <2>2, EmptySeq
  <2>a. tt \in Seq(Seq(S))
    BY <2>2
  <2>4. PICK g : /\ FlattenSeq(tt) = g[Len(tt)]
                 /\ \A i \in 1 .. Len(tt) : g[i] \in Seq(S) /\ g[i] = IF i = 1 THEN tt[i] ELSE Joined(g[i - 1], tt[i])
    BY <2>a, <2>3, FlattenRuns
  <2>5. CASE ss = <<>>
    <3>1. n = 0
      BY <2>5, EmptySeq
    <3>2. FlattenSeq(tt) = s
      BY <2>2, <2>4, <3>1
    <3>3. Joined(<<>>, s) = s
      BY JoinedNothing
    <3> QED
      BY <1>1, <2>5, <3>2, <3>3 DEF tt
  <2>6. CASE ss # <<>>
    <3>1. PICK f : /\ FlattenSeq(ss) = f[Len(ss)]
                   /\ \A i \in 1 .. Len(ss) : f[i] \in Seq(S) /\ f[i] = IF i = 1 THEN ss[i] ELSE Joined(f[i - 1], ss[i])
      BY <2>6, FlattenRuns
    <3>2. n > 0
      BY <2>1, <2>6, EmptySeq
    <3>3. /\ \A i \in 1 .. n : f[i] = IF i = 1 THEN ss[i] ELSE Joined(f[i - 1], ss[i])
          /\ \A i \in 1 .. n + 1 : g[i] = IF i = 1 THEN tt[i] ELSE Joined(g[i - 1], tt[i])
          /\ FlattenSeq(ss) = f[n] /\ FlattenSeq(tt) = g[n + 1]
      BY <2>2, <2>4, <3>1
    <3> HIDE DEF n
    <3> DEFINE P == {i \in 0 .. n : i = 0 \/ f[i] = g[i]}
    <3>4. 0 \in P
      BY <2>1
    <3>5. ASSUME NEW i \in 1 .. n, i - 1 \in P PROVE i \in P
      <4>1. i \in 1 .. n + 1 /\ tt[i] = ss[i] /\ i \in 0 .. n
        BY <2>1, <2>2
      <4>2. CASE i = 1
        BY <3>3, <4>1, <4>2
      <4>3. CASE i # 1
        <5>1. f[i - 1] = g[i - 1]
          BY <2>1, <3>5, <4>3
        <5> QED
          BY <3>3, <4>1, <4>3, <5>1
      <4> QED
        BY <4>2, <4>3
    <3>6. 0 .. n \subseteq P
      <4> HIDE DEF P
      <4> QED
        BY <2>1, <3>4, <3>5, Inductive
    <3>7. f[n] = g[n]
      BY <2>1, <3>2, <3>6
    <3>8. g[n + 1] = Joined(g[n], s)
      BY <2>1, <2>2, <3>2, <3>3
    <3> QED
      BY <3>3, <3>7, <3>8 DEF tt
  <2> QED
    BY <2>5, <2>6
<1> QED
  BY <1>1, <1>2, <1>3

-----------------------------------------------------------------------------
(* Text: The lines of a file                                               *)

Codes8 == 0 .. 255

\* What has been read: lines, and the line under way without a line end in it.
ReadInv ==
    /\ text \in Seq(Codes8) /\ pos \in 0 .. Len(text)
    /\ line \in Seq(Codes8) /\ lines \in Seq(Seq(Codes8))
    /\ bufsize \in Nat /\ Len(line) + 2 <= bufsize

LinesInv ==
    /\ Joined(FlattenSeq(lines), line) = SubSeq(text, 1, pos)
    /\ \A k \in 1 .. Len(line) : line[k] # Newline
    /\ \A i \in 1 .. Len(lines) : \A k \in 1 .. Len(lines[i]) : lines[i][k] = Newline => k = Len(lines[i])
    /\ \A i \in 1 .. Len(lines) :
          Last(lines[i]) # Newline => i = Len(lines) /\ line = <<>> /\ pos = Len(text)

TextInv == ReadInv /\ (IsString => LinesInv)

LEMMA Strings == IsString <=> \A i \in DOMAIN text : text[i] # NUL
  BY DEF IsString, ToSet

\* What fgets reaches is not empty, and has a line end at most at its end.
LEMMA FgetsReaches ==
    ReadInv /\ pos < Len(text) =>
        \E n \in 1 .. Len(text) - pos :
              /\ n <= bufsize - Len(line) - 1
              /\ InReach = SubSeq(text, pos + 1, pos + n)
              /\ InReach \in Seq(Codes8) /\ Len(InReach) = n
              /\ \A i \in 1 .. n : InReach[i] = text[pos + i]
              /\ \A i \in 1 .. n : InReach[i] = Newline => i = n
<1> SUFFICES ASSUME ReadInv, pos < Len(text)
             PROVE  \E n \in 1 .. Len(text) - pos :
                       /\ n <= bufsize - Len(line) - 1
                       /\ InReach = SubSeq(text, pos + 1, pos + n)
                       /\ InReach \in Seq(Codes8) /\ Len(InReach) = n
                       /\ \A i \in 1 .. n : InReach[i] = text[pos + i]
                       /\ \A i \in 1 .. n : InReach[i] = Newline => i = n
  OBVIOUS
<1> DEFINE m == Len(text) - pos
           room == bufsize - Len(line) - 1
           most == IF m < room THEN m ELSE room
           ends == {k \in 1 .. most : text[pos + k] = Newline}
           q == IF ends = {} THEN most ELSE CHOOSE k \in ends : \A l \in ends : k <= l
           r == SubSeq(text, pos + 1, pos + q)
<1>1. /\ Len(text) \in Nat /\ pos \in 0 .. Len(text) /\ bufsize \in Nat /\ Len(line) \in Nat
      /\ \A i \in 1 .. Len(text) : text[i] \in Codes8
  BY LenProperties, ElementOfSeq DEF ReadInv
<1>2. m \in Nat /\ m >= 1 /\ room \in Nat /\ room >= 1
  BY <1>1 DEF ReadInv
<1> HIDE DEF m, room
<1>3. most \in Nat /\ most >= 1 /\ most <= m /\ most <= room
  BY <1>2
<1> HIDE DEF most
<1>4. q \in 1 .. most /\ \A k \in 1 .. q : text[pos + k] = Newline => k = q
  <2>1. CASE ends = {}
    BY <1>3, <2>1
  <2>2. CASE ends # {}
    <3>1. \E k \in ends : \A l \in ends : k <= l
      <4>1. PICK z \in ends : TRUE
        BY <2>2
      <4>2. ends \subseteq 0 .. most
        BY <1>3
      <4> HIDE DEF ends
      <4> QED
        BY <1>3, <2>2, <4>2, Least
    <3>2. q \in ends /\ \A l \in ends : q <= l
      BY <2>2, <3>1
    <3> HIDE DEF q
    <3> QED
      BY <1>3, <3>2
  <2> QED
    BY <2>1, <2>2
<1>5. InReach = IF q = 0 THEN <<>> ELSE SubSeq(text, pos + 1, pos + q)
  BY DEF InReach, q, ends, most, m, room
<1> HIDE DEF q
<1>6. InReach = r /\ q \in Nat /\ q >= 1
  <2>1. q \in Nat /\ q >= 1
    BY <1>3, <1>4
  <2>2. q # 0
    BY <2>1
  <2>3. InReach = IF q = 0 THEN <<>> ELSE r
    BY <1>5, Zenon
  <2> HIDE DEF r
  <2> QED
    BY <2>1, <2>2, <2>3
<1>7. r \in Seq(Codes8) /\ Len(r) = q /\ \A i \in 1 .. q : r[i] = text[pos + i]
  <2> DEFINE a == pos + 1
             b == pos + q
  <2>1. a \in Int /\ b \in Int /\ a <= b /\ b - a + 1 = q /\ \A i \in a .. b : text[i] \in Codes8
    BY <1>1, <1>3, <1>4, <1>6 DEF m
  <2>2. \A i \in 1 .. q : a + i - 1 = pos + i
    BY <1>1, <1>6
  <2> HIDE DEF a, b
  <2>3. /\ SubSeq(text, a, b) \in Seq(Codes8)
        /\ Len(SubSeq(text, a, b)) = IF a <= b THEN b - a + 1 ELSE 0
        /\ \A i \in 1 .. b - a + 1 : SubSeq(text, a, b)[i] = text[a + i - 1]
    BY <2>1, SubSeqProperties
  <2>4. r = SubSeq(text, a, b)
    BY DEF a, b
  <2> HIDE DEF r
  <2> QED
    BY <2>1, <2>2, <2>3, <2>4
<1> HIDE DEF r
<1>8. q \in 1 .. Len(text) - pos /\ q <= bufsize - Len(line) - 1
  BY <1>2, <1>3, <1>4 DEF m, room
<1>9. InReach = SubSeq(text, pos + 1, pos + q)
  BY <1>6 DEF r
<1>10. InReach \in Seq(Codes8) /\ Len(InReach) = q /\ \A i \in 1 .. q : InReach[i] = text[pos + i]
  BY <1>6, <1>7
<1>11. \A i \in 1 .. q : InReach[i] = Newline => i = q
  BY <1>4, <1>10
<1> QED
  BY <1>8, <1>9, <1>10, <1>11

\* A string loses nothing to a NUL, and no text grows.
LEMMA CutAtNul ==
    ASSUME NEW s \in Seq(Codes8)
    PROVE  /\ UpToNul(s) \in Seq(Codes8) /\ Len(UpToNul(s)) <= Len(s)
           /\ (\A i \in 1 .. Len(s) : s[i] # NUL) => UpToNul(s) = s
<1> DEFINE nuls == {i \in DOMAIN s : s[i] = NUL}
           c == CHOOSE i \in nuls : \A j \in nuls : i <= j
<1>1. Len(s) \in Nat /\ DOMAIN s = 1 .. Len(s) /\ \A i \in 1 .. Len(s) : s[i] \in Codes8
  BY LenProperties, ElementOfSeq
<1>2. CASE nuls = {}
  BY <1>1, <1>2 DEF UpToNul
<1>3. CASE nuls # {}
  <2>1. \E i \in nuls : \A j \in nuls : i <= j
    <3>1. nuls \subseteq 0 .. Len(s)
      BY <1>1
    <3> HIDE DEF nuls
    <3> QED
      BY <1>1, <1>3, <3>1, Least
  <2>2. c \in nuls
    BY <2>1
  <2>3. UpToNul(s) = SubSeq(s, 1, c - 1)
    BY <1>3 DEF UpToNul
  <2> DEFINE e == c - 1
  <2> HIDE DEF c
  <2>4. e \in 0 .. Len(s) /\ \A i \in 1 .. e : s[i] \in Codes8
    BY <1>1, <2>2
  <2>5. UpToNul(s) = SubSeq(s, 1, e)
    BY <2>3
  <2> DEFINE u == UpToNul(s)
  <2> HIDE DEF e
  <2>6. SubSeq(s, 1, e) \in Seq(Codes8) /\ Len(SubSeq(s, 1, e)) = IF 1 <= e THEN e - 1 + 1 ELSE 0
    BY <2>4, SubSeqProperties
  <2>7. ~ \A i \in 1 .. Len(s) : s[i] # NUL
    BY <1>1, <2>2
  <2>8. u \in Seq(Codes8) /\ Len(u) = IF 1 <= e THEN e - 1 + 1 ELSE 0
    BY <2>5, <2>6
  <2> HIDE DEF u
  <2>9. Len(u) <= Len(s)
    BY <1>1, <2>4, <2>8
  <2> QED
    BY <2>7, <2>8, <2>9 DEF u
<1> QED
  BY <1>2, <1>3

LEMMA TextStarts == TextInit => TextInv
<1> SUFFICES ASSUME TextInit PROVE TextInv
  OBVIOUS
<1>1. PICK n \in 0 .. MaxText : \E t \in [1 .. n -> Letters] : TextStart(t)
  BY DEF TextInit
<1>2. PICK t \in [1 .. n -> Letters] : TextStart(t)
  BY <1>1
<1>3. n \in Nat /\ Letters \subseteq Codes8 /\ BufSize \in Nat /\ BufSize >= 2
  BY TextAssumption DEF Codes8
<1>4. t \in [1 .. n -> Codes8]
  BY <1>2, <1>3
<1>5. t \in Seq(Codes8) /\ Len(t) \in Nat
  BY <1>3, <1>4
<1>6. text = t /\ pos = 0 /\ line = <<>> /\ bufsize = BufSize /\ lines = <<>>
  BY <1>2 DEF TextStart
<1>7. line \in Seq(Codes8) /\ lines \in Seq(Seq(Codes8)) /\ Len(line) = 0 /\ Len(lines) = 0
  BY <1>6, EmptySeq
<1>8. ReadInv
  BY <1>3, <1>5, <1>6, <1>7 DEF ReadInv
<1>9. Joined(FlattenSeq(lines), line) = SubSeq(text, 1, pos)
  <2>1. FlattenSeq(lines) = <<>>
    BY <1>6, FlattenGrows
  <2>2. Joined(<<>>, <<>>) = <<>>
    BY EmptySeq, JoinedNothing
  <2>3. SubSeq(text, 1, 0) = <<>>
    BY <1>5, <1>6
  <2> QED
    BY <1>6, <2>1, <2>2, <2>3
<1>10. LinesInv
  BY <1>7, <1>9 DEF LinesInv
<1> QED
  BY <1>8, <1>10 DEF TextInv

\* A prefix and what is behind it are a longer prefix.
LEMMA PrefixGrows ==
    ASSUME NEW S, NEW s \in Seq(S), NEW p \in Nat, NEW n \in Nat, p + n <= Len(s)
    PROVE  Joined(SubSeq(s, 1, p), SubSeq(s, p + 1, p + n)) = SubSeq(s, 1, p + n)
<1> DEFINE a == SubSeq(s, 1, p)
           b == SubSeq(s, p + 1, p + n)
           c == SubSeq(s, 1, p + n)
           from == p + 1
           to == p + n
<1>1. Len(s) \in Nat /\ \A i \in 1 .. Len(s) : s[i] \in S
  BY LenProperties, ElementOfSeq
<1>2. a \in Seq(S) /\ Len(a) = p /\ \A i \in 1 .. p : a[i] = s[i]
  <2>1. \A i \in 1 .. p : s[i] \in S
    BY <1>1
  <2>2. /\ a \in Seq(S) /\ Len(a) = IF 1 <= p THEN p - 1 + 1 ELSE 0
        /\ \A i \in 1 .. p - 1 + 1 : a[i] = s[1 + i - 1]
    BY <2>1, SubSeqProperties
  <2> HIDE DEF a
  <2> QED
    BY <2>2
<1>3. from \in Int /\ to \in Int
  OBVIOUS
<1>4. b \in Seq(S) /\ Len(b) = n /\ \A i \in 1 .. n : b[i] = s[p + i]
  <2>1. \A i \in from .. to : s[i] \in S
    BY <1>1
  <2>2. to - from + 1 = n /\ (from <= to <=> n > 0) /\ \A i \in 1 .. n : from + i - 1 = p + i
    OBVIOUS
  <2>b. b = SubSeq(s, from, to)
    OBVIOUS
  <2> HIDE DEF from, to
  <2>3. /\ SubSeq(s, from, to) \in Seq(S)
        /\ Len(SubSeq(s, from, to)) = IF from <= to THEN to - from + 1 ELSE 0
        /\ \A i \in 1 .. to - from + 1 : SubSeq(s, from, to)[i] = s[from + i - 1]
    BY <1>3, <2>1, SubSeqProperties
  <2> HIDE DEF b
  <2> QED
    BY <1>3, <2>2, <2>b, <2>3
<1>5. c \in Seq(S) /\ Len(c) = p + n /\ \A i \in 1 .. p + n : c[i] = s[i]
  <2>1. \A i \in 1 .. to : s[i] \in S
    BY <1>1
  <2>c. c = SubSeq(s, 1, to)
    OBVIOUS
  <2> HIDE DEF to
  <2>2. /\ SubSeq(s, 1, to) \in Seq(S) /\ Len(SubSeq(s, 1, to)) = IF 1 <= to THEN to - 1 + 1 ELSE 0
        /\ \A i \in 1 .. to - 1 + 1 : SubSeq(s, 1, to)[i] = s[1 + i - 1]
    BY <1>3, <2>1, SubSeqProperties
  <2> HIDE DEF c
  <2>3. c \in Seq(S) /\ Len(c) = (IF 1 <= to THEN to - 1 + 1 ELSE 0) /\ \A i \in 1 .. to - 1 + 1 : c[i] = s[1 + i - 1]
    BY <2>c, <2>2
  <2> QED
    BY <2>3 DEF to
<1> HIDE DEF a, b, c
<1>6. /\ Joined(a, b) \in Seq(S) /\ Len(Joined(a, b)) = Len(a) + Len(b)
      /\ \A i \in 1 .. Len(a) : Joined(a, b)[i] = a[i]
      /\ \A i \in 1 .. Len(b) : Joined(a, b)[Len(a) + i] = b[i]
  <2>1. a \in Seq(S) /\ b \in Seq(S)
    BY <1>2, <1>4
  <2>2. Joined(a, b) \in Seq(S) /\ Len(Joined(a, b)) = Len(a) + Len(b)
    BY <2>1, JoinedIs
  <2>3. ASSUME NEW i \in 1 .. Len(a) PROVE Joined(a, b)[i] = a[i]
    BY <2>1, JoinedIs
  <2>4. ASSUME NEW i \in 1 .. Len(b) PROVE Joined(a, b)[Len(a) + i] = b[i]
    BY <2>1, JoinedIs
  <2> QED
    BY <2>2, <2>3, <2>4
<1> DEFINE j == Joined(a, b)
<1>7. j \in Seq(S) /\ Len(j) = p + n /\ (\A i \in 1 .. p : j[i] = s[i]) /\ \A i \in 1 .. n : j[p + i] = s[p + i]
  BY <1>2, <1>4, <1>6
<1> HIDE DEF j
<1>8. ASSUME NEW i \in 1 .. p + n PROVE j[i] = s[i]
  <2>1. CASE i <= p
    BY <1>7, <2>1
  <2>2. CASE i > p
    <3>1. i - p \in 1 .. n /\ p + (i - p) = i
      BY <2>2
    <3> QED
      BY <1>7, <3>1
  <2> QED
    BY <2>1, <2>2
<1>9. j = c
  BY <1>5, <1>7, <1>8, SameSeq
<1> QED
  BY <1>9 DEF j, a, b, c

\* What read_whole_line has after fgets: the characters in reach behind the line.
LEMMA ReadIs ==
    ASSUME NEW a \in Seq(Codes8), NEW b \in Seq(Codes8), b # <<>>,
           \A k \in 1 .. Len(a) : a[k] # Newline,
           \A k \in 1 .. Len(b) : b[k] = Newline => k = Len(b)
    PROVE  /\ Joined(a, b) \in Seq(Codes8) /\ Joined(a, b) # <<>> /\ Len(Joined(a, b)) >= 1
           /\ \A k \in 1 .. Len(Joined(a, b)) : Joined(a, b)[k] = Newline => k = Len(Joined(a, b))
<1> DEFINE j == Joined(a, b)
           n == Len(a)
           m == Len(b)
<1>1. n \in Nat /\ m \in Nat /\ m > 0
  BY LenProperties, EmptySeq
<1>2. j \in Seq(Codes8) /\ Len(j) = n + m /\ (\A i \in 1 .. n : j[i] = a[i]) /\ \A i \in 1 .. m : j[n + i] = b[i]
  <2>1. j \in Seq(Codes8) /\ Len(j) = n + m
    BY JoinedIs
  <2>2. ASSUME NEW i \in 1 .. n PROVE j[i] = a[i]
    BY JoinedIs
  <2>3. ASSUME NEW i \in 1 .. m PROVE j[n + i] = b[i]
    BY JoinedIs
  <2> QED
    BY <2>1, <2>2, <2>3
<1>3. (\A k \in 1 .. n : a[k] # Newline) /\ \A k \in 1 .. m : b[k] = Newline => k = m
  OBVIOUS
<1> HIDE DEF j, n, m
<1>4. ASSUME NEW k \in 1 .. n + m, j[k] = Newline PROVE k = n + m
  <2>1. CASE k <= n
    BY <1>1, <1>2, <1>3, <1>4, <2>1
  <2>2. CASE k > n
    <3>1. k - n \in 1 .. m /\ n + (k - n) = k
      BY <1>1, <2>2
    <3>2. b[k - n] = Newline
      BY <1>2, <1>4, <3>1
    <3>3. k - n = m
      BY <1>3, <3>1, <3>2
    <3> QED
      BY <1>1, <3>3
  <2> QED
    BY <1>1, <2>1, <2>2
<1>5. j # <<>>
  BY <1>1, <1>2, EmptySeq
<1> QED
  BY <1>1, <1>2, <1>4, <1>5 DEF j

\* fgets reads a piece of the line; what has been read stays together.
LEMMA FgetsKeeps == TextInv /\ fgets => TextInv'
<1> SUFFICES ASSUME TextInv, fgets PROVE TextInv'
  OBVIOUS
<1>1. /\ text \in Seq(Codes8) /\ pos \in 0 .. Len(text) /\ line \in Seq(Codes8)
      /\ lines \in Seq(Seq(Codes8)) /\ bufsize \in Nat /\ Len(line) + 2 <= bufsize
      /\ Len(text) \in Nat /\ Len(line) \in Nat /\ Len(lines) \in Nat
  BY LenProperties DEF TextInv, ReadInv
<1>2. pos < Len(text) /\ text' = text /\ pos' = pos + Len(InReach)
  BY DEF fgets
<1>3. PICK n \in 1 .. Len(text) - pos :
              /\ n <= bufsize - Len(line) - 1
              /\ InReach = SubSeq(text, pos + 1, pos + n)
              /\ InReach \in Seq(Codes8) /\ Len(InReach) = n
              /\ \A i \in 1 .. n : InReach[i] = text[pos + i]
              /\ \A i \in 1 .. n : InReach[i] = Newline => i = n
  BY <1>2, FgetsReaches DEF TextInv
<1> DEFINE u == UpToNul(InReach)
           read == Joined(line, u)
<1>4. u \in Seq(Codes8) /\ Len(u) <= n /\ Len(u) \in Nat
  BY <1>3, CutAtNul, LenProperties
<1>5. read \in Seq(Codes8) /\ Len(read) = Len(line) + Len(u)
  BY <1>1, <1>4, JoinedIs
<1>6. /\ \/ read # <<>> /\ Last(read) = Newline /\ Returns(read)
         \/ read # <<>> /\ Last(read) # Newline /\ line' = read /\ bufsize' = 2 * bufsize /\ lines' = lines
         \/ read = <<>> /\ line' = line /\ bufsize' = bufsize /\ lines' = lines
  BY DEF fgets, Joined
<1> HIDE DEF u
<1>b. BufSize \in Nat /\ BufSize >= 2
  BY TextAssumption
<1>7. ReadInv'
  <2> HIDE DEF read
  <2>0. Len(InReach) = n
    BY <1>3
  <2>1. text' \in Seq(Codes8) /\ pos' \in 0 .. Len(text')
    BY <1>1, <1>2, <2>0
  <2>2. CASE Returns(read)
    <3>1. line' = <<>> /\ bufsize' = BufSize /\ lines' = Longer(lines, read)
      BY <2>2 DEF Returns, Longer
    <3>2. lines' \in Seq(Seq(Codes8))
      BY <1>1, <1>5, <3>1, LongerIs
    <3>3. line' \in Seq(Codes8) /\ Len(line') = 0
      BY <3>1, EmptySeq
    <3> QED
      BY <1>b, <2>1, <3>1, <3>2, <3>3 DEF ReadInv
  <2>3. CASE line' = read /\ bufsize' = 2 * bufsize /\ lines' = lines
    <3>1. Len(read) + 2 <= 2 * bufsize /\ 2 * bufsize \in Nat
      BY <1>1, <1>3, <1>4, <1>5
    <3> QED
      BY <1>1, <1>5, <2>1, <2>3, <3>1 DEF ReadInv
  <2>4. CASE line' = line /\ bufsize' = bufsize /\ lines' = lines
    BY <1>1, <2>1, <2>4 DEF ReadInv
  <2> QED
    BY <1>6, <2>2, <2>3, <2>4
<1>8. ASSUME IsString' PROVE LinesInv'
  <2>1. IsString /\ \A i \in DOMAIN text : text[i] # NUL
    <3>1. IsString
      BY <1>2, <1>8 DEF IsString
    <3> QED
      BY <3>1, Strings
  <2>2. LinesInv
    BY <2>1 DEF TextInv
  <2>3. u = InReach
    <3>1. DOMAIN text = 1 .. Len(text)
      BY <1>1, LenProperties
    <3>2. \A i \in 1 .. n : pos + i \in 1 .. Len(text)
      BY <1>1, <1>3
    <3>3. \A i \in 1 .. n : InReach[i] # NUL
      BY <1>3, <2>1, <3>1, <3>2
    <3> QED
      BY <1>3, <3>3, CutAtNul DEF u
  <2>4. u # <<>> /\ (\A k \in 1 .. Len(u) : u[k] = Newline => k = Len(u))
    <3>1. Len(InReach) = n /\ \A i \in 1 .. n : InReach[i] = Newline => i = n
      BY <1>3
    <3>2. InReach # <<>>
      BY <3>1
    <3> QED
      BY <2>3, <3>1, <3>2
  <2>5. \A k \in 1 .. Len(line) : line[k] # Newline
    BY <2>2 DEF LinesInv
  <2>6. /\ read # <<>> /\ Len(read) >= 1 /\ Len(read) \in Nat
        /\ \A k \in 1 .. Len(read) : read[k] = Newline => k = Len(read)
    BY <1>1, <1>4, <1>5, <2>4, <2>5, ReadIs, LenProperties
  <2> DEFINE flat == FlattenSeq(lines)
  <2>7. flat \in Seq(Codes8)
    BY <1>1, FlattenGrows
  <2>8. Joined(flat, read) = SubSeq(text, 1, pos')
    <3>1. Joined(Joined(flat, line), u) = Joined(flat, read)
      <4> HIDE DEF flat
      <4> QED
        BY <1>1, <1>4, <2>7, JoinedTwice
    <3>2. Joined(flat, line) = SubSeq(text, 1, pos)
      BY <2>2 DEF LinesInv
    <3>3. Joined(SubSeq(text, 1, pos), SubSeq(text, pos + 1, pos + n)) = SubSeq(text, 1, pos + n)
      <4>1. pos \in Nat /\ n \in Nat /\ pos + n <= Len(text)
        BY <1>1
      <4> QED
        BY <1>1, <4>1, PrefixGrows
    <3> HIDE DEF flat, read
    <3> QED
      BY <1>2, <1>3, <2>3, <3>1, <3>2, <3>3
  <2>9. \A i \in 1 .. Len(lines) : Last(lines[i]) = Newline
    BY <1>2, <2>2 DEF LinesInv
  <2>10. \A i \in 1 .. Len(lines) : \A k \in 1 .. Len(lines[i]) : lines[i][k] = Newline => k = Len(lines[i])
    BY <2>2 DEF LinesInv
  <2>p. text' = text
    BY <1>2
  <2> HIDE DEF read
  <2>11. CASE Last(read) = Newline /\ Returns(read)
    <3>1. line' = <<>> /\ lines' = Longer(lines, read)
      BY <2>11 DEF Returns, Longer
    <3>2. /\ Longer(lines, read) \in Seq(Seq(Codes8)) /\ Len(Longer(lines, read)) = Len(lines) + 1
          /\ \A i \in 1 .. Len(lines) : Longer(lines, read)[i] = lines[i]
          /\ Longer(lines, read)[Len(lines) + 1] = read
      BY <1>1, <1>5, LongerIs
    <3>3. Joined(FlattenSeq(lines'), line') = SubSeq(text', 1, pos')
      <4>1. FlattenSeq(Longer(lines, read)) = Joined(flat, read)
        BY <1>1, <1>5, FlattenGrows
      <4>2. Joined(flat, read) \in Seq(Codes8)
        <5> HIDE DEF flat
        <5> QED
          BY <1>5, <2>7, JoinedIs
      <4>3. Joined(Joined(flat, read), <<>>) = Joined(flat, read)
        <5> HIDE DEF flat
        <5> QED
          BY <4>2, JoinedNothing
      <4> HIDE DEF flat
      <4> QED
        BY <2>8, <2>p, <3>1, <4>1, <4>3
    <3>4. \A i \in 1 .. Len(lines') : (i \in 1 .. Len(lines) /\ lines'[i] = lines[i]) \/ (i = Len(lines) + 1 /\ lines'[i] = read)
      <4> DEFINE L == Longer(lines, read)
                 k == Len(lines)
      <4>1. k \in Nat /\ lines' = L
        BY <1>1, <3>1
      <4>2. Len(L) = k + 1 /\ (\A i \in 1 .. k : L[i] = lines[i]) /\ L[k + 1] = read
        BY <3>2
      <4> HIDE DEF L, k
      <4>3. \A i \in 1 .. k + 1 : i \in 1 .. k \/ i = k + 1
        BY <4>1
      <4>4. \A i \in 1 .. Len(L) : (i \in 1 .. k /\ L[i] = lines[i]) \/ (i = k + 1 /\ L[i] = read)
        BY <4>2, <4>3
      <4> QED
        BY <4>1, <4>4 DEF k
    <3>5. \A i \in 1 .. Len(lines') : \A k \in 1 .. Len(lines'[i]) : lines'[i][k] = Newline => k = Len(lines'[i])
      BY <2>6, <2>10, <3>4
    <3>6. \A i \in 1 .. Len(lines') : Last(lines'[i]) = Newline
      BY <2>9, <2>11, <3>4
    <3>7. Len(line') = 0
      BY <3>1
    <3> QED
      BY <3>3, <3>5, <3>6, <3>7 DEF LinesInv
  <2>12. CASE Last(read) # Newline /\ line' = read /\ lines' = lines
    <3>1. \A k \in 1 .. Len(read) : read[k] # Newline
      BY <2>6, <2>12 DEF Last
    <3>2. Joined(FlattenSeq(lines'), line') = SubSeq(text', 1, pos')
      BY <2>8, <2>12, <2>p
    <3> QED
      BY <2>9, <2>10, <2>12, <3>1, <3>2 DEF LinesInv
  <2> QED
    BY <1>6, <2>6, <2>11, <2>12
<1> QED
  BY <1>7, <1>8 DEF TextInv

\* The last line need not have an end.
LEMMA EndOfFileKeeps == TextInv /\ EndOfFile => TextInv'
<1> SUFFICES ASSUME TextInv, EndOfFile PROVE TextInv'
  OBVIOUS
<1>1. /\ text \in Seq(Codes8) /\ pos \in 0 .. Len(text) /\ line \in Seq(Codes8)
      /\ lines \in Seq(Seq(Codes8)) /\ bufsize \in Nat /\ Len(line) + 2 <= bufsize
      /\ Len(text) \in Nat /\ Len(line) \in Nat /\ Len(lines) \in Nat
  BY LenProperties DEF TextInv, ReadInv
<1>2. text' = text /\ pos' = pos /\ pos = Len(text)
  BY DEF EndOfFile
<1>3. CASE line = <<>>
  <2>1. line' = line /\ bufsize' = bufsize /\ lines' = lines
    BY <1>3 DEF EndOfFile
  <2> QED
    BY <1>2, <2>1 DEF TextInv, ReadInv, LinesInv, IsString
<1>4. CASE line # <<>>
  <2>1. line' = <<>> /\ bufsize' = BufSize /\ lines' = Longer(lines, line)
    BY <1>4 DEF EndOfFile, Returns, Longer
  <2>2. /\ Longer(lines, line) \in Seq(Seq(Codes8)) /\ Len(Longer(lines, line)) = Len(lines) + 1
        /\ \A i \in 1 .. Len(lines) : Longer(lines, line)[i] = lines[i]
        /\ Longer(lines, line)[Len(lines) + 1] = line
    BY <1>1, LongerIs
  <2>3. line' \in Seq(Codes8) /\ Len(line') = 0
    BY <2>1, EmptySeq
  <2>4. ReadInv'
    <3>1. BufSize \in Nat /\ BufSize >= 2
      BY TextAssumption
    <3> QED
      BY <1>1, <1>2, <2>1, <2>2, <2>3, <3>1 DEF ReadInv
  <2>5. ASSUME IsString' PROVE LinesInv'
    <3>1. LinesInv
      BY <1>2, <2>5 DEF TextInv, IsString
    <3> DEFINE flat == FlattenSeq(lines)
    <3>2. Joined(FlattenSeq(lines'), line') = SubSeq(text', 1, pos')
      <4>1. flat \in Seq(Codes8)
        BY <1>1, FlattenGrows
      <4>2. FlattenSeq(Longer(lines, line)) = Joined(flat, line)
        BY <1>1, FlattenGrows
      <4>3. Joined(flat, line) = SubSeq(text, 1, pos)
        BY <3>1 DEF LinesInv
      <4> HIDE DEF flat
      <4>4. Joined(Joined(flat, line), <<>>) = Joined(flat, line)
        BY <1>1, <4>1, JoinedIs, JoinedNothing
      <4> QED
        BY <1>2, <2>1, <4>2, <4>3, <4>4
    <3>3. \A i \in 1 .. Len(lines') : (i \in 1 .. Len(lines) /\ lines'[i] = lines[i]) \/ (i = Len(lines') /\ lines'[i] = line)
      BY <1>1, <2>1, <2>2, SMTT(30)
    <3>4. \A i \in 1 .. Len(lines) : Last(lines[i]) = Newline
      BY <1>4, <3>1 DEF LinesInv
    <3>5. \A i \in 1 .. Len(lines') : \A k \in 1 .. Len(lines'[i]) : lines'[i][k] = Newline => k = Len(lines'[i])
      BY <3>1, <3>3 DEF LinesInv
    <3>6. \A i \in 1 .. Len(lines') : Last(lines'[i]) # Newline => i = Len(lines') /\ line' = <<>> /\ pos' = Len(text')
      BY <1>2, <2>1, <3>3, <3>4
    <3> QED
      BY <2>3, <3>2, <3>5, <3>6 DEF LinesInv
  <2> QED
    BY <2>4, <2>5 DEF TextInv
<1> QED
  BY <1>3, <1>4

LEMMA LinesFollow == TextInv => LinesRead
<1> SUFFICES ASSUME TextInv PROVE LinesRead
  OBVIOUS
<1>1. Len(line) \in Nat /\ Len(lines) \in Nat /\ DOMAIN lines = 1 .. Len(lines) /\ bufsize \in Nat
      /\ \A i \in 1 .. Len(lines) : DOMAIN lines[i] = 1 .. Len(lines[i])
  BY LenProperties, ElementOfSeq DEF TextInv, ReadInv
<1>2. bufsize - Len(line) >= 2
  BY <1>1 DEF TextInv, ReadInv
<1>3. ASSUME IsString
      PROVE  /\ FlattenSeq(lines) \o line = SubSeq(text, 1, pos)
             /\ \A i \in DOMAIN lines : \A k \in DOMAIN lines[i] : lines[i][k] = Newline => k = Len(lines[i])
             /\ \A i \in 1 .. Len(lines) - 1 : Last(lines[i]) = Newline
  <2>1. LinesInv
    BY <1>3 DEF TextInv
  <2>2. FlattenSeq(lines) \o line = SubSeq(text, 1, pos)
    BY <2>1 DEF LinesInv, Joined
  <2>3. \A i \in DOMAIN lines : \A k \in DOMAIN lines[i] : lines[i][k] = Newline => k = Len(lines[i])
    BY <1>1, <2>1 DEF LinesInv
  <2>4. \A i \in 1 .. Len(lines) - 1 : i \in 1 .. Len(lines) /\ i # Len(lines)
    <3>1. Len(lines) \in Nat
      BY <1>1
    <3> QED
      BY <3>1
  <2>5. \A i \in 1 .. Len(lines) : Last(lines[i]) # Newline => i = Len(lines)
    BY <2>1 DEF LinesInv
  <2> QED
    BY <2>2, <2>3, <2>4, <2>5
<1> QED
  BY <1>2, <1>3 DEF LinesRead

\* read_whole_line loses nothing, whatever the length of the lines.
THEOREM LinesReadWhole == TextSpec => []LinesRead
<1>1. TextInv /\ [TextNext]_tvars => TextInv'
  <2> SUFFICES ASSUME TextInv, [TextNext]_tvars PROVE TextInv'
    OBVIOUS
  <2>1. CASE UNCHANGED tvars
    BY <2>1 DEF tvars, TextInv, ReadInv, LinesInv, IsString
  <2> QED
    BY <2>1, FgetsKeeps, EndOfFileKeeps DEF TextNext
<1> QED
  BY <1>1, TextStarts, LinesFollow, PTL DEF TextSpec

-----------------------------------------------------------------------------
(* Text: Reading character by character                                    *)

\* What a reader has made of s: step[c] reads c.
StepsOf(step, s) == [i \in 1 .. Len(s) |-> step[s[i]]]
Folded(S, s0, step, s) == (CHOOSE f : Recurs(f, S, s0, Len(s), StepsOf(step, s)))[Len(s)]

LEMMA StepsAre ==
    ASSUME NEW S, NEW C, NEW step \in [C -> [S -> S]], NEW s \in Seq(C)
    PROVE  StepsOf(step, s) \in [1 .. Len(s) -> [S -> S]]
<1>1. \A i \in 1 .. Len(s) : s[i] \in C
  BY ElementOfSeq
<1>2. \A i \in 1 .. Len(s) : step[s[i]] \in [S -> S]
  BY <1>1
<1> QED
  BY <1>2 DEF StepsOf

\* Whatever goes through s in these steps comes to the same.
LEMMA FoldedRuns ==
    ASSUME NEW S, NEW C, NEW s0 \in S, NEW step \in [C -> [S -> S]], NEW s \in Seq(C), NEW f,
           f[0] = s0, \A i \in 1 .. Len(s) : f[i - 1] \in S => f[i] = step[s[i]][f[i - 1]]
    PROVE  f[Len(s)] = Folded(S, s0, step, s) /\ Folded(S, s0, step, s) \in S
<1> DEFINE n == Len(s)
           g == CHOOSE h : Recurs(h, S, s0, n, StepsOf(step, s))
           st == StepsOf(step, s)
<1>1. n \in Nat
  BY LenProperties
<1>2. st \in [1 .. n -> [S -> S]] /\ \A i \in 1 .. n : st[i] = step[s[i]]
  BY StepsAre DEF StepsOf
<1>3. Recurs(g, S, s0, n, st)
  <2>1. \E h : Recurs(h, S, s0, n, st)
    <3> HIDE DEF n, st
    <3> QED
      BY <1>1, <1>2, Recursion
  <2> HIDE DEF st
  <2> QED
    BY <2>1 DEF st
<1>4. Folded(S, s0, step, s) = g[n]
  BY DEF Folded
<1>5. f[0] = s0 /\ \A i \in 1 .. n : f[i - 1] \in S => f[i] = step[s[i]][f[i - 1]]
  OBVIOUS
<1> HIDE DEF n, g, st
<1>6. g \in [0 .. n -> S] /\ g[0] = s0 /\ \A i \in 1 .. n : g[i] = step[s[i]][g[i - 1]]
  BY <1>2, <1>3 DEF Recurs
<1> DEFINE P == {i \in 0 .. n : f[i] = g[i]}
<1>7. 0 \in P
  BY <1>1, <1>5, <1>6
<1>8. ASSUME NEW i \in 1 .. n, i - 1 \in P PROVE i \in P
  <2>1. i - 1 \in 0 .. n /\ i \in 0 .. n
    BY <1>1
  <2>2. f[i - 1] = g[i - 1] /\ f[i - 1] \in S
    BY <1>6, <1>8, <2>1
  <2>3. f[i] = step[s[i]][f[i - 1]] /\ g[i] = step[s[i]][g[i - 1]]
    BY <1>5, <1>6, <2>2
  <2> QED
    BY <2>1, <2>2, <2>3
<1>9. 0 .. n \subseteq P
  <2> HIDE DEF P
  <2> QED
    BY <1>1, <1>7, <1>8, Inductive
<1>10. f[n] = g[n] /\ g[n] \in S
  BY <1>1, <1>6, <1>9
<1> QED
  BY <1>4, <1>10 DEF n

GoesThrough(f, S, s0, step, s) ==
    /\ f \in [0 .. Len(s) -> S] /\ f[0] = s0
    /\ \A i \in 1 .. Len(s) : f[i] = step[s[i]][f[i - 1]]
    /\ f[Len(s)] = Folded(S, s0, step, s)

LEMMA FoldedGoes ==
    ASSUME NEW S, NEW C, NEW s0 \in S, NEW step \in [C -> [S -> S]], NEW s \in Seq(C)
    PROVE  \E f : GoesThrough(f, S, s0, step, s)
<1> DEFINE n == Len(s)
           st == StepsOf(step, s)
<1>1. n \in Nat
  BY LenProperties
<1>2. st \in [1 .. n -> [S -> S]] /\ \A i \in 1 .. n : st[i] = step[s[i]]
  BY StepsAre DEF StepsOf
<1> HIDE DEF n, st
<1>3. PICK f : Recurs(f, S, s0, n, st)
  BY <1>1, <1>2, Recursion
<1>4. f \in [0 .. n -> S] /\ f[0] = s0 /\ \A i \in 1 .. n : f[i] = step[s[i]][f[i - 1]]
  BY <1>2, <1>3 DEF Recurs
<1>5. f[n] = Folded(S, s0, step, s)
  BY <1>4, FoldedRuns, SMTT(30) DEF n
<1> QED
  BY <1>4, <1>5 DEF n, GoesThrough

LEMMA FoldedNothing ==
    ASSUME NEW S, NEW C, NEW s0 \in S, NEW step \in [C -> [S -> S]]
    PROVE  Folded(S, s0, step, <<>>) = s0
<1> DEFINE e == <<>>
<1>1. e \in Seq(C)
  BY EmptySeq
<1>2. Len(e) = 0
  OBVIOUS
<1> HIDE DEF e
<1>3. PICK f : GoesThrough(f, S, s0, step, e)
  BY FoldedGoes, <1>1
<1>4. Folded(S, s0, step, e) = s0
  BY <1>2, <1>3 DEF GoesThrough
<1> QED
  BY <1>4 DEF e

LEMMA FoldedIn ==
    ASSUME NEW S, NEW C, NEW s0 \in S, NEW step \in [C -> [S -> S]], NEW s \in Seq(C)
    PROVE  Folded(S, s0, step, s) \in S
<1>1. PICK f : GoesThrough(f, S, s0, step, s)
  BY FoldedGoes
<1>2. Len(s) \in 0 .. Len(s)
  BY LenProperties
<1> QED
  BY <1>1, <1>2 DEF GoesThrough

LEMMA FoldedGrows ==
    ASSUME NEW S, NEW C, NEW s0 \in S, NEW step \in [C -> [S -> S]], NEW s \in Seq(C), NEW c \in C
    PROVE  Folded(S, s0, step, Longer(s, c)) = step[c][Folded(S, s0, step, s)]
<1> DEFINE u == Longer(s, c)
           n == Len(s)
<1>1. u \in Seq(C) /\ Len(u) = n + 1 /\ (\A i \in 1 .. n : u[i] = s[i]) /\ u[n + 1] = c
  <2>1. u \in Seq(C) /\ Len(u) = n + 1 /\ u[n + 1] = c
    BY LongerIs
  <2>2. ASSUME NEW i \in 1 .. n PROVE u[i] = s[i]
    BY LongerIs
  <2> QED
    BY <2>1, <2>2
<1>2. n \in Nat
  BY LenProperties
<1> HIDE DEF u
<1>a. u \in Seq(C)
  BY <1>1
<1>b. PICK g : GoesThrough(g, S, s0, step, u)
  BY FoldedGoes, <1>a
<1>3. /\ g \in [0 .. Len(u) -> S] /\ g[0] = s0
      /\ \A i \in 1 .. Len(u) : g[i] = step[u[i]][g[i - 1]]
      /\ g[Len(u)] = Folded(S, s0, step, u)
  BY <1>b DEF GoesThrough
<1>4. \A i \in 1 .. n : g[i] = step[s[i]][g[i - 1]]
  <2>1. \A i \in 1 .. n : i \in 1 .. n + 1
    BY <1>2
  <2> QED
    BY <1>1, <1>3, <2>1
<1>5. g[n] = Folded(S, s0, step, s)
  <2>1. g[0] = s0 /\ \A i \in 1 .. n : g[i - 1] \in S => g[i] = step[s[i]][g[i - 1]]
    BY <1>3, <1>4
  <2> QED
    BY <2>1, FoldedRuns
<1>6. n + 1 \in 1 .. n + 1 /\ (n + 1) - 1 = n
  BY <1>2
<1> HIDE DEF n
<1>7. g[n + 1] = step[u[n + 1]][g[(n + 1) - 1]]
  BY <1>1, <1>3, <1>6
<1> QED
  BY <1>1, <1>3, <1>5, <1>6, <1>7 DEF u

LEMMA FoldedJoined ==
    ASSUME NEW S, NEW C, NEW s0 \in S, NEW step \in [C -> [S -> S]], NEW a \in Seq(C), NEW b \in Seq(C)
    PROVE  Folded(S, s0, step, Joined(a, b)) = Folded(S, Folded(S, s0, step, a), step, b)
<1> DEFINE m == Folded(S, s0, step, a)
           P == {x \in Seq(C) : Folded(S, s0, step, Joined(a, x)) = Folded(S, m, step, x)}
<1>1. m \in S
  BY FoldedIn
<1>2. <<>> \in P
  <2>1. Joined(a, <<>>) = a /\ <<>> \in Seq(C)
    BY JoinedNothing, EmptySeq
  <2> HIDE DEF m
  <2>2. Folded(S, m, step, <<>>) = m
    BY <1>1, FoldedNothing
  <2> QED
    BY <2>1, <2>2 DEF m
<1> HIDE DEF m
<1>3. ASSUME NEW x \in Seq(C), NEW c \in C, x \in P PROVE Longer(x, c) \in P
  <2>1. Longer(x, c) \in Seq(C) /\ Joined(a, x) \in Seq(C)
    BY LongerIs, JoinedIs
  <2>2. Joined(a, Longer(x, c)) = Longer(Joined(a, x), c)
    BY AppendBehind
  <2>3. Folded(S, s0, step, Longer(Joined(a, x), c)) = step[c][Folded(S, s0, step, Joined(a, x))]
    <3> DEFINE y == Joined(a, x)
    <3>1. y \in Seq(C) /\ c \in C
      BY <2>1
    <3> HIDE DEF P, y
    <3>2. Folded(S, s0, step, Longer(y, c)) = step[c][Folded(S, s0, step, y)]
      BY <3>1, FoldedGrows, SMTT(30)
    <3> QED
      BY <3>2 DEF y
  <2>4. Folded(S, m, step, Longer(x, c)) = step[c][Folded(S, m, step, x)]
    BY <1>1, FoldedGrows
  <2> QED
    BY <1>3, <2>1, <2>2, <2>3, <2>4
<1>4. Seq(C) \subseteq P
  <2> HIDE DEF P
  <2> QED
    BY <1>2, <1>3, ByGrowth
<1> QED
  BY <1>4 DEF m

-----------------------------------------------------------------------------
(* Text: Percent coding                                                    *)

\* A text whose characters are spelled out.
Spelled(esc, s) == FlattenSeq([i \in DOMAIN s |-> esc[s[i]]])

LEMMA SpelledNothing == \A esc : Spelled(esc, <<>>) = <<>>
<1> TAKE esc
<1>1. [i \in DOMAIN <<>> |-> esc[<<>>[i]]] = <<>>
  OBVIOUS
<1> QED
  BY <1>1, FlattenGrows DEF Spelled

LEMMA SpelledGrows ==
    ASSUME NEW C, NEW D, NEW esc \in [C -> Seq(D)], NEW s \in Seq(C), NEW c \in C
    PROVE  /\ Spelled(esc, s) \in Seq(D)
           /\ Spelled(esc, Longer(s, c)) = Joined(Spelled(esc, s), esc[c])
<1> DEFINE n == Len(s)
           m == [i \in DOMAIN s |-> esc[s[i]]]
           t == Longer(s, c)
           l == [i \in DOMAIN t |-> esc[t[i]]]
           T == Seq(D)
           e == esc[c]
<1>1. n \in Nat /\ DOMAIN s = 1 .. n /\ \A i \in 1 .. n : s[i] \in C
  BY LenProperties, ElementOfSeq
<1>2. t \in Seq(C) /\ Len(t) = n + 1 /\ t[n + 1] = c
  BY LongerIs
<1>3. ASSUME NEW i \in 1 .. n PROVE t[i] = s[i]
  BY LongerIs
<1>4. DOMAIN t = 1 .. n + 1
  BY <1>2, LenProperties
<1>5. m \in Seq(T) /\ Len(m) = n /\ \A i \in 1 .. n : m[i] = esc[s[i]]
  <2>1. \A i \in 1 .. n : esc[s[i]] \in T
    BY <1>1
  <2>2. m \in [1 .. n -> T]
    <3> HIDE DEF T, n
    <3> QED
      BY <1>1, <2>1
  <2> HIDE DEF m
  <2>3. m \in Seq(T) /\ Len(m) = n
    <3> HIDE DEF n, T
    <3> QED
      BY <1>1, <2>2
  <2>4. \A i \in 1 .. n : m[i] = esc[s[i]]
    BY <1>1 DEF m
  <2> QED
    BY <2>3, <2>4
<1>6. e \in T
  OBVIOUS
<1>7. l = Longer(m, e)
  <2> HIDE DEF m, T, e
  <2>1. Longer(m, e) \in Seq(T) /\ Len(Longer(m, e)) = Len(m) + 1 /\ Longer(m, e)[Len(m) + 1] = e
    BY <1>5, <1>6, LongerIs, ZenonT(40)
  <2>2. ASSUME NEW i \in 1 .. n PROVE Longer(m, e)[i] = m[i]
    <3>1. m \in Seq(T) /\ i \in 1 .. Len(m)
      BY <1>5
    <3> QED
      BY <1>6, <3>1, LongerIs
  <2> DEFINE z == Longer(m, e)
  <2>3. z \in Seq(T) /\ Len(z) = n + 1 /\ z[n + 1] = e /\ \A i \in 1 .. n : z[i] = m[i]
    BY <1>5, <2>1, <2>2
  <2>4. DOMAIN z = 1 .. n + 1 /\ z = [i \in 1 .. n + 1 |-> z[i]]
    <3> HIDE DEF z, n
    <3> QED
      BY <2>3, LenProperties
  <2> HIDE DEF z, n, t
  <2>5. \A i \in 1 .. n + 1 : z[i] = esc[t[i]]
    <3> TAKE i \in 1 .. n + 1
    <3>1. CASE i = n + 1
      BY <1>1, <1>2, <2>3, <3>1 DEF e
    <3>2. CASE i # n + 1
      <4>1. i \in 1 .. n
        BY <1>1, <3>2
      <4> QED
        BY <1>3, <1>5, <2>3, <4>1
    <3> QED
      BY <3>1, <3>2
  <2>6. l = [i \in 1 .. n + 1 |-> esc[t[i]]]
    BY <1>4
  <2>7. l = z
    BY <2>4, <2>5, <2>6
  <2> QED
    BY <2>7 DEF z
<1>8. FlattenSeq(m) \in T
  <2> HIDE DEF m
  <2> QED
    BY <1>5, FlattenGrows
<1>9. FlattenSeq(Longer(m, e)) = Joined(FlattenSeq(m), e)
  <2> HIDE DEF m, e
  <2> QED
    BY <1>5, <1>6, FlattenGrows
<1> HIDE DEF t, l, m, e
<1>10. Spelled(esc, s) = FlattenSeq(m) /\ Spelled(esc, t) = FlattenSeq(l)
  BY DEF Spelled, m, l
<1> QED
  BY <1>7, <1>8, <1>9, <1>10 DEF t, e

\* What has been decoded, and how much of a code is to be skipped.
Codings == [left : Nat, dest : Seq(Codes8)]
Coding(left, dest) == [left |-> left, dest |-> dest]

\* f decodes s.
Decodes(f, s, plus) ==
    /\ f \in [0 .. Len(s) -> Codings] /\ f[0] = Coding(0, <<>>)
    /\ \A i \in 1 .. Len(s) : f[i] = NextCoded(s, plus, f[i - 1], i)

LEMMA HexIs == \A c \in Codes8 : HexValue(c) \in -1 .. 15
  BY DEF HexValue, Codes8

LEMMA CodingIs ==
    \A v \in Codings : v = Coding(v.left, v.dest) /\ v.left \in Nat /\ v.dest \in Seq(Codes8)
  BY DEF Codings, Coding

LEMMA NextCodedIs ==
    ASSUME NEW s \in Seq(Codes8), NEW plus \in Codes8, NEW left \in Nat, NEW dest \in Seq(Codes8), NEW i \in 1 .. Len(s)
    PROVE  /\ NextCoded(s, plus, Coding(left, dest), i) \in Codings
           /\ left > 0 => NextCoded(s, plus, Coding(left, dest), i) = Coding(left - 1, dest)
           /\ left = 0 /\ IsCode(s, i) =>
                 NextCoded(s, plus, Coding(left, dest), i) = Coding(2, Longer(dest, php_htoi(s[i + 1], s[i + 2])))
           /\ left = 0 /\ ~ IsCode(s, i) =>
                 NextCoded(s, plus, Coding(left, dest), i) = Coding(0, Longer(dest, IF s[i] = Plus THEN plus ELSE s[i]))
<1> DEFINE y == NextCoded(s, plus, Coding(left, dest), i)
<1>1. CASE left > 0
  <2>1. y = Coding(left - 1, dest)
    BY <1>1 DEF NextCoded, Coding
  <2>2. left - 1 \in Nat
    BY <1>1
  <2> QED
    BY <1>1, <2>1, <2>2 DEF Codings, Coding
<1>2. CASE left = 0 /\ IsCode(s, i)
  <2> DEFINE c == php_htoi(s[i + 1], s[i + 2])
  <2>1. y = Coding(2, Longer(dest, c))
    BY <1>2 DEF NextCoded, Coding, Longer
  <2>2. c \in Codes8
    <3>1. i + 1 \in 1 .. Len(s) /\ i + 2 \in 1 .. Len(s)
      BY <1>2, LenProperties DEF IsCode
    <3>2. s[i + 1] \in Codes8 /\ s[i + 2] \in Codes8
      BY <3>1, ElementOfSeq
    <3> DEFINE a == HexValue(s[i + 1])
               b == HexValue(s[i + 2])
    <3>3. a \in 0 .. 15 /\ b \in 0 .. 15
      <4>1. a \in -1 .. 15 /\ b \in -1 .. 15
        BY <3>2, HexIs
      <4>2. a >= 0 /\ b >= 0
        BY <1>2 DEF IsCode
      <4> HIDE DEF a, b
      <4> QED
        BY <4>1, <4>2
    <3>4. c = a * 16 + b
      BY DEF php_htoi
    <3> HIDE DEF a, b, c
    <3> QED
      BY <3>3, <3>4 DEF Codes8
  <2> HIDE DEF c
  <2>3. Longer(dest, c) \in Seq(Codes8)
    BY <2>2, LongerIs
  <2>4. y \in Codings
    BY <2>1, <2>3 DEF Codings, Coding
  <2> QED
    BY <1>2, <2>1, <2>4 DEF c
<1>3. CASE left = 0 /\ ~ IsCode(s, i)
  <2> DEFINE c == IF s[i] = Plus THEN plus ELSE s[i]
  <2>1. y = Coding(0, Longer(dest, c))
    <3> DEFINE v == Coding(left, dest)
    <3>1. v.left = 0 /\ v.dest = dest
      BY <1>3 DEF Coding
    <3>2. \A d : [v EXCEPT !.dest = d] = Coding(0, d)
      BY <1>3 DEF Coding
    <3> HIDE DEF v
    <3>3. NextCoded(s, plus, v, i) = [v EXCEPT !.dest = Append(v.dest, c)]
      BY <1>3, <3>1 DEF NextCoded
    <3> HIDE DEF c
    <3>4. NextCoded(s, plus, v, i) = Coding(0, Longer(dest, c))
      BY <3>1, <3>2, <3>3 DEF Longer
    <3> QED
      BY <3>4 DEF v
  <2>2. c \in Codes8
    BY ElementOfSeq
  <2> HIDE DEF c
  <2>3. Longer(dest, c) \in Seq(Codes8)
    BY <2>2, LongerIs
  <2>4. y \in Codings
    BY <2>1, <2>3 DEF Codings, Coding
  <2> QED
    BY <1>3, <2>1, <2>4 DEF c
<1> QED
  BY <1>1, <1>2, <1>3

LEMMA DecodedRuns ==
    ASSUME NEW s \in Seq(Codes8), NEW plus \in Codes8
    PROVE  \E f : Decodes(f, s, plus) /\ Decoded(s, plus) = f[Len(s)].dest
<1> DEFINE N == Len(s)
           S == Codings
           start == Coding(0, <<>>)
           Body(f) == [i \in 0 .. N |-> IF i = 0 THEN start ELSE NextCoded(s, plus, f[i - 1], i)]
           f0 == CHOOSE f : f = Body(f)
           step == [i \in 1 .. N |-> [x \in S |-> NextCoded(s, plus, x, i)]]
<1>1. N \in Nat
  BY LenProperties
<1>2. Decoded(s, plus) = f0[N].dest
  BY DEF Decoded, Coding
<1>4. start \in S
  BY EmptySeq DEF Coding, Codings
<1>5. ASSUME NEW i \in 1 .. N, NEW x \in S PROVE NextCoded(s, plus, x, i) \in S
  <2>1. x = Coding(x.left, x.dest) /\ x.left \in Nat /\ x.dest \in Seq(Codes8)
    BY CodingIs
  <2> DEFINE a == x.left
             b == x.dest
  <2>2. a \in Nat /\ b \in Seq(Codes8) /\ x = Coding(a, b)
    BY <2>1
  <2> HIDE DEF a, b
  <2>3. NextCoded(s, plus, Coding(a, b), i) \in Codings
    BY <2>2, NextCodedIs
  <2> QED
    BY <2>2, <2>3
<1>6. step \in [1 .. N -> [S -> S]]
  <2> HIDE DEF S, N
  <2> QED
    BY <1>5
<1>7. \E f : Recurs(f, S, start, N, step)
  <2> HIDE DEF S, N, step, start
  <2> QED
    BY <1>1, <1>4, <1>6, Recursion, Zenon
<1> HIDE DEF start
<1>8. PICK g : g \in [0 .. N -> S] /\ g[0] = start /\ \A i \in 1 .. N : g[i] = NextCoded(s, plus, g[i - 1], i)
  <2> PICK g : Recurs(g, S, start, N, step)
    BY <1>7
  <2> HIDE DEF S, N
  <2>1. g \in [0 .. N -> S] /\ g[0] = start /\ \A i \in 1 .. N : g[i] = step[i][g[i - 1]]
    BY DEF Recurs
  <2>2. ASSUME NEW i \in 1 .. N PROVE g[i] = NextCoded(s, plus, g[i - 1], i)
    <3>1. i - 1 \in 0 .. N
      BY <1>1
    <3>2. g[i - 1] \in S
      BY <3>1, <2>1
    <3> QED
      BY <2>1, <3>2
  <2> QED
    BY <2>1, <2>2
<1>9. Decodes(f0, s, plus)
  <2> HIDE DEF S, N
  <2>1. g = Body(g)
    <3>1. \A i \in 0 .. N : i # 0 => i \in 1 .. N
      BY <1>1
    <3> QED
      BY <1>8, <3>1
  <2>2. f0 = Body(f0)
    <3> HIDE DEF Body
    <3> QED
      BY <2>1
  <2> HIDE DEF f0
  <2>3. DOMAIN f0 = 0 .. N
    BY <2>2
  <2>4. f0[0] = start
    <3>1. 0 \in 0 .. N
      BY <1>1
    <3> QED
      BY <2>2, <3>1
  <2>5. ASSUME NEW i \in 1 .. N PROVE f0[i] = NextCoded(s, plus, f0[i - 1], i)
    <3>1. i \in 0 .. N /\ i # 0
      BY <1>1
    <3> QED
      BY <2>2, <3>1
  <2>6. \A i \in 0 .. N : f0[i] \in S
    <3> DEFINE P == {i \in 0 .. N : f0[i] \in S}
    <3>1. 0 \in P
      BY <2>4, <1>1, <1>4
    <3>2. \A i \in 1 .. N : i - 1 \in P => i \in P
      BY <2>5, <1>5, <1>1
    <3>3. 0 .. N \subseteq P
      <4> HIDE DEF P
      <4> QED
        BY <1>1, <3>1, <3>2, Inductive
    <3> QED
      BY <3>3
  <2>7. f0 \in [0 .. N -> S]
    BY <2>2, <2>3, <2>6
  <2> QED
    BY <2>4, <2>5, <2>7 DEF Decodes, N, S, start
<1> HIDE DEF f0
<1> QED
  BY <1>2, <1>9

\* What a character is spelled as stands for it alone, wherever it is.
Undone(esc, plus) ==
    \A c \in Codes8 :
       \/ \E d \in Codes8 : esc[c] = <<d>> /\ d # Percent /\ c = IF d = Plus THEN plus ELSE d
       \/ \E a, b \in Codes8 :
             esc[c] = <<Percent, a, b>> /\ HexValue(a) >= 0 /\ HexValue(b) >= 0 /\ php_htoi(a, b) = c

\* u is in e behind p.
IsBehind(u, e, p) == p + Len(u) <= Len(e) /\ \A k \in 1 .. Len(u) : e[p + k] = u[k]

\* f decodes e, and has read t when it is at p.
HasRead(f, e, plus, p, t) ==
    /\ e \in Seq(Codes8) /\ plus \in Codes8 /\ p \in Nat /\ t \in Seq(Codes8)
    /\ Decodes(f, e, plus) /\ f[p] = Coding(0, t)

LEMMA DecodesOne ==
    ASSUME NEW esc \in [Codes8 -> Seq(Codes8)], NEW plus, NEW e, NEW f, NEW p, NEW t, NEW c \in Codes8,
           Undone(esc, plus), HasRead(f, e, plus, p, t), IsBehind(esc[c], e, p)
    PROVE  HasRead(f, e, plus, p + Len(esc[c]), Longer(t, c))
<1>0. /\ e \in Seq(Codes8) /\ plus \in Codes8 /\ p \in Nat /\ t \in Seq(Codes8)
      /\ Decodes(f, e, plus) /\ f[p] = Coding(0, t)
  BY DEF HasRead
<1>e. e \in Seq(Codes8)
  BY <1>0
<1>p. plus \in Codes8
  BY <1>0
<1>t. t \in Seq(Codes8)
  BY <1>0
<1>n. p \in Nat
  BY <1>0
<1>1. \A i \in 1 .. Len(e) : f[i] = NextCoded(e, plus, f[i - 1], i)
  BY <1>0 DEF Decodes
<1>b. p + Len(esc[c]) <= Len(e) /\ \A k \in 1 .. Len(esc[c]) : e[p + k] = esc[c][k]
  BY DEF IsBehind
<1>2. Len(e) \in Nat /\ p \in Nat /\ f[p] = Coding(0, t)
  BY <1>0, LenProperties
<1>3. ASSUME NEW d \in Codes8, esc[c] = <<d>>, d # Percent, c = IF d = Plus THEN plus ELSE d
      PROVE  f[p + Len(esc[c])] = Coding(0, Longer(t, c))
  <2>1. Len(esc[c]) = 1 /\ e[p + 1] = d /\ p + 1 <= Len(e)
    BY <1>3, <1>b
  <2>2. p + 1 \in 1 .. Len(e) /\ (p + 1) - 1 = p
    BY <1>2, <2>1
  <2> DEFINE q == p + 1
  <2>3. q \in 1 .. Len(e) /\ e[q] = d /\ f[q] = NextCoded(e, plus, Coding(0, t), q)
    BY <1>1, <1>2, <2>1, <2>2
  <2> HIDE DEF q
  <2>4. ~ IsCode(e, q)
    BY <1>3, <2>3 DEF IsCode
  <2>n. 0 \in Nat /\ q \in 1 .. Len(e)
    BY <2>3
  <2>i. 0 = 0 /\ ~ IsCode(e, q) =>
          NextCoded(e, plus, Coding(0, t), q) = Coding(0, Longer(t, IF e[q] = Plus THEN plus ELSE e[q]))
    BY <2>n, <1>e, <1>p, <1>t, NextCodedIs, SMTT(30)
  <2>5. NextCoded(e, plus, Coding(0, t), q) = Coding(0, Longer(t, IF e[q] = Plus THEN plus ELSE e[q]))
    BY <2>i, <2>4
  <2>6. (IF e[q] = Plus THEN plus ELSE e[q]) = c
    BY <1>3, <2>3
  <2>7. f[q] = Coding(0, Longer(t, c))
    BY <2>3, <2>5, <2>6, Zenon
  <2> QED
    BY <2>1, <2>7 DEF q
<1>4. ASSUME NEW a \in Codes8, NEW b \in Codes8,
             esc[c] = <<Percent, a, b>>, HexValue(a) >= 0, HexValue(b) >= 0, php_htoi(a, b) = c
      PROVE  f[p + Len(esc[c])] = Coding(0, Longer(t, c))
  <2>1. Len(esc[c]) = 3 /\ e[p + 1] = Percent /\ e[p + 2] = a /\ e[p + 3] = b /\ p + 3 <= Len(e)
    <3> DEFINE u == esc[c]
    <3>1. Len(u) = 3 /\ u[1] = Percent /\ u[2] = a /\ u[3] = b
      BY <1>4
    <3>2. p + Len(u) <= Len(e) /\ \A k \in 1 .. Len(u) : e[p + k] = u[k]
      BY <1>b
    <3> HIDE DEF u
    <3>3. e[p + 1] = u[1] /\ e[p + 2] = u[2] /\ e[p + 3] = u[3] /\ p + 3 <= Len(e)
      BY <3>1, <3>2
    <3> QED
      BY <3>1, <3>3 DEF u
  <2> DEFINE q == p + 1
  <2>2. q \in 1 .. Len(e) /\ q - 1 = p /\ q + 1 \in 1 .. Len(e) /\ q + 1 - 1 = q /\ q + 2 \in 1 .. Len(e) /\ q + 2 - 1 = q + 1
        /\ q + 1 = p + 2 /\ q + 2 = p + 3
    BY <1>2, <2>1
  <2>3. e[q] = Percent /\ e[q + 1] = a /\ e[q + 2] = b
    BY <2>1, <2>2
  <2> HIDE DEF q
  <2>q. q \in 1 .. Len(e)
    BY <2>2
  <2>r. q + 1 \in 1 .. Len(e)
    BY <2>2
  <2>s. q + 2 \in 1 .. Len(e)
    BY <2>2
  <2>4. IsCode(e, q)
    BY <1>2, <1>4, <2>2, <2>3 DEF IsCode
  <2> DEFINE u == Longer(t, c)
  <2>5. u \in Seq(Codes8)
    BY <1>t, LongerIs
  <2>6. f[q] = Coding(2, u)
    <3>1. NextCoded(e, plus, Coding(0, t), q) = Coding(2, Longer(t, php_htoi(e[q + 1], e[q + 2])))
      BY <2>q, <2>4, <1>e, <1>p, <1>t, NextCodedIs
    <3>2. php_htoi(e[q + 1], e[q + 2]) = c
      BY <1>4, <2>3
    <3> HIDE DEF u
    <3>3. f[q] = NextCoded(e, plus, f[p], q)
      BY <1>1, <2>2
    <3> QED
      BY <1>2, <3>1, <3>2, <3>3, Zenon DEF u
  <2> HIDE DEF u
  <2>7. f[q + 1] = Coding(1, u)
    <3>1. f[q + 1] = NextCoded(e, plus, f[q], q + 1)
      BY <1>1, <2>2
    <3>2. NextCoded(e, plus, Coding(2, u), q + 1) = Coding(2 - 1, u)
      BY <2>r, <2>5, <1>e, <1>p, <1>t, NextCodedIs
    <3>3. 2 - 1 = 1
      OBVIOUS
    <3> QED
      BY <2>6, <3>1, <3>2, <3>3
  <2>8. f[q + 2] = Coding(0, u)
    <3>1. f[q + 2] = NextCoded(e, plus, f[q + 1], q + 2)
      BY <1>1, <2>2
    <3>2. NextCoded(e, plus, Coding(1, u), q + 2) = Coding(1 - 1, u)
      BY <2>s, <2>5, <1>e, <1>p, <1>t, NextCodedIs
    <3>3. 1 - 1 = 0
      OBVIOUS
    <3> QED
      BY <2>7, <3>1, <3>2, <3>3
  <2> QED
    BY <2>1, <2>2, <2>8 DEF u
<1>5. f[p + Len(esc[c])] = Coding(0, Longer(t, c))
  BY <1>3, <1>4 DEF Undone
<1>6. Longer(t, c) \in Seq(Codes8) /\ p + Len(esc[c]) \in Nat
  BY <1>n, <1>t, LongerIs, LenProperties
<1> QED
  BY <1>0, <1>5, <1>6 DEF HasRead

\* What has been spelled out is decoded, whatever follows it.
LEMMA SpelledDecoded ==
    ASSUME NEW esc \in [Codes8 -> Seq(Codes8)], NEW plus \in Codes8, NEW s \in Seq(Codes8), Undone(esc, plus)
    PROVE  Decoded(Spelled(esc, s), plus) = s
<1> DEFINE C == Codes8
           P == {x \in Seq(C) : \A y \in Seq(C) : \A f :
                    Decodes(f, Joined(Spelled(esc, x), y), plus) => f[Len(Spelled(esc, x))] = Coding(0, x)}
<1>0. \A x \in Seq(C) : Spelled(esc, x) \in Seq(C)
  <2>1. 0 \in C
    BY DEF Codes8
  <2> QED
    BY <2>1, SpelledGrows
<1>1. <<>> \in P
  <2>1. <<>> \in Seq(C) /\ Len(<<>>) = 0 /\ Spelled(esc, <<>>) = <<>>
    BY EmptySeq, SpelledNothing
  <2>2. ASSUME NEW y \in Seq(C), NEW f, Decodes(f, Joined(Spelled(esc, <<>>), y), plus)
        PROVE  f[Len(Spelled(esc, <<>>))] = Coding(0, <<>>)
    BY <2>1, <2>2 DEF Decodes
  <2> QED
    BY <2>1, <2>2
<1>2. ASSUME NEW x \in Seq(C), NEW c \in C, x \in P PROVE Longer(x, c) \in P
  <2> DEFINE w == Spelled(esc, x)
             u == esc[c]
             z == Spelled(esc, Longer(x, c))
  <2>1. w \in Seq(C) /\ u \in Seq(C) /\ Longer(x, c) \in Seq(C)
    BY <1>0, LongerIs
  <2>2. z = Joined(w, u)
    BY SpelledGrows, SMTT(30)
  <2>p. \A y \in Seq(C) : \A f : Decodes(f, Joined(w, y), plus) => f[Len(w)] = Coding(0, x)
    BY <1>2
  <2> HIDE DEF w, z, u
  <2>3. ASSUME NEW y \in Seq(C), NEW f, Decodes(f, Joined(z, y), plus)
        PROVE  f[Len(z)] = Coding(0, Longer(x, c))
    <3> DEFINE v == Joined(u, y)
               e == Joined(w, v)
    <3>1. v \in Seq(C) /\ Len(v) = Len(u) + Len(y)
      BY <2>1, JoinedIs
    <3>2. \A k \in 1 .. Len(u) : v[k] = u[k]
      <4>1. u \in Seq(C)
        BY <2>1
      <4> TAKE k \in 1 .. Len(u)
      <4> QED
        BY <4>1, JoinedIs
    <3>3. e = Joined(z, y)
      <4>1. Joined(Joined(w, u), y) = Joined(w, Joined(u, y))
        BY <2>1, JoinedTwice
      <4> QED
        BY <2>2, <4>1
    <3> HIDE DEF v
    <3>v. v \in Seq(C)
      BY <3>1
    <3>w. w \in Seq(C)
      BY <2>1
    <3>4. e \in Seq(C) /\ Len(e) = Len(w) + Len(v)
      BY <2>1, <3>v, JoinedIs
    <3>5. \A k \in 1 .. Len(v) : e[Len(w) + k] = v[k]
      <4> TAKE k \in 1 .. Len(v)
      <4> QED
        BY <3>w, <3>v, JoinedIs
    <3>6. Decodes(f, e, plus)
      BY <2>3, <3>3
    <3>7. f[Len(w)] = Coding(0, x)
      BY <2>p, <3>v, <3>6
    <3> HIDE DEF e
    <3>8. Len(w) \in Nat /\ Len(u) \in Nat /\ Len(y) \in Nat /\ Len(z) = Len(w) + Len(u)
      <4>1. Len(Joined(w, u)) = Len(w) + Len(u)
        BY <2>1, JoinedIs
      <4> QED
        BY <2>1, <2>2, <4>1, LenProperties
    <3>9. Len(w) + Len(u) <= Len(e) /\ \A k \in 1 .. Len(u) : e[Len(w) + k] = u[k]
      <4>1. \A k \in 1 .. Len(u) : k \in 1 .. Len(v)
        BY <3>1, <3>8
      <4>2. \A k \in 1 .. Len(u) : e[Len(w) + k] = u[k]
        BY <3>2, <3>5, <4>1
      <4>3. Len(w) + Len(u) <= Len(e)
        BY <3>1, <3>4, <3>8
      <4> QED
        BY <4>2, <4>3
    <3>10. f[Len(w) + Len(u)] = Coding(0, Longer(x, c))
      <4> DEFINE p == Len(w)
      <4>1. IsBehind(esc[c], e, p)
        BY <3>9 DEF u, IsBehind
      <4>2. p \in Nat
        BY <3>8
      <4>3. f[p] = Coding(0, x)
        BY <3>7
      <4>4. e \in Seq(Codes8)
        BY <3>4
      <4> HIDE DEF p
      <4>5. f[p + Len(esc[c])] = Coding(0, Longer(x, c))
        <5>1. HasRead(f, e, plus, p, x)
          BY <3>6, <4>2, <4>3, <4>4 DEF HasRead
        <5>2. HasRead(f, e, plus, p + Len(esc[c]), Longer(x, c))
          BY <4>1, <5>1, DecodesOne
        <5> QED
          BY <5>2 DEF HasRead
      <4> QED
        BY <4>5 DEF u, p
    <3> QED
      BY <3>8, <3>10
  <2> QED
    BY <2>1, <2>3 DEF z
<1>3. Seq(C) \subseteq P
  <2> HIDE DEF P, C
  <2> QED
    BY <1>1, <1>2, ByGrowth
<1> DEFINE w == Spelled(esc, s)
<1>4. w \in Seq(C)
  BY <1>0
<1>5. \A y \in Seq(C) : \A f : Decodes(f, Joined(w, y), plus) => f[Len(w)] = Coding(0, s)
  BY <1>3
<1> HIDE DEF w
<1>6. Joined(w, <<>>) = w /\ <<>> \in Seq(C)
  BY <1>4, JoinedNothing, EmptySeq
<1>7. PICK f : Decodes(f, w, plus) /\ Decoded(w, plus) = f[Len(w)].dest
  BY <1>4, DecodedRuns
<1>8. f[Len(w)] = Coding(0, s)
  BY <1>5, <1>6, <1>7
<1>9. Coding(0, s).dest = s
  BY DEF Coding
<1> QED
  BY <1>7, <1>8, <1>9 DEF w

RawSpelling == [c \in Codes8 |-> Escape(c)]
UrlSpelling == [c \in Codes8 |-> IF c = Space THEN <<Plus>> ELSE Escape(c)]

LEMMA HexDigits == \A n \in 0 .. 15 : HexChar(n) \in Codes8 /\ HexValue(HexChar(n)) = n /\ HexChar(n) \in 48 .. 57 \cup 65 .. 70
  BY DEF HexChar, HexValue, Codes8

LEMMA EscapeIs ==
    ASSUME NEW c \in Codes8
    PROVE  /\ Escape(c) \in Seq(Codes8)
           /\ \/ Escape(c) = <<c>> /\ ~ Escaped(c)
              \/ \E a, b \in Codes8 :
                    /\ Escape(c) = <<Percent, a, b>> /\ HexValue(a) >= 0 /\ HexValue(b) >= 0 /\ php_htoi(a, b) = c
                    /\ a \in 48 .. 57 \cup 65 .. 70 /\ b \in 48 .. 57 \cup 65 .. 70
<1>1. CASE ~ Escaped(c)
  BY <1>1 DEF Escape
<1>2. CASE Escaped(c)
  <2> DEFINE m == c \div 16
             n == c % 16
             a == HexChar(m)
             b == HexChar(n)
  <2>1. m \in 0 .. 15 /\ n \in 0 .. 15 /\ m * 16 + n = c
    BY DEF Codes8
  <2> HIDE DEF m, n
  <2>2. a \in Codes8 /\ b \in Codes8 /\ HexValue(a) = m /\ HexValue(b) = n /\ a \in 48 .. 57 \cup 65 .. 70 /\ b \in 48 .. 57 \cup 65 .. 70
    BY <2>1, HexDigits
  <2>3. Escape(c) = <<Percent, a, b>>
    BY <1>2 DEF Escape, m, n
  <2> HIDE DEF a, b
  <2>4. php_htoi(a, b) = c /\ HexValue(a) >= 0 /\ HexValue(b) >= 0
    BY <2>1, <2>2 DEF php_htoi
  <2>5. Percent \in Codes8
    BY DEF Percent, Codes8
  <2>6. <<Percent, a, b>> \in Seq(Codes8)
    BY <2>2, <2>5
  <2> QED
    BY <2>2, <2>3, <2>4, <2>6
<1> QED
  BY <1>1, <1>2

LEMMA SpellingsUndone ==
    /\ RawSpelling \in [Codes8 -> Seq(Codes8)] /\ Undone(RawSpelling, Plus)
    /\ UrlSpelling \in [Codes8 -> Seq(Codes8)] /\ Undone(UrlSpelling, Space)
<1>1. Plus \in Codes8 /\ Space \in Codes8 /\ Plus # Percent /\ Plus # Space /\ Escaped(Plus) /\ Escaped(Percent)
  BY DEF Plus, Space, Percent, Codes8, Escaped
<1>2. ASSUME NEW c \in Codes8
      PROVE  \/ \E d \in Codes8 : RawSpelling[c] = <<d>> /\ d # Percent /\ c = IF d = Plus THEN Plus ELSE d
             \/ \E a, b \in Codes8 :
                   RawSpelling[c] = <<Percent, a, b>> /\ HexValue(a) >= 0 /\ HexValue(b) >= 0 /\ php_htoi(a, b) = c
  <2>1. RawSpelling[c] = Escape(c)
    BY DEF RawSpelling
  <2>2. CASE Escape(c) = <<c>> /\ ~ Escaped(c)
    BY <1>1, <2>1, <2>2
  <2>3. CASE Escape(c) # <<c>> \/ Escaped(c)
    BY <2>1, <2>3, EscapeIs
  <2> QED
    BY <2>2, <2>3
<1>3. ASSUME NEW c \in Codes8
      PROVE  \/ \E d \in Codes8 : UrlSpelling[c] = <<d>> /\ d # Percent /\ c = IF d = Plus THEN Space ELSE d
             \/ \E a, b \in Codes8 :
                   UrlSpelling[c] = <<Percent, a, b>> /\ HexValue(a) >= 0 /\ HexValue(b) >= 0 /\ php_htoi(a, b) = c
  <2>1. UrlSpelling[c] = IF c = Space THEN <<Plus>> ELSE Escape(c)
    BY DEF UrlSpelling
  <2>2. CASE c = Space
    BY <1>1, <2>1, <2>2
  <2>3. CASE c # Space /\ Escape(c) = <<c>> /\ ~ Escaped(c)
    BY <1>1, <2>1, <2>3
  <2>4. CASE c # Space /\ (Escape(c) # <<c>> \/ Escaped(c))
    BY <2>1, <2>4, EscapeIs
  <2> QED
    BY <2>2, <2>3, <2>4
<1>4. RawSpelling \in [Codes8 -> Seq(Codes8)]
  BY EscapeIs DEF RawSpelling
<1>5. UrlSpelling \in [Codes8 -> Seq(Codes8)]
  <2>1. <<Plus>> \in Seq(Codes8)
    BY <1>1
  <2> QED
    BY <2>1, EscapeIs DEF UrlSpelling
<1> QED
  BY <1>2, <1>3, <1>4, <1>5 DEF Undone

\* A coded text has no character that means something in a URL.
LEMMA NothingSpecial ==
    ASSUME NEW s \in Seq(Codes8)
    PROVE  \A i \in 1 .. Len(Spelled(RawSpelling, s)) : Spelled(RawSpelling, s)[i] \notin {Slash, Space, Plus, Equals}
<1> DEFINE C == Codes8
           X == {Slash, Space, Plus, Equals}
           Y == C \ X
           sp == RawSpelling
<1>1. ASSUME NEW c \in C PROVE sp[c] \in Seq(Y)
  <2>1. sp[c] = Escape(c)
    BY DEF RawSpelling
  <2>2. CASE Escape(c) = <<c>> /\ ~ Escaped(c)
    <3>1. c \in Y
      BY <2>2 DEF Escaped, Slash, Space, Plus, Equals
    <3> HIDE DEF Y
    <3> QED
      BY <2>1, <2>2, <3>1
  <2>3. CASE \E a, b \in 48 .. 57 \cup 65 .. 70 : Escape(c) = <<Percent, a, b>>
    <3>1. Percent \in Y /\ \A a \in 48 .. 57 \cup 65 .. 70 : a \in Y
      BY DEF Percent, Slash, Space, Plus, Equals, Codes8
    <3> HIDE DEF Y
    <3> QED
      BY <2>1, <2>3, <3>1
  <2> QED
    BY <2>2, <2>3, EscapeIs
<1>2. sp \in [C -> Seq(Y)]
  <2>1. sp = [c \in C |-> sp[c]]
    BY DEF RawSpelling
  <2> HIDE DEF Y, C, sp
  <2> QED
    BY <1>1, <2>1
<1>3. 0 \in C
  BY DEF Codes8
<1> HIDE DEF sp, Y, C
<1>4. Spelled(sp, s) \in Seq(Y)
  BY <1>2, <1>3, SpelledGrows DEF C
<1>5. \A i \in 1 .. Len(Spelled(sp, s)) : Spelled(sp, s)[i] \in Y
  BY <1>4, ElementOfSeq
<1> QED
  BY <1>5 DEF Y, sp

LEMMA UrlCodedBack ==
    ASSUME text \in Seq(Codes8)
    PROVE  UrlRoundTrip
<1>1. php_raw_url_encode(text) = Spelled(RawSpelling, text) /\ php_url_encode(text) = Spelled(UrlSpelling, text)
  <2>1. \A i \in DOMAIN text : text[i] \in Codes8
    BY LenProperties, ElementOfSeq
  <2>2. /\ [i \in DOMAIN text |-> Escape(text[i])] = [i \in DOMAIN text |-> RawSpelling[text[i]]]
        /\ [i \in DOMAIN text |-> IF text[i] = Space THEN <<Plus>> ELSE Escape(text[i])]
               = [i \in DOMAIN text |-> UrlSpelling[text[i]]]
    BY <2>1 DEF RawSpelling, UrlSpelling
  <2> QED
    BY <2>2 DEF php_raw_url_encode, php_url_encode, Spelled
<1>2. Plus \in Codes8 /\ Space \in Codes8
  BY DEF Plus, Space, Codes8
<1>3. Decoded(Spelled(RawSpelling, text), Plus) = text
  BY <1>2, SpelledDecoded, SpellingsUndone
<1>4. Decoded(Spelled(UrlSpelling, text), Space) = text
  BY <1>2, SpelledDecoded, SpellingsUndone
<1>5. ToSet(php_raw_url_encode(text)) \cap {Slash, Space, Plus, Equals} = {}
  <2> DEFINE w == Spelled(RawSpelling, text)
  <2>1. w \in Seq(Codes8)
    <3>1. 0 \in Codes8
      BY DEF Codes8
    <3> QED
      BY <3>1, SpelledGrows, SpellingsUndone
  <2>2. \A i \in 1 .. Len(w) : w[i] \notin {Slash, Space, Plus, Equals}
    BY NothingSpecial
  <2> HIDE DEF w
  <2>3. DOMAIN w = 1 .. Len(w)
    BY <2>1, LenProperties
  <2>4. ToSet(w) \cap {Slash, Space, Plus, Equals} = {}
    BY <2>2, <2>3 DEF ToSet
  <2> QED
    BY <1>1, <2>4 DEF w
<1> QED
  BY <1>1, <1>3, <1>4, <1>5 DEF UrlRoundTrip, php_raw_url_decode, php_url_decode

-----------------------------------------------------------------------------
(* Text: Numbers with separators                                           *)

\* Leaving out a code, as steps.
LeavesOut(S, code) == [c \in S |-> [x \in Seq(S) |-> IF c = code THEN x ELSE Longer(x, c)]]

LEMMA LeavesOutIs ==
    ASSUME NEW S, NEW code
    PROVE  /\ LeavesOut(S, code) \in [S -> [Seq(S) -> Seq(S)]]
           /\ \A c \in S : \A x \in Seq(S) : LeavesOut(S, code)[c][x] = IF c = code THEN x ELSE Longer(x, c)
<1> DEFINE T == Seq(S)
           y(c, x) == IF c = code THEN x ELSE Longer(x, c)
<1>1. \A c \in S : \A x \in T : y(c, x) \in T
  BY LongerIs
<1> HIDE DEF T, y
<1>2. [c \in S |-> [x \in T |-> y(c, x)]] \in [S -> [T -> T]]
  BY <1>1
<1>3. \A c \in S : \A x \in T : [d \in S |-> [z \in T |-> y(d, z)]][c][x] = y(c, x)
  OBVIOUS
<1> QED
  BY <1>2, <1>3 DEF LeavesOut, T, y

LEMMA WithoutRuns ==
    ASSUME NEW S, NEW code, NEW s \in Seq(S)
    PROVE  Without(s, code) = Folded(Seq(S), <<>>, LeavesOut(S, code), s)
<1> DEFINE N == Len(s)
           T == Seq(S)
           step == LeavesOut(S, code)
           Body(f) == [i \in 0 .. N |-> IF i = 0 THEN <<>> ELSE IF s[i] = code THEN f[i - 1] ELSE Append(f[i - 1], s[i])]
           f0 == CHOOSE f : f = Body(f)
<1>1. N \in Nat /\ \A i \in 1 .. N : s[i] \in S
  BY LenProperties, ElementOfSeq
<1>2. Without(s, code) = f0[N]
  BY DEF Without
<1>3. /\ step \in [S -> [T -> T]]
      /\ \A c \in S : \A x \in T : step[c][x] = IF c = code THEN x ELSE Longer(x, c)
  BY LeavesOutIs
<1>s. step \in [S -> [T -> T]]
  BY <1>3
<1>4. <<>> \in T
  BY EmptySeq
<1> HIDE DEF step, T
<1>5. PICK g : GoesThrough(g, T, <<>>, step, s)
  BY <1>4, <1>s, FoldedGoes
<1>6. g \in [0 .. N -> T] /\ g[0] = <<>> /\ \A i \in 1 .. N : g[i] = step[s[i]][g[i - 1]]
  BY <1>5 DEF GoesThrough
<1>7. \A i \in 1 .. N : i - 1 \in 0 .. N
  BY <1>1
<1> HIDE DEF N
<1>8. g = Body(g)
  <2>1. \A i \in 1 .. N : g[i] = IF s[i] = code THEN g[i - 1] ELSE Append(g[i - 1], s[i])
    BY <1>1, <1>3, <1>6, <1>7 DEF Longer
  <2>2. \A i \in 0 .. N : i # 0 => i \in 1 .. N
    BY <1>1 DEF N
  <2> QED
    BY <1>6, <2>1, <2>2
<1>9. f0 = Body(f0)
  <2> HIDE DEF Body
  <2> QED
    BY <1>8
<1> HIDE DEF f0
<1>10. f0[0] = <<>>
  <2>1. 0 \in 0 .. N
    BY <1>1
  <2> QED
    BY <1>9, <2>1
<1>11. \A i \in 1 .. N : f0[i] = IF s[i] = code THEN f0[i - 1] ELSE Append(f0[i - 1], s[i])
  <2>1. \A i \in 1 .. N : i \in 0 .. N /\ i # 0
    BY <1>1
  <2> QED
    BY <1>9, <2>1
<1>12. \A i \in 1 .. N : f0[i - 1] \in T => f0[i] = step[s[i]][f0[i - 1]]
  BY <1>1, <1>3, <1>11 DEF Longer
<1>13. f0[Len(s)] = Folded(T, <<>>, step, s)
  <2>1. \A i \in 1 .. Len(s) : f0[i - 1] \in T => f0[i] = step[s[i]][f0[i - 1]]
    BY <1>12 DEF N
  <2> QED
    BY <1>4, <1>s, <1>10, <2>1, FoldedRuns
<1> QED
  BY <1>2, <1>13 DEF N, T, step

LEMMA WithoutNothing == \A code : Without(<<>>, code) = <<>>
<1> TAKE code
<1> DEFINE T == Seq(Codes8)
           step == LeavesOut(Codes8, code)
<1>1. step \in [Codes8 -> [T -> T]]
  BY LeavesOutIs
<1>2. <<>> \in T
  BY EmptySeq
<1>3. Without(<<>>, code) = Folded(T, <<>>, step, <<>>)
  BY <1>2, WithoutRuns
<1> HIDE DEF T, step
<1>4. Folded(T, <<>>, step, <<>>) = <<>>
  BY <1>1, <1>2, FoldedNothing
<1> QED
  BY <1>3, <1>4

LEMMA WithoutGrows ==
    ASSUME NEW S, NEW code, NEW s \in Seq(S), NEW c \in S
    PROVE  /\ Without(s, code) \in Seq(S)
           /\ Without(Longer(s, c), code) = IF c = code THEN Without(s, code) ELSE Longer(Without(s, code), c)
<1> DEFINE T == Seq(S)
           step == LeavesOut(S, code)
           u == Longer(s, c)
           w == Without(s, code)
<1>1. /\ step \in [S -> [T -> T]]
      /\ \A d \in S : \A x \in T : step[d][x] = IF d = code THEN x ELSE Longer(x, d)
  BY LeavesOutIs
<1>s. step \in [S -> [T -> T]]
  BY <1>1
<1>2. <<>> \in T /\ u \in Seq(S)
  BY EmptySeq, LongerIs
<1>3. w = Folded(T, <<>>, step, s) /\ Without(u, code) = Folded(T, <<>>, step, u)
  <2> HIDE DEF u
  <2> QED
    BY <1>2, WithoutRuns
<1> HIDE DEF T, step, w
<1>4. Folded(T, <<>>, step, s) \in T
  BY <1>s, <1>2, FoldedIn
<1>5. Folded(T, <<>>, step, Longer(s, c)) = step[c][Folded(T, <<>>, step, s)]
  BY <1>s, <1>2, FoldedGrows
<1>6. w \in T /\ Without(u, code) = step[c][w]
  BY <1>3, <1>4, <1>5
<1> QED
  BY <1>1, <1>6 DEF T, w

LEMMA WithoutIn ==
    ASSUME NEW S, NEW code, NEW s \in Seq(S)
    PROVE  Without(s, code) \in Seq(S)
<1>1. CASE S = {}
  <2>1. Len(s) \in Nat /\ \A i \in 1 .. Len(s) : s[i] \in S
    BY LenProperties, ElementOfSeq
  <2>2. Len(s) = 0
    <3>1. ASSUME Len(s) # 0 PROVE FALSE
      <4>1. 1 \in 1 .. Len(s)
        BY <2>1, <3>1
      <4> QED
        BY <1>1, <2>1, <4>1
    <3> QED
      BY <3>1
  <2>3. s = <<>>
    BY <2>2, EmptySeq
  <2> QED
    BY <2>3, WithoutNothing, EmptySeq
<1>2. CASE S # {}
  BY <1>2, WithoutGrows
<1> QED
  BY <1>1, <1>2

LEMMA WithoutJoined ==
    ASSUME NEW S, NEW code, NEW a \in Seq(S), NEW b \in Seq(S)
    PROVE  Without(Joined(a, b), code) = Joined(Without(a, code), Without(b, code))
<1> DEFINE P == {x \in Seq(S) : Without(Joined(a, x), code) = Joined(Without(a, code), Without(x, code))}
           w == Without(a, code)
<1>1. w \in Seq(S)
  BY WithoutIn
<1>2. <<>> \in P
  <2>1. Joined(a, <<>>) = a /\ <<>> \in Seq(S) /\ Without(<<>>, code) = <<>>
    BY JoinedNothing, WithoutNothing, EmptySeq
  <2> HIDE DEF w
  <2>2. Joined(w, <<>>) = w
    BY <1>1, JoinedNothing
  <2> QED
    BY <2>1, <2>2 DEF w
<1> HIDE DEF w
<1>3. ASSUME NEW x \in Seq(S), NEW c \in S, x \in P PROVE Longer(x, c) \in P
  <2> DEFINE v == Without(x, code)
             j == Joined(a, x)
  <2>1. Longer(x, c) \in Seq(S) /\ v \in Seq(S)
    BY LongerIs, WithoutIn
  <2>2. j \in Seq(S)
    BY JoinedIs
  <2>3. Joined(a, Longer(x, c)) = Longer(j, c)
    BY AppendBehind
  <2>4. Without(j, code) = Joined(w, v)
    BY <1>3 DEF w
  <2>5. Without(Longer(x, c), code) = IF c = code THEN v ELSE Longer(v, c)
    BY WithoutGrows
  <2> HIDE DEF j, v
  <2>6. Without(Longer(j, c), code) = IF c = code THEN Without(j, code) ELSE Longer(Without(j, code), c)
    BY <2>2, WithoutGrows
  <2>7. Longer(Joined(w, v), c) = Joined(w, Longer(v, c))
    BY <1>1, <2>1, AppendBehind
  <2>8. Without(Joined(a, Longer(x, c)), code) = Joined(w, Without(Longer(x, c), code))
    BY <2>3, <2>4, <2>5, <2>6, <2>7
  <2> QED
    BY <2>1, <2>8 DEF w
<1>4. Seq(S) \subseteq P
  <2> HIDE DEF P
  <2> QED
    BY <1>2, <1>3, ByGrowth
<1> QED
  BY <1>4 DEF w

\* A prefix, one longer.
LEMMA PrefixNext ==
    ASSUME NEW S, NEW s \in Seq(S), NEW i \in 1 .. Len(s)
    PROVE  SubSeq(s, 1, i) = Longer(SubSeq(s, 1, i - 1), s[i]) /\ SubSeq(s, 1, i - 1) \in Seq(S)
<1>1. i - 1 \in Int /\ s[i] \in S /\ Len(s) \in Nat
  BY ElementOfSeq, LenProperties
<1>2. SubSeq(s, 1, i) = SubSeq(s, 1, i - 1) \o <<s[i]>>
  BY <1>1, SubSeqRecursiveSecond
<1>3. \A j \in 1 .. i - 1 : s[j] \in S
  BY <1>1, ElementOfSeq
<1>4. SubSeq(s, 1, i - 1) \in Seq(S)
  <2> DEFINE k == i - 1
  <2>1. k \in Int /\ \A j \in 1 .. k : s[j] \in S
    BY <1>1, <1>3
  <2> HIDE DEF k
  <2>2. SubSeq(s, 1, k) \in Seq(S)
    BY <2>1, SubSeqProperties
  <2> QED
    BY <2>2 DEF k
<1>5. SubSeq(s, 1, i) = Append(SubSeq(s, 1, i - 1), s[i])
  BY <1>1, <1>2, <1>4, AppendIsConcat
<1> QED
  BY <1>4, <1>5 DEF Longer

\* The length of the last m digits with their separators.
Grouped(m) == m + m \div 3

LEMMA Thirds ==
    ASSUME NEW m \in Nat
    PROVE  /\ Grouped(m) \in Nat /\ (m = 0 => Grouped(m) = 0)
           /\ (Grouped(m) + 1) % 4 # 0
           /\ m >= 1 /\ m % 3 = 0 => Grouped(m) = Grouped(m - 1) + 2 /\ Grouped(m) % 4 = 0 /\ (Grouped(m) - 1) % 4 # 0
           /\ m >= 1 /\ m % 3 # 0 => Grouped(m) = Grouped(m - 1) + 1 /\ Grouped(m) % 4 # 0
<1> DEFINE q == m \div 3
           r == m % 3
<1>1. q \in Nat /\ r \in 0 .. 2 /\ m = 3 * q + r
  OBVIOUS
<1>2. Grouped(m) = 4 * q + r
  BY <1>1 DEF Grouped
<1>3. m >= 1 => Grouped(m - 1) = IF r = 0 THEN 4 * q - 2 ELSE 4 * q + r - 1
  <2>1. CASE m >= 1 /\ r = 0
    <3>1. m - 1 = 3 * (q - 1) + 2
      BY <1>1, <2>1
    <3>2. (m - 1) \div 3 = q - 1
      BY <1>1, <2>1, <3>1
    <3> QED
      BY <1>1, <2>1, <3>1, <3>2 DEF Grouped
  <2>2. CASE m >= 1 /\ r # 0
    <3>1. m - 1 = 3 * q + (r - 1)
      BY <1>1, <2>2
    <3>2. (m - 1) \div 3 = q
      BY <1>1, <2>2, <3>1
    <3> QED
      BY <1>1, <2>2, <3>1, <3>2 DEF Grouped
  <2> QED
    BY <2>1, <2>2
<1> HIDE DEF q
<1>4. (4 * q + r + 1) % 4 # 0
  BY <1>1
<1>5. r = 0 => (4 * q + r) % 4 = 0 /\ (4 * q + r - 1) % 4 # 0
  BY <1>1
<1>6. r # 0 => (4 * q + r) % 4 # 0
  BY <1>1
<1> QED
  BY <1>1, <1>2, <1>3, <1>4, <1>5, <1>6

\* The pieces of a number.
Spaced(s, i) ==
    IF i > Len(s) % 3 /\ (i - 1 - (Len(s) % 3)) % 3 = 0 /\ i # 1 THEN <<Comma, s[i]>> ELSE <<s[i]>>

LEMMA PieceIs ==
    ASSUME NEW S, NEW s \in Seq(S), NEW i \in 1 .. Len(s)
    PROVE  Spaced(s, i) = IF i # 1 /\ (Len(s) - i + 1) % 3 = 0 THEN <<Comma, s[i]>> ELSE <<s[i]>>
<1> DEFINE n == Len(s)
           q == n \div 3
           r == n % 3
<1>1. n \in Nat
  BY LenProperties
<1>2. q \in Nat /\ r \in 0 .. 2 /\ n = 3 * q + r
  BY <1>1
<1>3. i # 1 => ((i > r /\ (i - 1 - r) % 3 = 0) <=> (n - i + 1) % 3 = 0)
  <2>1. i \in 1 .. n
    OBVIOUS
  <2> HIDE DEF n, q, r
  <2> DEFINE k == i - 1 - r
  <2>2. n - i + 1 = 3 * q - k /\ k \in Int
    BY <1>1, <1>2, <2>1
  <2>3. k % 3 = 0 <=> (3 * q - k) % 3 = 0
    <3> HIDE DEF k
    <3> QED
      BY <1>2, <2>2
  <2>4. ASSUME i # 1, k % 3 = 0 PROVE i > r
    BY <1>2, <2>1, <2>4
  <2> QED
    BY <2>2, <2>3, <2>4
<1> QED
  BY <1>3 DEF Spaced

\* What is behind n elements of s is t.
Follows(s, n, t) == \A k \in 1 .. Len(t) : s[n + k] = t[k]

LEMMA JoinedBehind ==
    ASSUME NEW S, NEW a \in Seq(S), NEW b \in Seq(S)
    PROVE  Follows(Joined(a, b), Len(a), b)
  BY JoinedIs DEF Follows

LEMMA JoinedFront ==
    ASSUME NEW S, NEW a \in Seq(S), NEW b \in Seq(S)
    PROVE  \A k \in 1 .. Len(a) : Joined(a, b)[k] = a[k]
  BY JoinedIs

\* Short texts.
LEMMA OneAndTwo ==
    ASSUME NEW S, NEW a \in S, NEW b \in S
    PROVE  Longer(<<>>, a) = <<a>> /\ Longer(<<a>>, b) = <<a, b>>
<1>1. Longer(<<>>, a) = <<a>>
  BY DEF Longer
<1>2. Longer(<<a>>, b) = <<a, b>>
  <2> DEFINE x == <<a>>
             y == <<a, b>>
             z == Longer(x, b)
  <2>1. x \in Seq(S) /\ Len(x) = 1 /\ x[1] = a
    OBVIOUS
  <2>2. y \in Seq(S) /\ Len(y) = 2 /\ y[1] = a /\ y[2] = b
    OBVIOUS
  <2> HIDE DEF x, y
  <2>x. x \in Seq(S)
    BY <2>1
  <2>c. z \in Seq(S) /\ Len(z) = Len(x) + 1 /\ z[Len(x) + 1] = b
    BY <2>x, LongerIs
  <2>d. \A i \in 1 .. Len(x) : z[i] = x[i]
    BY <2>x, LongerIs
  <2> HIDE DEF z
  <2>3. z \in Seq(S) /\ Len(z) = 2 /\ z[1] = a /\ z[2] = b
    BY <2>1, <2>c, <2>d
  <2>4. \A i \in 1 .. Len(z) : z[i] = y[i]
    BY <2>2, <2>3
  <2>5. z = y
    BY <2>2, <2>3, <2>4, SameSeq
  <2> QED
    BY <2>5 DEF x, y, z
<1> QED
  BY <1>1, <1>2

\* The separators of a, which m digits are still to follow, are right if all
\* together are total characters.
SepsRight(a, m, total) ==
    /\ Len(a) + Grouped(m) = total
    /\ \A k \in 1 .. Len(a) : a[k] = Comma <=> (total - k + 1) % 4 = 0

\* A digit, and what is in front of it.
DigitPiece(m, c) == IF m % 3 = 0 THEN <<Comma, c>> ELSE <<c>>

\* A piece behind a number that is right so far, m digits from its end.
LEMMA PieceBehind ==
    ASSUME NEW a \in Seq(Codes8), NEW c \in Codes8, NEW total \in Nat, NEW m \in Nat,
           m >= 1, c # Comma, SepsRight(a, m, total)
    PROVE  /\ DigitPiece(m, c) \in Seq(Codes8) /\ Without(DigitPiece(m, c), Comma) = <<c>>
           /\ SepsRight(Joined(a, DigitPiece(m, c)), m - 1, total)
<1> DEFINE p == DigitPiece(m, c)
           n == Len(a)
           j == Joined(a, p)
<1>0. Comma \in Codes8 /\ n \in Nat
  BY LenProperties DEF Comma, Codes8
<1>1. p \in Seq(Codes8)
  BY <1>0 DEF DigitPiece
<1>2. Without(p, Comma) = <<c>>
  <2> DEFINE none == <<>>
             x == Longer(none, Comma)
  <2>0. none \in Seq(Codes8) /\ Without(none, Comma) = none
    BY WithoutNothing, EmptySeq
  <2>1. Longer(none, c) = <<c>> /\ x = <<Comma>> /\ Longer(<<Comma>>, c) = <<Comma, c>>
    BY <1>0, OneAndTwo
  <2> HIDE DEF none
  <2>2. x \in Seq(Codes8)
    BY <1>0, <2>0, LongerIs
  <2>3. Without(Longer(none, c), Comma) = Longer(none, c)
    BY <2>0, WithoutGrows
  <2>4. Without(x, Comma) = none
    BY <1>0, <2>0, WithoutGrows
  <2> HIDE DEF x
  <2>5. Without(Longer(x, c), Comma) = Longer(none, c)
    BY <2>2, <2>4, WithoutGrows
  <2> QED
    BY <2>1, <2>3, <2>5 DEF DigitPiece
<1>3. j \in Seq(Codes8) /\ Len(j) = n + Len(p)
  BY <1>1, JoinedIs
<1>4. \A k \in 1 .. n : j[k] = a[k]
  <2> TAKE k \in 1 .. n
  <2> QED
    BY <1>1, JoinedIs
<1>5. \A k \in 1 .. Len(p) : j[n + k] = p[k]
  <2>1. Follows(j, n, p)
    BY <1>1, JoinedBehind
  <2> HIDE DEF j, n
  <2> QED
    BY <2>1 DEF Follows
<1>6. n + Grouped(m) = total /\ \A k \in 1 .. n : a[k] = Comma <=> (total - k + 1) % 4 = 0
  BY DEF SepsRight
<1> HIDE DEF n, j, p
<1> DEFINE g == Grouped(m)
<1>7. g \in Nat /\ Grouped(m - 1) \in Nat
  <2>1. m - 1 \in Nat
    OBVIOUS
  <2> QED
    BY <2>1, Thirds
<1>8. CASE m % 3 = 0
  <2>1. Len(p) = 2 /\ p[1] = Comma /\ p[2] = c
    BY <1>8 DEF DigitPiece, p
  <2>2. g = Grouped(m - 1) + 2 /\ g % 4 = 0 /\ (g - 1) % 4 # 0
    BY <1>8, Thirds
  <2> HIDE DEF g
  <2>3. Len(j) = n + 2 /\ j[n + 1] = Comma /\ j[n + 2] = c
    BY <1>0, <1>3, <1>5, <2>1
  <2>4. total - (n + 1) + 1 = g /\ total - (n + 2) + 1 = g - 1
    BY <1>0, <1>6, <1>7 DEF g
  <2>5. \A k \in 1 .. n + 2 : j[k] = Comma <=> (total - k + 1) % 4 = 0
    <3> TAKE k \in 1 .. n + 2
    <3>1. CASE k \in 1 .. n
      BY <1>4, <1>6, <3>1
    <3>2. CASE k = n + 1
      BY <2>2, <2>3, <2>4, <3>2
    <3>3. CASE k = n + 2
      BY <2>2, <2>3, <2>4, <3>3
    <3> QED
      BY <1>0, <3>1, <3>2, <3>3
  <2>6. Len(j) + Grouped(m - 1) = total
    BY <1>0, <1>6, <1>7, <2>2, <2>3 DEF g
  <2>7. \A k \in 1 .. Len(j) : j[k] = Comma <=> (total - k + 1) % 4 = 0
    BY <2>3, <2>5
  <2> QED
    BY <1>1, <1>2, <2>6, <2>7 DEF j, p, SepsRight
<1>9. CASE m % 3 # 0
  <2>1. Len(p) = 1 /\ p[1] = c
    BY <1>9 DEF DigitPiece, p
  <2>2. g = Grouped(m - 1) + 1 /\ g % 4 # 0
    BY <1>9, Thirds
  <2> HIDE DEF g
  <2>3. Len(j) = n + 1 /\ j[n + 1] = c
    BY <1>0, <1>3, <1>5, <2>1
  <2>4. total - (n + 1) + 1 = g
    BY <1>0, <1>6, <1>7 DEF g
  <2>5. \A k \in 1 .. n + 1 : j[k] = Comma <=> (total - k + 1) % 4 = 0
    <3> TAKE k \in 1 .. n + 1
    <3>1. CASE k \in 1 .. n
      BY <1>4, <1>6, <3>1
    <3>2. CASE k = n + 1
      BY <2>2, <2>3, <2>4, <3>2
    <3> QED
      BY <1>0, <3>1, <3>2
  <2>6. Len(j) + Grouped(m - 1) = total
    BY <1>0, <1>6, <1>7, <2>2, <2>3 DEF g
  <2>7. \A k \in 1 .. Len(j) : j[k] = Comma <=> (total - k + 1) % 4 = 0
    BY <2>3, <2>5
  <2> QED
    BY <1>1, <1>2, <2>6, <2>7 DEF j, p, SepsRight
<1> QED
  BY <1>8, <1>9

LEMMA SepsPlaced ==
    ASSUME text \in Seq(Codes8)
    PROVE  SepsFromTheRight
<1> SUFFICES ASSUME Comma \notin ToSet(text)
             PROVE  LET s == add_thousand_seps(<<>>, text) IN
                    /\ Without(s, Comma) = text
                    /\ \A i \in DOMAIN s : s[i] = Comma <=> (Len(s) - i + 1) % 4 = 0
  BY DEF SepsFromTheRight
<1> DEFINE n == Len(text)
           ss == [i \in DOMAIN text |-> Spaced(text, i)]
           s == FlattenSeq(ss)
<1>1. n \in Nat /\ DOMAIN text = 1 .. n /\ \A i \in 1 .. n : text[i] \in Codes8 /\ text[i] # Comma
  <2>1. n \in Nat /\ DOMAIN text = 1 .. n /\ \A i \in 1 .. n : text[i] \in Codes8
    BY LenProperties, ElementOfSeq
  <2> QED
    BY <2>1 DEF ToSet
<1>2. \A i \in 1 .. n : Spaced(text, i) = IF i # 1 /\ (n - i + 1) % 3 = 0 THEN <<Comma, text[i]>> ELSE <<text[i]>>
  BY PieceIs
<1>3. ss \in Seq(Seq(Codes8)) /\ Len(ss) = n /\ \A i \in 1 .. n : ss[i] = Spaced(text, i)
  <2> DEFINE T == Seq(Codes8)
  <2>1. Comma \in Codes8
    BY DEF Comma, Codes8
  <2>2. \A i \in 1 .. n : Spaced(text, i) \in T
    <3> TAKE i \in 1 .. n
    <3>1. <<Comma, text[i]>> \in T /\ <<text[i]>> \in T
      BY <1>1, <2>1
    <3> QED
      BY <1>2, <3>1
  <2> HIDE DEF T, n
  <2>3. ss \in [1 .. n -> T]
    BY <1>1, <2>2
  <2>4. \A i \in 1 .. n : ss[i] = Spaced(text, i)
    BY <1>1
  <2> HIDE DEF ss
  <2>5. ss \in Seq(T) /\ Len(ss) = n
    BY <1>1, <2>3
  <2> QED
    BY <2>4, <2>5 DEF T
<1>4. \A sign \in Seq(Codes8) : add_thousand_seps(sign, text) = Joined(sign, s)
  BY DEF add_thousand_seps, Spaced, Joined
<1>5. s \in Seq(Codes8)
  <2> HIDE DEF ss
  <2> QED
    BY <1>3, FlattenGrows
<1>6. add_thousand_seps(<<>>, text) = s
  <2> HIDE DEF s
  <2>1. <<>> \in Seq(Codes8) /\ Joined(<<>>, s) = s
    BY <1>5, JoinedNothing, EmptySeq
  <2> QED
    BY <1>4, <2>1
<1> HIDE DEF ss
<1>7. CASE n = 0
  <2>1. ss = <<>> /\ text = <<>>
    BY <1>3, <1>7, EmptySeq
  <2>2. s = <<>>
    BY <2>1, FlattenGrows
  <2> QED
    BY <1>6, <2>1, <2>2, WithoutNothing
<1>8. CASE n # 0
  <2>1. ss # <<>>
    BY <1>3, <1>8
  <2>a. ss \in Seq(Seq(Codes8))
    BY <1>3
  <2>2. PICK f : /\ FlattenSeq(ss) = f[Len(ss)]
                 /\ \A i \in 1 .. Len(ss) : f[i] \in Seq(Codes8) /\ f[i] = IF i = 1 THEN ss[i] ELSE Joined(f[i - 1], ss[i])
    BY <2>1, <2>a, FlattenRuns
  <2>3. s = f[n] /\ \A i \in 1 .. n : f[i] \in Seq(Codes8) /\ f[i] = IF i = 1 THEN ss[i] ELSE Joined(f[i - 1], ss[i])
    BY <1>3, <2>2
  <2> DEFINE total == 1 + Grouped(n - 1)
             Right(i) == /\ Without(f[i], Comma) = SubSeq(text, 1, i)
                         /\ SepsRight(f[i], n - i, total)
             P == {i \in 0 .. n : i = 0 \/ Right(i)}
  <2>4. total \in Nat /\ total % 4 # 0
    <3>1. n - 1 \in Nat
      BY <1>1, <1>8
    <3>2. Grouped(n - 1) \in Nat /\ (Grouped(n - 1) + 1) % 4 # 0
      BY <3>1, Thirds
    <3> QED
      BY <3>2
  <2>5. Right(1)
    <3> DEFINE c == text[1]
               none == <<>>
    <3>1. f[1] = <<c>> /\ 1 \in 1 .. n
      BY <1>1, <1>2, <1>3, <1>8, <2>3, SMTT(30)
    <3>2. c \in Codes8 /\ c # Comma
      BY <1>1, <3>1
    <3>3. SubSeq(text, 1, 1) = <<c>>
      <4>1. SubSeq(text, 1, 1) = Longer(SubSeq(text, 1, 1 - 1), text[1])
        BY <3>1, PrefixNext
      <4>2. SubSeq(text, 1, 1 - 1) = none
        BY SubSeqEmpty
      <4>3. Longer(none, c) = <<c>>
        BY DEF Longer
      <4> QED
        BY <4>1, <4>2, <4>3
    <3>4. Without(<<c>>, Comma) = <<c>>
      <4>1. Longer(none, c) = <<c>>
        BY DEF Longer
      <4>2. none \in Seq(Codes8) /\ Without(none, Comma) = none
        BY WithoutNothing, EmptySeq
      <4> HIDE DEF none, c
      <4>3. Without(Longer(none, c), Comma) = Longer(none, c)
        BY <3>2, <4>2, WithoutGrows
      <4> QED
        BY <4>1, <4>3
    <3>5. Len(f[1]) = 1 /\ f[1][1] = c
      BY <3>1
    <3>6. (total - 1 + 1) % 4 # 0
      BY <2>4
    <3> HIDE DEF c, total
    <3>7. \A k \in 1 .. Len(f[1]) : f[1][k] = Comma <=> (total - k + 1) % 4 = 0
      BY <3>2, <3>5, <3>6
    <3> QED
      BY <3>1, <3>3, <3>4, <3>5, <3>7 DEF total, SepsRight
  <2> HIDE DEF total
  <2>6. ASSUME NEW i \in 1 .. n, i # 1, Right(i - 1) PROVE Right(i)
    <3> DEFINE a == f[i - 1]
               c == text[i]
               m == n - i + 1
               p == ss[i]
               t == SubSeq(text, 1, i - 1)
    <3>1. i - 1 \in 1 .. n /\ m \in Nat /\ m >= 1 /\ n - (i - 1) = m /\ m - 1 = n - i
      BY <1>1, <2>6
    <3>2. a \in Seq(Codes8) /\ f[i] = Joined(a, p)
      BY <2>3, <2>6, <3>1
    <3>3. c \in Codes8 /\ c # Comma
      BY <1>1
    <3>4. p = DigitPiece(m, c)
      BY <1>2, <1>3, <2>6 DEF DigitPiece
    <3>5. Without(a, Comma) = t /\ SepsRight(a, m, total)
      BY <2>6, <3>1
    <3>6. SubSeq(text, 1, i) = Longer(t, c) /\ t \in Seq(Codes8)
      BY PrefixNext
    <3>a. a \in Seq(Codes8)
      BY <3>2
    <3>c. c \in Codes8
      BY <3>3
    <3>m. m \in Nat
      BY <3>1
    <3> HIDE DEF a, c, m, p, t
    <3>t. total \in Nat /\ m >= 1 /\ c # Comma /\ SepsRight(a, m, total)
      BY <2>4, <3>1, <3>3, <3>5
    <3>7. p \in Seq(Codes8) /\ Without(p, Comma) = <<c>> /\ SepsRight(Joined(a, p), m - 1, total)
      BY <3>a, <3>c, <3>m, <3>t, <3>4, PieceBehind
    <3>8. Without(Joined(a, p), Comma) = Joined(t, <<c>>)
      BY <3>a, <3>5, <3>7, WithoutJoined
    <3>9. Joined(t, <<c>>) = Longer(t, c)
      BY <3>c, <3>6, LongerOne
    <3> QED
      BY <3>1, <3>2, <3>6, <3>7, <3>8, <3>9
  <2>7. 0 .. n \subseteq P
    <3>1. 0 \in P
      BY <1>1
    <3> HIDE DEF Right
    <3>2. ASSUME NEW i \in 1 .. n, i - 1 \in P PROVE i \in P
      <4>1. CASE i = 1
        BY <1>1, <2>5, <4>1
      <4>2. CASE i # 1
        <5>1. Right(i - 1)
          BY <1>1, <3>2, <4>2
        <5>2. Right(i)
          BY <2>6, <4>2, <5>1
        <5> QED
          BY <1>1, <5>2
      <4> QED
        BY <4>1, <4>2
    <3> HIDE DEF P, n
    <3> QED
      BY <1>1, <3>1, <3>2, Inductive
  <2>8. Right(n)
    <3> HIDE DEF Right
    <3> QED
      BY <1>1, <1>8, <2>7
  <2>9. SubSeq(text, 1, n) = text
    BY SubSeqFull
  <2>10. Grouped(n - n) = 0
    <3>1. n - n = 0
      BY <1>1
    <3>2. Grouped(0) = 0
      BY Thirds
    <3> QED
      BY <3>1, <3>2
  <2> HIDE DEF s, n
  <2>11. Without(s, Comma) = text /\ Len(s) = total /\ \A k \in 1 .. Len(s) : s[k] = Comma <=> (total - k + 1) % 4 = 0
    <3>1. Len(s) \in Nat
      BY <1>5, LenProperties
    <3> QED
      BY <2>3, <2>8, <2>9, <2>10, <3>1 DEF SepsRight
  <2>12. DOMAIN s = 1 .. Len(s)
    BY <1>5, LenProperties
  <2> QED
    BY <1>6, <2>11, <2>12
<1> QED
  BY <1>7, <1>8

-----------------------------------------------------------------------------
(* Text: Names                                                             *)

LEMMA Greatest ==
    ASSUME NEW n \in Nat, NEW S, S \subseteq 0 .. n, S # {}
    PROVE  \E x \in S : \A y \in S : y <= x
<1> DEFINE T == {k \in 0 .. n : n - k \in S}
<1>1. T \subseteq 0 .. n /\ T # {}
  <2>1. PICK x : x \in S
    OBVIOUS
  <2>2. x \in 0 .. n
    BY <2>1
  <2>3. n - x \in 0 .. n /\ n - (n - x) = x
    BY <2>2
  <2>4. n - x \in T
    BY <2>1, <2>3
  <2> QED
    BY <2>4
<1>2. PICK t \in T : \A u \in T : t <= u
  <2> HIDE DEF T
  <2> QED
    BY <1>1, Least
<1>3. n - t \in S /\ t \in 0 .. n
  OBVIOUS
<1>4. ASSUME NEW y \in S PROVE y <= n - t
  <2>1. y \in 0 .. n
    OBVIOUS
  <2>2. n - y \in 0 .. n /\ n - (n - y) = y
    BY <2>1
  <2>3. n - y \in T
    BY <2>2
  <2>4. t <= n - y
    BY <1>2, <2>3
  <2> QED
    BY <1>3, <2>1, <2>4
<1> QED
  BY <1>3, <1>4

\* The last place of one of the codes, or 0.
IsLast(s, codes, l) ==
    /\ l \in 0 .. Len(s) /\ (l # 0 => s[l] \in codes)
    /\ \A j \in l + 1 .. Len(s) : s[j] \notin codes

LEMMA LastIs ==
    ASSUME NEW S, NEW s \in Seq(S), NEW codes
    PROVE  /\ IsLast(s, codes, LastOf(s, codes))
           /\ \A l : IsLast(s, codes, l) => l = LastOf(s, codes)
<1> DEFINE n == Len(s)
           at == {i \in DOMAIN s : s[i] \in codes}
           Is(l) == l \in at /\ \A j \in at : j <= l
           c == CHOOSE l \in at : \A j \in at : j <= l
           v == LastOf(s, codes)
<1>1. n \in Nat /\ DOMAIN s = 1 .. n
  BY LenProperties
<1>2. v = IF at = {} THEN 0 ELSE c
  BY DEF LastOf
<1>3. \A i \in 1 .. n : i \in at <=> s[i] \in codes
  BY <1>1
<1>4. at \subseteq 1 .. n
  BY <1>1
<1>5. CASE at = {}
  <2>1. v = 0 /\ \A i \in 1 .. n : s[i] \notin codes
    BY <1>2, <1>3, <1>5
  <2>2. ASSUME NEW l, IsLast(s, codes, l) PROVE l = 0
    <3>1. l \in 0 .. n /\ (l # 0 => s[l] \in codes)
      BY <2>2 DEF IsLast
    <3> HIDE DEF n
    <3> QED
      BY <1>1, <2>1, <3>1
  <2>3. IsLast(s, codes, 0)
    BY <1>1, <2>1 DEF IsLast
  <2> QED
    BY <2>1, <2>2, <2>3
<1>6. CASE at # {}
  <2>1. \E l : Is(l)
    <3>1. at \subseteq 0 .. n
      BY <1>1, <1>4
    <3> HIDE DEF at, n
    <3> QED
      BY <1>1, <1>6, <3>1, Greatest
  <2>2. Is(c)
    <3> HIDE DEF at
    <3> QED
      BY <2>1
  <2> HIDE DEF c
  <2>3. v = c
    BY <1>2, <1>6
  <2>4. c \in 1 .. n /\ c \in at
    BY <1>4, <2>2
  <2>5. \A j \in 1 .. n : s[j] \in codes => j <= c
    BY <1>3, <2>2
  <2>6. s[c] \in codes
    BY <1>3, <2>4
  <2>7. IsLast(s, codes, c)
    <3>1. \A j \in c + 1 .. n : j \in 1 .. n /\ ~ (j <= c)
      BY <1>1, <2>4
    <3>2. c \in 0 .. n
      BY <1>1, <2>4
    <3> QED
      BY <2>5, <2>6, <3>1, <3>2 DEF IsLast
  <2>8. ASSUME NEW l, IsLast(s, codes, l) PROVE l = c
    <3>1. l \in 0 .. n /\ (l # 0 => s[l] \in codes) /\ \A j \in l + 1 .. n : s[j] \notin codes
      BY <2>8 DEF IsLast
    <3> HIDE DEF n, at
    <3>2. c <= l
      <4>1. ASSUME ~ (c <= l) PROVE FALSE
        <5>1. c \in l + 1 .. n
          BY <1>1, <2>4, <3>1, <4>1
        <5> QED
          BY <2>6, <3>1, <5>1
      <4> QED
        BY <4>1
    <3>3. l \in 1 .. n /\ s[l] \in codes
      BY <1>1, <2>4, <3>1, <3>2
    <3>4. l <= c
      BY <2>5, <3>3
    <3> QED
      BY <1>1, <2>4, <3>2, <3>3, <3>4
  <2> QED
    BY <2>3, <2>7, <2>8
<1> QED
  BY <1>5, <1>6

\* A text taken apart in two.
LEMMA SplitsAre ==
    ASSUME text \in Seq(Codes8), NEW ab \in Splits
    PROVE  ab[1] \in Seq(Codes8) /\ ab[2] \in Seq(Codes8) /\ text = Joined(ab[1], ab[2])
<1> DEFINE n == Len(text)
<1>1. n \in Nat /\ \A i \in 1 .. n : text[i] \in Codes8
  BY LenProperties, ElementOfSeq
<1>2. PICK i \in 0 .. n : ab = <<SubSeq(text, 1, i), SubSeq(text, i + 1, n)>>
  BY DEF Splits
<1> DEFINE a == SubSeq(text, 1, i)
           b == SubSeq(text, i + 1, n)
<1>3. ab[1] = a /\ ab[2] = b
  BY <1>2
<1>4. a \in Seq(Codes8)
  <2>1. i \in Int /\ \A j \in 1 .. i : text[j] \in Codes8
    BY <1>1
  <2> QED
    BY <2>1, SubSeqProperties
<1>5. b \in Seq(Codes8)
  <2> DEFINE d == i + 1
  <2>1. d \in Int /\ n \in Int /\ \A j \in d .. n : text[j] \in Codes8
    BY <1>1
  <2> HIDE DEF d, n
  <2>2. SubSeq(text, d, n) \in Seq(Codes8)
    BY <2>1, SubSeqProperties
  <2> QED
    BY <2>2 DEF d, n
<1>6. a \o b = text
  <2>1. 1 \in 1 .. n + 1 /\ i \in 1 - 1 .. n /\ n \in i .. n
    BY <1>1
  <2>2. SubSeq(text, 1, i) \o SubSeq(text, i + 1, n) = SubSeq(text, 1, n)
    BY <2>1, ConcatAdjacentSubSeq
  <2>3. SubSeq(text, 1, n) = text
    BY SubSeqFull
  <2> QED
    BY <2>2, <2>3
<1> HIDE DEF a, b
<1> QED
  BY <1>3, <1>4, <1>5, <1>6 DEF Joined

\* The end of a text is recognised as its end, and nothing longer is.
LEMMA TailMatches ==
    ASSUME NEW S, NEW a \in Seq(S), NEW b \in Seq(S)
    PROVE  match_tail(Joined(a, b), b) /\ (match_tail(a, b) => Len(b) <= Len(a))
<1> DEFINE m == Len(a)
           n == Len(b)
           j == Joined(a, b)
<1>1. m \in Nat /\ n \in Nat
  BY LenProperties
<1>2. j \in Seq(S) /\ Len(j) = m + n
  BY JoinedIs
<1>3. Follows(j, m, b)
  BY JoinedBehind
<1> HIDE DEF m, j
<1>4. \A k \in 1 .. n : j[m + k] = b[k]
  BY <1>3 DEF Follows
<1> HIDE DEF n
<1>5. \A k \in 0 .. n - 1 : j[Len(j) - k] = b[n - k]
  <2> TAKE k \in 0 .. n - 1
  <2>1. n - k \in 1 .. n /\ m + (n - k) = Len(j) - k
    BY <1>1, <1>2
  <2>2. j[m + (n - k)] = b[n - k]
    BY <1>4, <2>1
  <2> QED
    BY <2>1, <2>2
<1>6. match_tail(j, b)
  <2>1. ~ (Len(j) < Len(b)) /\ n \in 0 .. Len(b)
    BY <1>1, <1>2 DEF n
  <2> QED
    BY <1>5, <2>1 DEF match_tail, n
<1>7. match_tail(a, b) => n <= m
  BY <1>1 DEF match_tail, m, n
<1> QED
  BY <1>6, <1>7 DEF j, m, n

\* The directory of a name.
LEMMA DirectoryIs ==
    ASSUME NEW S, NEW a \in Seq(S), NEW b \in Seq(S), NEW l \in 0 .. Len(a)
    PROVE  /\ SubSeq(a, 1, l) \in Seq(S) /\ Len(SubSeq(a, 1, l)) = l
           /\ SubSeq(Joined(a, b), 1, l) = SubSeq(a, 1, l)
           /\ \A i \in 1 .. l : SubSeq(a, 1, l)[i] = a[i]
           /\ frontcmp(SubSeq(a, 1, l), a)
<1> DEFINE d == SubSeq(a, 1, l)
           n == Len(a)
           j == Joined(a, b)
<1>1. n \in Nat /\ (\A i \in 1 .. n : a[i] \in S) /\ l \in Int /\ l \in 0 .. n
  BY LenProperties, ElementOfSeq
<1> HIDE DEF n
<1>2. d \in Seq(S) /\ Len(d) = l /\ \A i \in 1 .. l : d[i] = a[i]
  <2>1. \A i \in 1 .. l : a[i] \in S
    BY <1>1
  <2>2. /\ SubSeq(a, 1, l) \in Seq(S) /\ Len(SubSeq(a, 1, l)) = (IF 1 <= l THEN l - 1 + 1 ELSE 0)
        /\ \A i \in 1 .. l - 1 + 1 : SubSeq(a, 1, l)[i] = a[1 + i - 1]
    BY <1>1, <2>1, SubSeqProperties
  <2>3. l - 1 + 1 = l /\ \A i \in 1 .. l : 1 + i - 1 = i
    BY <1>1
  <2> HIDE DEF d
  <2>4. d \in Seq(S) /\ Len(d) = (IF 1 <= l THEN l - 1 + 1 ELSE 0) /\ \A i \in 1 .. l - 1 + 1 : d[i] = a[1 + i - 1]
    BY <2>2 DEF d
  <2> QED
    BY <1>1, <2>3, <2>4
<1>3. SubSeq(j, 1, l) = d
  <2>1. CASE l = 0
    <3>1. SubSeq(j, 1, 0) = <<>> /\ SubSeq(a, 1, 0) = <<>>
      BY SubSeqEmpty
    <3> QED
      BY <2>1, <3>1
  <2>2. CASE l # 0
    <3>1. 1 \in 1 .. Len(a) /\ l \in 1 .. Len(a)
      BY <1>1, <2>2 DEF n
    <3>2. SubSeq(a \o b, 1, l) = SubSeq(a, 1, l)
      BY <3>1, SubSeqOfConcat1
    <3> QED
      BY <3>2 DEF Joined
  <2> QED
    BY <2>1, <2>2
<1>4. frontcmp(d, a)
  <2>1. SubSeq(d, 1, l) = d
    BY <1>2, SubSeqFull
  <2> DEFINE e == SubSeq(a, 1, l)
  <2>2. SubSeq(d, 1, l) = SubSeq(a, 1, l)
    BY <2>1
  <2> HIDE DEF d, e
  <2>3. l \in 0 .. l /\ l <= Len(a)
    BY <1>1 DEF n
  <2> QED
    BY <1>2, <2>2, <2>3 DEF frontcmp
<1> HIDE DEF d, j
<1> QED
  BY <1>2, <1>3, <1>4 DEF d, j

\* What is behind the last dot of a name is its suffix, whatever the directory.
LEMMA SuffixKept ==
    ASSUME NEW S, NEW d \in Seq(S), NEW b \in Seq(S), Len(d) # 0 => d[Len(d)] = Slash
    PROVE  suffix(Joined(d, b)) = suffix(b)
<1> DEFINE l == Len(d)
           n == Len(b)
           j == Joined(d, b)
           codes == {Slash, Dot}
           m == LastOf(b, codes)
<1>1. l \in Nat /\ n \in Nat /\ Slash # Dot
  BY LenProperties DEF Slash, Dot
<1>2. j \in Seq(S) /\ Len(j) = l + n
  BY JoinedIs
<1>3. \A k \in 1 .. l : j[k] = d[k]
  BY JoinedIs
<1>4. \A k \in 1 .. n : j[l + k] = b[k]
  <2>1. Follows(j, l, b)
    BY JoinedBehind
  <2> HIDE DEF j, l
  <2> QED
    BY <2>1 DEF Follows
<1>5. IsLast(b, codes, m)
  BY LastIs
<1> HIDE DEF m, j, l, n
<1>6. m \in 0 .. n /\ (m # 0 => b[m] \in codes) /\ \A k \in m + 1 .. n : b[k] \notin codes
  BY <1>5 DEF IsLast, n
<1>j. j \in Seq(S)
  BY <1>2
<1>7. ASSUME NEW e, IsLast(j, codes, e) PROVE LastOf(j, codes) = e
  <2> HIDE DEF codes
  <2> QED
    BY <1>j, <1>7, LastIs
<1>8. \A k \in (l + m) + 1 .. l + n : j[k] \notin codes
  <2> TAKE k \in (l + m) + 1 .. l + n
  <2>1. k - l \in m + 1 .. n /\ k - l \in 1 .. n /\ l + (k - l) = k
    BY <1>1, <1>6
  <2> HIDE DEF codes
  <2>2. j[k] = b[k - l]
    BY <1>4, <2>1
  <2> QED
    BY <1>6, <2>1, <2>2
<1>9. CASE m = 0
  <2>1. suffix(b) = NoString
    BY <1>9 DEF suffix, m
  <2>2. l # 0 => j[l] = Slash
    BY <1>1, <1>3 DEF l
  <2>3. IsLast(j, codes, l)
    <3>1. l \in 0 .. Len(j) /\ Len(j) = l + n /\ l + 0 = l
      BY <1>1, <1>2
    <3>2. \A k \in l + 1 .. l + n : j[k] \notin codes
      BY <1>1, <1>8, <1>9
    <3> QED
      BY <2>2, <3>1, <3>2 DEF IsLast
  <2>4. LastOf(j, codes) = l
    BY <1>7, <2>3
  <2>5. suffix(j) = NoString
    BY <1>1, <2>2, <2>4 DEF suffix
  <2> QED
    BY <2>1, <2>5 DEF j
<1>10. CASE m # 0
  <2> DEFINE e == l + m
  <2>1. e \in 1 .. l + n /\ m \in 1 .. n
    BY <1>1, <1>6, <1>10
  <2>2. j[e] = b[m]
    BY <1>4, <2>1
  <2>3. IsLast(j, codes, e)
    BY <1>2, <1>6, <1>8, <1>10, <2>1, <2>2 DEF IsLast
  <2>4. LastOf(j, codes) = e
    BY <1>7, <2>3
  <2>5. SubSeq(j, e + 1, Len(j)) = SubSeq(b, m + 1, Len(b))
    <3> DEFINE p == e + 1
               q == l + n
    <3>1. p \in Int /\ q \in Int /\ l \in Int /\ 1 <= p /\ q <= Len(j) /\ 1 <= p - l /\ q - l <= Len(b)
      BY <1>1, <1>2, <2>1 DEF n
    <3>2. p - l = m + 1 /\ q - l = n /\ q = Len(j)
      BY <1>1, <1>2, <2>1
    <3>3. \A k \in p .. q : j[k] = b[k - l]
      <4> TAKE k \in p .. q
      <4>1. k - l \in 1 .. n /\ l + (k - l) = k
        BY <1>1, <2>1
      <4> QED
        BY <1>4, <4>1
    <3> HIDE DEF p, q
    <3>4. SubSeq(j, p, q) = SubSeq(b, p - l, q - l)
      <4>1. p \in Int
        BY <3>1
      <4>2. q \in Int
        BY <3>1
      <4>3. l \in Int
        BY <3>1
      <4>4. 1 <= p /\ q <= Len(j) /\ 1 <= p - l /\ q - l <= Len(b)
        BY <3>1
      <4> QED
        BY <1>j, <3>3, <4>1, <4>2, <4>3, <4>4, SameSubSeq
    <3> QED
      BY <3>2, <3>4 DEF n, p
  <2>6. suffix(b) = IF b[m] = Dot THEN SubSeq(b, m + 1, Len(b)) ELSE NoString
    BY <2>1 DEF suffix, m
  <2>7. suffix(j) = IF j[e] = Dot THEN SubSeq(j, e + 1, Len(j)) ELSE NoString
    <3> HIDE DEF e
    <3>1. e > 0
      BY <2>1
    <3> QED
      BY <2>4, <3>1 DEF suffix
  <2> HIDE DEF e
  <2>8. suffix(j) = suffix(b)
    <3> DEFINE x == SubSeq(j, e + 1, Len(j))
               y == SubSeq(b, m + 1, Len(b))
    <3>1. x = y /\ suffix(b) = (IF b[m] = Dot THEN y ELSE NoString) /\ suffix(j) = (IF j[e] = Dot THEN x ELSE NoString)
      BY <2>5, <2>6, <2>7
    <3> HIDE DEF x, y
    <3> QED
      BY <2>2, <3>1
  <2> QED
    BY <2>8 DEF j
<1> QED
  BY <1>9, <1>10

\* A merged name.
LEMMA NamesMerged ==
    ASSUME NEW a \in Seq(Codes8), NEW b \in Seq(Codes8)
    PROVE  /\ match_tail(file_merge(a, b), b) /\ suffix(file_merge(a, b)) = suffix(b)
           /\ frontcmp(SubSeq(Joined(a, b), 1, Len(file_merge(a, b)) - Len(b)), a)
           /\ match_tail(a, b) => Len(b) <= Len(a)
<1> DEFINE l == LastOf(a, {Slash})
           d == SubSeq(a, 1, l)
           name == file_merge(a, b)
<1>1. name = Joined(d, b)
  BY DEF file_merge, Joined
<1>2. IsLast(a, {Slash}, l)
  BY LastIs
<1> HIDE DEF l
<1>3. l \in 0 .. Len(a) /\ (l # 0 => a[l] = Slash)
  BY <1>2 DEF IsLast
<1>l. l \in 0 .. Len(a)
  BY <1>3
<1>4. /\ d \in Seq(Codes8) /\ Len(d) = l /\ SubSeq(Joined(a, b), 1, l) = d
      /\ (\A i \in 1 .. l : d[i] = a[i]) /\ frontcmp(d, a)
  BY <1>l, DirectoryIs
<1>5. Len(a) \in Nat /\ Len(b) \in Nat
  BY LenProperties
<1> HIDE DEF d, name
<1>d. d \in Seq(Codes8)
  BY <1>4
<1>6. Len(d) # 0 => d[Len(d)] = Slash
  BY <1>3, <1>4, <1>5
<1>7. suffix(Joined(d, b)) = suffix(b)
  BY <1>d, <1>6, SuffixKept
<1>8. match_tail(Joined(d, b), b) /\ (match_tail(a, b) => Len(b) <= Len(a))
  BY <1>d, TailMatches
<1>9. Len(Joined(d, b)) = l + Len(b)
  BY <1>d, <1>4, JoinedIs
<1>10. Len(name) - Len(b) = l
  BY <1>1, <1>l, <1>5, <1>9
<1> QED
  BY <1>1, <1>4, <1>7, <1>8, <1>10 DEF name

LEMMA NamesStay ==
    ASSUME text \in Seq(Codes8)
    PROVE  NamesMerge
<1> SUFFICES ASSUME NEW ab \in Splits
             PROVE  LET name == file_merge(ab[1], ab[2]) IN
                    /\ match_tail(name, ab[2]) /\ suffix(name) = suffix(ab[2])
                    /\ ab[2] # text => frontcmp(SubSeq(text, 1, Len(name) - Len(ab[2])), ab[1])
                    /\ match_tail(ab[1], ab[2]) => Len(ab[2]) <= Len(ab[1])
  BY DEF NamesMerge
<1> DEFINE a == ab[1]
           b == ab[2]
<1>1. a \in Seq(Codes8) /\ b \in Seq(Codes8) /\ text = Joined(a, b)
  BY SplitsAre
<1>a. a \in Seq(Codes8)
  BY <1>1
<1>b. b \in Seq(Codes8)
  BY <1>1
<1> HIDE DEF a, b
<1>2. /\ match_tail(file_merge(a, b), b) /\ suffix(file_merge(a, b)) = suffix(b)
      /\ frontcmp(SubSeq(Joined(a, b), 1, Len(file_merge(a, b)) - Len(b)), a)
      /\ match_tail(a, b) => Len(b) <= Len(a)
  BY <1>a, <1>b, NamesMerged
<1> QED
  BY <1>1, <1>2 DEF a, b

-----------------------------------------------------------------------------
(* Text: Lists                                                             *)

\* What of a list has been split.
Splittings == [res : Seq(Seq(Codes8)), cur : Seq(Codes8), skip : BOOLEAN]
Splitting(res, cur, skip) == [res |-> res, cur |-> cur, skip |-> skip]
Splitter == [c \in Codes8 |-> [v \in Splittings |-> NextInList(v, c)]]
Begun == Splitting(<<>>, <<>>, FALSE)
SplitUp(s) == Folded(Splittings, Begun, Splitter, s)
Elements8(v) == Longer(v.res, v.cur)

LEMMA SplittingIs ==
    \A v \in Splittings : /\ v = Splitting(v.res, v.cur, v.skip)
                          /\ v.res \in Seq(Seq(Codes8)) /\ v.cur \in Seq(Codes8) /\ v.skip \in BOOLEAN
  BY DEF Splittings, Splitting

LEMMA SplittingMade ==
    ASSUME NEW res \in Seq(Seq(Codes8)), NEW cur \in Seq(Codes8), NEW skip \in BOOLEAN
    PROVE  Splitting(res, cur, skip) \in Splittings
<1> DEFINE T == Seq(Codes8)
           U == Seq(T)
<1>1. res \in U /\ cur \in T
  OBVIOUS
<1> HIDE DEF T, U
<1>2. Splitting(res, cur, skip) \in [res : U, cur : T, skip : BOOLEAN]
  BY <1>1 DEF Splitting
<1> QED
  BY <1>2 DEF T, U, Splittings

LEMMA NextInListIs ==
    ASSUME NEW res \in Seq(Seq(Codes8)), NEW cur \in Seq(Codes8), NEW skip \in BOOLEAN, NEW c \in Codes8
    PROVE  /\ NextInList(Splitting(res, cur, skip), c) \in Splittings
           /\ NextInList(Splitting(res, cur, skip), c) =
                 IF skip /\ c = Space THEN Splitting(res, cur, skip)
                 ELSE IF c = Comma THEN Splitting(Longer(res, cur), <<>>, TRUE)
                 ELSE Splitting(res, Longer(cur, c), FALSE)
<1> DEFINE v == Splitting(res, cur, skip)
           y == NextInList(v, c)
           T == Seq(Codes8)
<1>1. v.res = res /\ v.cur = cur /\ v.skip = skip
  BY DEF Splitting
<1>2. CASE skip /\ c = Space
  <2>1. y = v
    BY <1>1, <1>2 DEF NextInList
  <2>2. v \in Splittings
    BY SplittingMade
  <2> QED
    BY <1>2, <2>1, <2>2
<1>3. CASE ~ (skip /\ c = Space) /\ c = Comma
  <2>1. y = Splitting(Longer(res, cur), <<>>, TRUE)
    BY <1>1, <1>3 DEF NextInList, Splitting, Longer
  <2> DEFINE r == Longer(res, cur)
  <2>2. r \in Seq(T) /\ <<>> \in T
    BY LongerIs, EmptySeq
  <2>x. y = Splitting(r, <<>>, TRUE)
    BY <2>1
  <2> HIDE DEF r, y
  <2>y. Splitting(r, <<>>, TRUE) \in Splittings
    <3>1. TRUE \in BOOLEAN
      OBVIOUS
    <3> QED
      BY <2>2, <3>1, SplittingMade, Zenon
  <2>3. y \in Splittings
    BY <2>x, <2>y
  <2> QED
    BY <1>3, <2>1, <2>3 DEF r, y
<1>4. CASE ~ (skip /\ c = Space) /\ c # Comma
  <2> DEFINE u == Longer(cur, c)
  <2>1. y = Splitting(res, u, FALSE)
    <3>1. ASSUME NEW d PROVE [v EXCEPT !.cur = d, !.skip = FALSE] = Splitting(res, d, FALSE)
      <4>1. [v EXCEPT !.cur = d] = Splitting(res, d, skip)
        BY DEF Splitting
      <4>2. ASSUME NEW k, NEW m PROVE [Splitting(res, d, k) EXCEPT !.skip = m] = Splitting(res, d, m)
        BY DEF Splitting
      <4>3. [Splitting(res, d, skip) EXCEPT !.skip = FALSE] = Splitting(res, d, FALSE)
        BY <4>2, Zenon
      <4> HIDE DEF v
      <4> QED
        BY <4>1, <4>3
    <3> HIDE DEF v
    <3>2. y = [v EXCEPT !.cur = Append(v.cur, c), !.skip = FALSE]
      BY <1>1, <1>4 DEF NextInList
    <3> QED
      BY <1>1, <3>1, <3>2 DEF Longer
  <2>2. u \in T
    BY LongerIs
  <2> HIDE DEF u, y
  <2>3. y \in Splittings
    BY <2>1, <2>2, SplittingMade
  <2> QED
    BY <1>4, <2>1, <2>3 DEF u, y
<1> QED
  BY <1>2, <1>3, <1>4

LEMMA SplitterIs ==
    /\ Begun \in Splittings /\ Splitter \in [Codes8 -> [Splittings -> Splittings]]
    /\ \A c \in Codes8 : \A v \in Splittings : Splitter[c][v] = NextInList(v, c)
<1>1. ASSUME NEW c \in Codes8, NEW v \in Splittings PROVE NextInList(v, c) \in Splittings
  <2> DEFINE a == v.res
             b == v.cur
             d == v.skip
  <2>1. v = Splitting(a, b, d) /\ a \in Seq(Seq(Codes8)) /\ b \in Seq(Codes8) /\ d \in BOOLEAN
    BY SplittingIs
  <2> HIDE DEF a, b, d
  <2>2. NextInList(Splitting(a, b, d), c) \in Splittings
    BY <2>1, NextInListIs
  <2> QED
    BY <2>1, <2>2
<1>2. Begun \in Splittings
  <2> DEFINE T == Seq(Codes8)
  <2>1. <<>> \in T /\ <<>> \in Seq(T)
    BY EmptySeq
  <2> QED
    BY <2>1 DEF Begun, Splitting, Splittings
<1>3. Splitter \in [Codes8 -> [Splittings -> Splittings]]
  <2> DEFINE S == Splittings
  <2>1. \A c \in Codes8 : \A v \in S : NextInList(v, c) \in S
    BY <1>1
  <2> HIDE DEF S
  <2>2. [c \in Codes8 |-> [v \in S |-> NextInList(v, c)]] \in [Codes8 -> [S -> S]]
    BY <2>1
  <2> QED
    BY <2>2 DEF S, Splitter
<1>4. \A c \in Codes8 : \A v \in Splittings : Splitter[c][v] = NextInList(v, c)
  BY DEF Splitter
<1> QED
  BY <1>2, <1>3, <1>4

\* How a list goes on.
LEMMA SplitUpIs ==
    /\ SplitUp(<<>>) = Begun
    /\ \A s \in Seq(Codes8) : SplitUp(s) \in Splittings
    /\ \A s \in Seq(Codes8) : \A c \in Codes8 : SplitUp(Longer(s, c)) = NextInList(SplitUp(s), c)
<1> DEFINE S == Splittings
<1>1. Begun \in S
  BY SplitterIs
<1>2. Splitter \in [Codes8 -> [S -> S]]
  BY SplitterIs
<1> HIDE DEF S
<1>3. Folded(S, Begun, Splitter, <<>>) = Begun
  BY <1>1, <1>2, FoldedNothing
<1>4. ASSUME NEW s \in Seq(Codes8) PROVE Folded(S, Begun, Splitter, s) \in S
  BY <1>1, <1>2, FoldedIn
<1>5. ASSUME NEW s \in Seq(Codes8), NEW c \in Codes8
      PROVE  SplitUp(Longer(s, c)) = NextInList(SplitUp(s), c)
  <2>1. Folded(S, Begun, Splitter, Longer(s, c)) = Splitter[c][Folded(S, Begun, Splitter, s)]
    BY <1>1, <1>2, FoldedGrows
  <2>2. SplitUp(Longer(s, c)) = Splitter[c][SplitUp(s)] /\ SplitUp(s) \in Splittings
    BY <1>4, <2>1 DEF SplitUp, S
  <2> HIDE DEF SplitUp
  <2> QED
    BY <2>2, SplitterIs
<1> QED
  BY <1>3, <1>4, <1>5 DEF SplitUp, S

\* sepstring splits a list in these steps.
LEMMA SepstringRuns ==
    ASSUME NEW s \in Seq(Codes8), s # <<>>
    PROVE  sepstring(s) = Elements8(SplitUp(s))
<1> DEFINE N == Len(s)
           S == Splittings
           Body(f) == [i \in 0 .. N |-> IF i = 0 THEN NoElements ELSE NextInList(f[i - 1], s[i])]
           f0 == CHOOSE f : f = Body(f)
<1>1. N \in Nat /\ \A i \in 1 .. N : s[i] \in Codes8
  BY LenProperties, ElementOfSeq
<1>2. sepstring(s) = Append(f0[N].res, f0[N].cur)
  BY DEF sepstring
<1>b. Begun \in S
  BY SplitterIs
<1>s. Splitter \in [Codes8 -> [S -> S]]
  BY SplitterIs
<1>n. NoElements = Begun
  BY DEF NoElements, Begun, Splitting
<1>3. \A c \in Codes8 : \A v \in S : Splitter[c][v] = NextInList(v, c)
  BY SplitterIs
<1> HIDE DEF S
<1>5. PICK g : GoesThrough(g, S, Begun, Splitter, s)
  BY <1>b, <1>s, FoldedGoes
<1>6. g \in [0 .. N -> S] /\ g[0] = Begun /\ \A i \in 1 .. N : g[i] = Splitter[s[i]][g[i - 1]]
  BY <1>5 DEF GoesThrough
<1>7. \A i \in 1 .. N : i - 1 \in 0 .. N
  BY <1>1
<1> HIDE DEF N
<1>8. g = Body(g)
  <2>1. \A i \in 1 .. N : g[i] = NextInList(g[i - 1], s[i])
    BY <1>1, <1>3, <1>6, <1>7
  <2>2. \A i \in 0 .. N : i # 0 => i \in 1 .. N
    BY <1>1 DEF N
  <2> QED
    BY <1>6, <1>n, <2>1, <2>2
<1>9. f0 = Body(f0)
  <2> HIDE DEF Body
  <2> QED
    BY <1>8
<1> HIDE DEF f0
<1>10. f0[0] = Begun
  <2>1. 0 \in 0 .. N
    BY <1>1
  <2> QED
    BY <1>9, <1>n, <2>1
<1>11. \A i \in 1 .. N : f0[i] = NextInList(f0[i - 1], s[i])
  <2>1. \A i \in 1 .. N : i \in 0 .. N /\ i # 0
    BY <1>1
  <2> QED
    BY <1>9, <2>1
<1>12. \A i \in 1 .. N : f0[i - 1] \in S => f0[i] = Splitter[s[i]][f0[i - 1]]
  BY <1>1, <1>3, <1>11
<1>13. f0[Len(s)] = Folded(S, Begun, Splitter, s)
  <2>1. \A i \in 1 .. Len(s) : f0[i - 1] \in S => f0[i] = Splitter[s[i]][f0[i - 1]]
    BY <1>12 DEF N
  <2> QED
    BY <1>b, <1>s, <1>10, <2>1, FoldedRuns
<1> QED
  BY <1>2, <1>13 DEF N, S, SplitUp, Elements8, Longer

\* One character more.
Begins(v, res, cur, skip) ==
    /\ v = Splitting(res, cur, skip)
    /\ res \in Seq(Seq(Codes8)) /\ cur \in Seq(Codes8) /\ skip \in BOOLEAN
    /\ v.res = res /\ v.cur = cur

LEMMA SplitAs == \A v \in Splittings : Begins(v, v.res, v.cur, v.skip)
  BY SplittingIs DEF Begins

LEMMA SplitNext ==
    ASSUME NEW v, NEW res, NEW cur, NEW skip, Begins(v, res, cur, skip), NEW c \in Codes8
    PROVE  \/ c = Space /\ NextInList(v, c) = v
           \/ c = Comma /\ Begins(NextInList(v, c), Longer(res, cur), <<>>, TRUE)
           \/ c # Comma /\ Begins(NextInList(v, c), res, Longer(cur, c), FALSE)
<1> DEFINE w == NextInList(v, c)
           r == Longer(res, cur)
           u == Longer(cur, c)
           T == Seq(Codes8)
<1>1. v = Splitting(res, cur, skip) /\ res \in Seq(Seq(Codes8)) /\ cur \in Seq(Codes8) /\ skip \in BOOLEAN
  BY DEF Begins
<1>2. w = IF skip /\ c = Space THEN v ELSE IF c = Comma THEN Splitting(r, <<>>, TRUE) ELSE Splitting(res, u, FALSE)
  <2> HIDE DEF r, u
  <2>1. NextInList(Splitting(res, cur, skip), c) =
           IF skip /\ c = Space THEN Splitting(res, cur, skip)
           ELSE IF c = Comma THEN Splitting(Longer(res, cur), <<>>, TRUE)
           ELSE Splitting(res, Longer(cur, c), FALSE)
    BY <1>1, NextInListIs
  <2> QED
    BY <1>1, <2>1 DEF r, u
<1>3. r \in Seq(T) /\ <<>> \in T
  BY <1>1, LongerIs, EmptySeq
<1>4. u \in T
  BY <1>1, LongerIs
<1>5. ASSUME NEW x, NEW y, NEW z PROVE Splitting(x, y, z).res = x /\ Splitting(x, y, z).cur = y
  BY DEF Splitting
<1> HIDE DEF w, r, u
<1>6. CASE skip /\ c = Space
  BY <1>2, <1>6 DEF w
<1>7. CASE ~ (skip /\ c = Space) /\ c = Comma
  <2>1. w = Splitting(r, <<>>, TRUE)
    BY <1>2, <1>7
  <2>2. w.res = r /\ w.cur = <<>>
    BY <2>1 DEF Splitting
  <2>3. Begins(w, r, <<>>, TRUE)
    BY <1>3, <2>1, <2>2 DEF Begins
  <2> QED
    BY <1>7, <2>3 DEF w, r
<1>8. CASE ~ (skip /\ c = Space) /\ c # Comma
  <2>1. w = Splitting(res, u, FALSE)
    BY <1>2, <1>8
  <2>2. w.res = res /\ w.cur = u
    BY <2>1 DEF Splitting
  <2>3. Begins(w, res, u, FALSE)
    BY <1>1, <1>4, <2>1, <2>2 DEF Begins
  <2> QED
    BY <1>8, <2>3 DEF w, u
<1> QED
  BY <1>6, <1>7, <1>8

\* How many elements a list has, and that they are made of it.
ElementsOf(v, s) ==
    /\ Len(Elements8(v)) = Len(s) - Len(Without(s, Comma)) + 1
    /\ Without(FlattenSeq(Elements8(v)), Space) = Without(Without(s, Comma), Space)

LEMMA FlattenedElements ==
    ASSUME NEW v, NEW res, NEW cur, NEW skip, Begins(v, res, cur, skip)
    PROVE  /\ Elements8(v) = Longer(res, cur) /\ Elements8(v) \in Seq(Seq(Codes8))
           /\ Len(Elements8(v)) = Len(res) + 1
           /\ FlattenSeq(res) \in Seq(Codes8)
           /\ FlattenSeq(Elements8(v)) \in Seq(Codes8)
           /\ FlattenSeq(Elements8(v)) = Joined(FlattenSeq(res), cur)
<1> DEFINE T == Seq(Codes8)
           e == Elements8(v)
<1>1. res \in Seq(T) /\ cur \in T /\ e = Longer(res, cur)
  BY DEF Begins, Elements8
<1> HIDE DEF e
<1>2. e \in Seq(T) /\ Len(e) = Len(res) + 1
  BY <1>1, LongerIs
<1>3. FlattenSeq(res) \in T /\ FlattenSeq(e) \in T
  BY <1>1, <1>2, FlattenGrows
<1>4. FlattenSeq(e) = Joined(FlattenSeq(res), cur)
  BY <1>1, FlattenGrows
<1> QED
  BY <1>1, <1>2, <1>3, <1>4 DEF e

LEMMA ElementsKept ==
    ASSUME NEW s \in Seq(Codes8)
    PROVE  ElementsOf(SplitUp(s), s)
<1> DEFINE P == {x \in Seq(Codes8) : ElementsOf(SplitUp(x), x)}
<1>1. <<>> \in P
  <2> DEFINE e == <<>>
             v == Splitting(e, e, FALSE)
  <2>1. e \in Seq(Codes8) /\ e \in Seq(Seq(Codes8)) /\ Len(e) = 0
    BY EmptySeq
  <2>2. Without(e, Comma) = e /\ Without(e, Space) = e /\ FlattenSeq(e) = e
    BY WithoutNothing, FlattenGrows
  <2>3. SplitUp(e) = v
    BY SplitUpIs DEF Begun
  <2>4. v.res = e /\ v.cur = e
    BY DEF Splitting
  <2> HIDE DEF e, v
  <2>5. Begins(v, e, e, FALSE)
    BY <2>1, <2>4 DEF Begins, v
  <2>6. Len(Elements8(v)) = Len(e) + 1 /\ FlattenSeq(Elements8(v)) = Joined(FlattenSeq(e), e)
    BY <2>5, FlattenedElements
  <2>7. Joined(e, e) = e
    BY <2>1, JoinedNothing DEF e
  <2>8. ElementsOf(v, e)
    BY <2>1, <2>2, <2>6, <2>7 DEF ElementsOf
  <2> QED
    BY <2>1, <2>3, <2>8 DEF e
<1>2. ASSUME NEW x \in Seq(Codes8), NEW c \in Codes8, x \in P PROVE Longer(x, c) \in P
  <2> DEFINE v == SplitUp(x)
             w == NextInList(v, c)
             y == Longer(x, c)
             a == Without(x, Comma)
             b == Without(y, Comma)
             res == v.res
             cur == v.cur
  <2>1. v \in Splittings /\ SplitUp(y) = w
    BY SplitUpIs
  <2>2. Begins(v, res, cur, v.skip)
    BY <2>1, SplitAs
  <2>3. y \in Seq(Codes8) /\ Len(y) = Len(x) + 1 /\ Len(x) \in Nat
    BY LongerIs, LenProperties
  <2>4. b = (IF c = Comma THEN a ELSE Longer(a, c)) /\ a \in Seq(Codes8)
    BY WithoutGrows
  <2>a. a \in Seq(Codes8)
    BY <2>4
  <2>l. Len(Longer(a, c)) = Len(a) + 1 /\ Len(a) \in Nat
    BY <2>a, LongerIs, LenProperties
  <2>5. ElementsOf(v, x)
    BY <1>2
  <2>e. Comma # Space
    BY DEF Comma, Space
  <2> DEFINE k == v.skip
             E == Elements8(v)
             F == FlattenSeq(E)
             D == Elements8(w)
  <2> HIDE DEF v, w, res, cur, k, a, b, y, E, F, D
  <2>6. Begins(v, res, cur, k)
    BY <2>2 DEF k
  <2>7. /\ E = Longer(res, cur) /\ E \in Seq(Seq(Codes8)) /\ Len(E) = Len(res) + 1
        /\ FlattenSeq(res) \in Seq(Codes8)
        /\ F \in Seq(Codes8) /\ F = Joined(FlattenSeq(res), cur)
    BY <2>6, FlattenedElements DEF E, F
  <2>8. Len(E) = Len(x) - Len(a) + 1 /\ Without(F, Space) = Without(a, Space)
    BY <2>5 DEF ElementsOf, E, F, a
  <2>9. \/ c = Space /\ w = v
        \/ c = Comma /\ Begins(w, Longer(res, cur), <<>>, TRUE)
        \/ c # Comma /\ Begins(w, res, Longer(cur, c), FALSE)
    BY <2>6, SplitNext DEF w
  <2>f. F \in Seq(Codes8)
    BY <2>7
  <2>g. Without(Longer(F, c), Space) = (IF c = Space THEN Without(F, Space) ELSE Longer(Without(F, Space), c))
    BY <2>f, WithoutGrows
  <2>h. Without(Longer(a, c), Space) = (IF c = Space THEN Without(a, Space) ELSE Longer(Without(a, Space), c))
    BY <2>a, WithoutGrows
  <2>10. ASSUME c = Space /\ w = v PROVE ElementsOf(w, y)
    <3>1. D = E
      BY <2>10 DEF D, E
    <3>2. b = Longer(a, c) /\ Without(b, Space) = Without(a, Space) /\ Len(b) = Len(a) + 1
      BY <2>4, <2>e, <2>h, <2>l, <2>10
    <3>3. Len(D) = Len(y) - Len(b) + 1
      BY <2>3, <2>8, <2>l, <3>1, <3>2 DEF y
    <3>4. Without(FlattenSeq(D), Space) = Without(b, Space)
      BY <2>8, <3>1, <3>2 DEF F
    <3> QED
      BY <3>3, <3>4 DEF ElementsOf, D, b
  <2>11. ASSUME c = Comma /\ Begins(w, Longer(res, cur), <<>>, TRUE) PROVE ElementsOf(w, y)
    <3> DEFINE r == Longer(res, cur)
               e == <<>>
    <3>1. Begins(w, r, e, TRUE)
      BY <2>11
    <3>2. r = E /\ Joined(F, e) = F
      BY <2>7, <2>f, JoinedNothing
    <3> HIDE DEF r, e
    <3>3. Len(D) = Len(r) + 1 /\ FlattenSeq(D) = Joined(FlattenSeq(r), e)
      BY <3>1, FlattenedElements DEF D
    <3>4. b = a
      BY <2>4, <2>11
    <3>5. Len(D) = Len(y) - Len(b) + 1
      BY <2>3, <2>8, <2>l, <3>2, <3>3, <3>4 DEF y
    <3>6. Without(FlattenSeq(D), Space) = Without(b, Space)
      BY <2>8, <3>2, <3>3, <3>4 DEF F
    <3> QED
      BY <3>5, <3>6 DEF ElementsOf, D, b
  <2>12. ASSUME c # Comma /\ Begins(w, res, Longer(cur, c), FALSE) PROVE ElementsOf(w, y)
    <3> DEFINE u == Longer(cur, c)
               R == FlattenSeq(res)
    <3>1. Begins(w, res, u, FALSE)
      BY <2>12
    <3>2. cur \in Seq(Codes8)
      BY <2>6 DEF Begins
    <3>3. R \in Seq(Codes8)
      BY <2>7
    <3>4. Longer(Joined(R, cur), c) = Joined(R, Longer(cur, c))
      BY <3>2, <3>3, AppendBehind
    <3> HIDE DEF u
    <3>5. Len(D) = Len(res) + 1 /\ FlattenSeq(D) = Joined(R, u)
      BY <3>1, FlattenedElements DEF D
    <3> HIDE DEF R
    <3>6. FlattenSeq(D) = Longer(F, c)
      BY <2>7, <3>4, <3>5 DEF u, R
    <3>7. b = Longer(a, c)
      BY <2>4, <2>12
    <3>8. Len(D) = Len(y) - Len(b) + 1
      BY <2>3, <2>7, <2>8, <2>l, <3>5, <3>7 DEF y
    <3>9. Without(FlattenSeq(D), Space) = Without(b, Space)
      BY <2>8, <2>g, <2>h, <3>6, <3>7
    <3> QED
      BY <3>8, <3>9 DEF ElementsOf, D, b
  <2>13. ElementsOf(w, y)
    BY <2>9, <2>10, <2>11, <2>12
  <2> QED
    BY <2>1, <2>3, <2>13 DEF y
<1>3. Seq(Codes8) \subseteq P
  <2> HIDE DEF P
  <2> QED
    BY <1>1, <1>2, ByGrowth
<1> QED
  BY <1>3

\* Behind other elements, a list is split as it is on its own.
Preceded(A, v) == Splitting(Joined(A, v.res), v.cur, v.skip)

LEMMA BehindNext ==
    ASSUME NEW A \in Seq(Seq(Codes8)), NEW v \in Splittings, NEW c \in Codes8
    PROVE  /\ NextInList(Preceded(A, v), c) = Preceded(A, NextInList(v, c))
           /\ Elements8(Preceded(A, v)) = Joined(A, Elements8(v))
<1> DEFINE T == Seq(Codes8)
           res == v.res
           cur == v.cur
           skip == v.skip
           j == Joined(A, res)
           w == NextInList(v, c)
<1>1. v = Splitting(res, cur, skip) /\ res \in Seq(T) /\ cur \in T /\ skip \in BOOLEAN
  BY SplittingIs
<1>2. Preceded(A, v) = Splitting(j, cur, skip)
  BY DEF Preceded
<1> HIDE DEF res, cur, skip
<1>3. j \in Seq(T)
  BY <1>1, JoinedIs
<1>4. Longer(j, cur) = Joined(A, Longer(res, cur))
  BY <1>1, AppendBehind
<1>5. ASSUME NEW x, NEW y, NEW z PROVE Preceded(A, Splitting(x, y, z)) = Splitting(Joined(A, x), y, z)
  BY DEF Preceded, Splitting
<1>6. w = IF skip /\ c = Space THEN Splitting(res, cur, skip)
          ELSE IF c = Comma THEN Splitting(Longer(res, cur), <<>>, TRUE) ELSE Splitting(res, Longer(cur, c), FALSE)
  BY <1>1, NextInListIs
<1> HIDE DEF j, w
<1>7. NextInList(Splitting(j, cur, skip), c) =
          IF skip /\ c = Space THEN Splitting(j, cur, skip)
          ELSE IF c = Comma THEN Splitting(Longer(j, cur), <<>>, TRUE) ELSE Splitting(j, Longer(cur, c), FALSE)
  BY <1>1, <1>3, NextInListIs
<1>8. Preceded(A, w) = NextInList(Splitting(j, cur, skip), c)
  <2>1. CASE skip /\ c = Space
    BY <1>5, <1>6, <1>7, <2>1 DEF j
  <2>2. CASE ~ (skip /\ c = Space) /\ c = Comma
    BY <1>4, <1>5, <1>6, <1>7, <2>2
  <2>3. CASE ~ (skip /\ c = Space) /\ c # Comma
    BY <1>5, <1>6, <1>7, <2>3 DEF j
  <2> QED
    BY <2>1, <2>2, <2>3
<1>9. Elements8(Preceded(A, v)) = Longer(j, cur)
  BY <1>2 DEF Elements8, Splitting
<1>10. Elements8(v) = Longer(res, cur)
  BY DEF Elements8, res, cur
<1> QED
  BY <1>2, <1>4, <1>8, <1>9, <1>10 DEF w

LEMMA SplitBehind ==
    ASSUME NEW a \in Seq(Codes8), NEW b \in Seq(Codes8), b # <<>>, b[1] # Space
    PROVE  SplitUp(Joined(Longer(a, Comma), b)) = Preceded(Elements8(SplitUp(a)), SplitUp(b))
<1> DEFINE T == Seq(Codes8)
           A == Elements8(SplitUp(a))
           ac == Longer(a, Comma)
           P == {x \in T : x = <<>> \/ x[1] = Space \/ SplitUp(Joined(ac, x)) = Preceded(A, SplitUp(x))}
<1>c. Comma \in Codes8 /\ Comma # Space
  BY DEF Comma, Space, Codes8
<1>1. ac \in T
  BY <1>c, LongerIs
<1>2. A \in Seq(T) /\ SplitUp(ac) = Splitting(A, <<>>, TRUE)
  <2> DEFINE v == SplitUp(a)
             w == NextInList(v, Comma)
             r == v.res
             u == v.cur
             k == v.skip
  <2>1. v \in Splittings /\ SplitUp(ac) = w
    BY <1>c, SplitUpIs
  <2>2. Begins(v, r, u, k)
    BY <2>1, SplitAs
  <2> HIDE DEF r, u, k, v
  <2>3. Begins(w, Longer(r, u), <<>>, TRUE)
    BY <1>c, <2>2, SplitNext
  <2>4. Elements8(v) = Longer(r, u)
    BY <2>2, FlattenedElements
  <2> HIDE DEF w
  <2> QED
    BY <2>1, <2>3, <2>4 DEF Begins, v
<1> HIDE DEF A, ac
<1>3. <<>> \in P
  BY EmptySeq
<1>4. ASSUME NEW x \in T, NEW c \in Codes8, x \in P PROVE Longer(x, c) \in P
  <2> DEFINE y == Longer(x, c)
  <2>1. y \in T /\ Len(y) = Len(x) + 1 /\ Len(x) \in Nat /\ y[Len(x) + 1] = c
    BY LongerIs, LenProperties
  <2>2. ASSUME NEW i \in 1 .. Len(x) PROVE y[i] = x[i]
    <3>1. \A k \in 1 .. Len(x) : Longer(x, c)[k] = x[k]
      BY LongerIs
    <3> QED
      BY <3>1
  <2>3. SplitUp(y) = NextInList(SplitUp(x), c) /\ SplitUp(x) \in Splittings
    BY SplitUpIs
  <2>4. Joined(ac, y) = Longer(Joined(ac, x), c)
    BY <1>1, AppendBehind
  <2>5. Joined(ac, x) \in T
    BY <1>1, JoinedIs
  <2>6. SplitUp(Joined(ac, y)) = NextInList(SplitUp(Joined(ac, x)), c)
    BY <2>4, <2>5, SplitUpIs
  <2>7. CASE x = <<>> /\ c # Space
    <3> DEFINE e == <<>>
    <3>1. e \in Seq(T) /\ e \in T /\ Joined(ac, e) = ac /\ Joined(A, e) = A
      BY <1>1, <1>2, EmptySeq, JoinedNothing
    <3>2. SplitUp(x) = Splitting(e, e, FALSE)
      BY <2>7, SplitUpIs DEF Begun
    <3>3. SplitUp(Joined(ac, x)) = Splitting(A, e, TRUE)
      BY <1>2, <2>7, <3>1
    <3> HIDE DEF e
    <3>t. TRUE \in BOOLEAN /\ FALSE \in BOOLEAN
      OBVIOUS
    <3>4. NextInList(Splitting(e, e, FALSE), c) =
             IF c = Comma THEN Splitting(Longer(e, e), <<>>, TRUE) ELSE Splitting(e, Longer(e, c), FALSE)
      <4>1. NextInList(Splitting(e, e, FALSE), c) =
              IF FALSE /\ c = Space THEN Splitting(e, e, FALSE)
              ELSE IF c = Comma THEN Splitting(Longer(e, e), <<>>, TRUE) ELSE Splitting(e, Longer(e, c), FALSE)
        BY <3>1, <3>t, NextInListIs, Zenon
      <4> QED
        BY <4>1
    <3>5. NextInList(Splitting(A, e, TRUE), c) =
             IF c = Comma THEN Splitting(Longer(A, e), <<>>, TRUE) ELSE Splitting(A, Longer(e, c), FALSE)
      <4>1. NextInList(Splitting(A, e, TRUE), c) =
              IF TRUE /\ c = Space THEN Splitting(A, e, TRUE)
              ELSE IF c = Comma THEN Splitting(Longer(A, e), <<>>, TRUE) ELSE Splitting(A, Longer(e, c), FALSE)
        BY <1>2, <3>1, <3>t, NextInListIs, Zenon
      <4> QED
        BY <2>7, <4>1
    <3>6. ASSUME NEW p, NEW q, NEW z PROVE Preceded(A, Splitting(p, q, z)) = Splitting(Joined(A, p), q, z)
      BY DEF Preceded, Splitting
    <3>7. Joined(A, Longer(e, e)) = Longer(A, e)
      <4>1. Longer(Joined(A, e), e) = Joined(A, Longer(e, e))
        BY <1>2, <3>1, AppendBehind
      <4> QED
        BY <3>1, <4>1
    <3>8. SplitUp(Joined(ac, y)) = Preceded(A, SplitUp(y))
      <4>1. CASE c = Comma
        <5> DEFINE r == Longer(e, e)
                   q == Longer(A, e)
        <5> HIDE DEF r, q
        <5>1. SplitUp(y) = Splitting(r, <<>>, TRUE)
          BY <2>3, <3>2, <3>4, <4>1, Zenon DEF r
        <5>2. SplitUp(Joined(ac, y)) = Splitting(q, <<>>, TRUE)
          BY <2>6, <3>3, <3>5, <4>1, Zenon DEF q
        <5>3. Preceded(A, Splitting(r, <<>>, TRUE)) = Splitting(Joined(A, r), <<>>, TRUE)
          BY <3>6, Zenon
        <5> QED
          BY <3>7, <5>1, <5>2, <5>3, Zenon DEF r, q
      <4>2. CASE c # Comma
        <5> DEFINE u == Longer(e, c)
        <5> HIDE DEF u
        <5>1. SplitUp(y) = Splitting(e, u, FALSE)
          BY <2>3, <3>2, <3>4, <4>2, Zenon DEF u
        <5>2. SplitUp(Joined(ac, y)) = Splitting(A, u, FALSE)
          BY <2>6, <3>3, <3>5, <4>2, Zenon DEF u
        <5>3. Preceded(A, Splitting(e, u, FALSE)) = Splitting(Joined(A, e), u, FALSE)
          BY <3>6, Zenon
        <5> QED
          BY <3>1, <5>1, <5>2, <5>3, Zenon
      <4> QED
        BY <4>1, <4>2
    <3> QED
      BY <2>1, <3>8
  <2>8. CASE x = <<>> /\ c = Space
    <3>1. Len(x) = 0
      BY <2>8
    <3>2. y[1] = Space
      BY <2>1, <2>8, <3>1
    <3> QED
      BY <2>1, <3>2
  <2>9. CASE x # <<>> /\ x[1] = Space
    <3>1. 1 \in 1 .. Len(x)
      BY <2>9, EmptySeq, LenProperties
    <3>2. y[1] = Space
      BY <2>2, <2>9, <3>1
    <3> QED
      BY <2>1, <3>2
  <2>10. CASE x # <<>> /\ x[1] # Space
    <3>1. SplitUp(Joined(ac, x)) = Preceded(A, SplitUp(x))
      BY <1>4, <2>10
    <3>2. NextInList(Preceded(A, SplitUp(x)), c) = Preceded(A, NextInList(SplitUp(x), c))
      BY <1>2, <2>3, BehindNext
    <3>3. SplitUp(Joined(ac, y)) = Preceded(A, SplitUp(y))
      BY <2>3, <2>6, <3>1, <3>2
    <3> QED
      BY <2>1, <3>3
  <2> QED
    BY <2>7, <2>8, <2>9, <2>10
<1>5. T \subseteq P
  <2> HIDE DEF P
  <2> QED
    BY <1>3, <1>4, ByGrowth
<1> QED
  BY <1>5 DEF A, ac

\* The elements of a list are no null vector.
LEMMA ElementsAre ==
    ASSUME NEW s \in Seq(Codes8)
    PROVE  Elements8(SplitUp(s)) \in Seq(Seq(Codes8)) /\ Elements8(SplitUp(s)) # NoVec
<1> DEFINE v == SplitUp(s)
           e == Elements8(v)
           r == v.res
           u == v.cur
           k == v.skip
<1>1. v \in Splittings
  BY SplitUpIs
<1>2. Begins(v, r, u, k)
  BY <1>1, SplitAs
<1> HIDE DEF r, u, k, v
<1>3. e \in Seq(Seq(Codes8))
  BY <1>2, FlattenedElements
<1> HIDE DEF e
<1>4. ASSUME e = NoVec PROVE FALSE
  <2>1. NoString \in Seq(Codes8)
    <3>1. Len(e) = 1 /\ e[1] = NoString
      BY <1>4 DEF NoVec
    <3> DEFINE T == Seq(Codes8)
    <3>2. e \in Seq(T) /\ 1 \in 1 .. Len(e)
      BY <1>3, <3>1
    <3> HIDE DEF T
    <3>3. e[1] \in T
      BY <3>2, ElementOfSeq
    <3> QED
      BY <3>1, <3>3 DEF T
  <2>2. Len(NoString) = 1 /\ NoString[1] = -1
    BY DEF NoString
  <2>3. NoString[1] \in Codes8
    BY <2>1, <2>2, ElementOfSeq
  <2> QED
    BY <2>2, <2>3 DEF Codes8
<1> QED
  BY <1>3, <1>4 DEF e, v

LEMMA ListsStay ==
    ASSUME text \in Seq(Codes8)
    PROVE  ListsSplit
<1> SUFFICES ASSUME text # <<>>
             PROVE  /\ Len(sepstring(text)) = Len(text) - Len(Without(text, Comma)) + 1
                    /\ Without(FlattenSeq(sepstring(text)), Space) = Without(Without(text, Comma), Space)
                    /\ \A ab \in Splits :
                          ab[1] # <<>> /\ ab[2] # <<>> /\ Head(ab[2]) # Space =>
                              merge_vecs(sepstring(ab[1]), sepstring(ab[2]))
                                  = sepstring(ab[1] \o <<Comma>> \o ab[2])
  BY DEF ListsSplit
<1>1. sepstring(text) = Elements8(SplitUp(text))
  BY SepstringRuns
<1>2. ElementsOf(SplitUp(text), text)
  BY ElementsKept
<1>3. ASSUME NEW ab \in Splits, ab[1] # <<>>, ab[2] # <<>>, Head(ab[2]) # Space
      PROVE  merge_vecs(sepstring(ab[1]), sepstring(ab[2])) = sepstring(ab[1] \o <<Comma>> \o ab[2])
  <2> DEFINE a == ab[1]
             b == ab[2]
             A == Elements8(SplitUp(a))
             B == Elements8(SplitUp(b))
             j == Joined(Longer(a, Comma), b)
  <2>1. a \in Seq(Codes8) /\ b \in Seq(Codes8)
    BY SplitsAre
  <2>2. a # <<>> /\ b # <<>> /\ Head(b) # Space
    BY <1>3
  <2>3. Comma \in Codes8
    BY DEF Comma, Codes8
  <2>a. a \in Seq(Codes8)
    BY <2>1
  <2>b. b \in Seq(Codes8)
    BY <2>1
  <2>4. (a \o <<Comma>>) \o b = j
    <3>1. Joined(a, <<Comma>>) = Longer(a, Comma)
      BY <2>a, <2>3, LongerOne
    <3>2. Joined(Joined(a, <<Comma>>), b) = (a \o <<Comma>>) \o b
      BY DEF Joined
    <3> QED
      BY <3>1, <3>2
  <2> HIDE DEF a, b
  <2>5. b[1] # Space
    BY <2>1, <2>2
  <2>l. Longer(a, Comma) \in Seq(Codes8) /\ Len(Longer(a, Comma)) = Len(a) + 1 /\ Len(a) \in Nat /\ Len(b) \in Nat
    BY <2>a, <2>b, <2>3, LongerIs, LenProperties
  <2>6. j \in Seq(Codes8) /\ Len(j) = Len(Longer(a, Comma)) + Len(b)
    BY <2>b, <2>l, JoinedIs
  <2>7. j # <<>>
    <3>1. Len(j) # 0
      BY <2>l, <2>6
    <3>2. Len(<<>>) = 0
      OBVIOUS
    <3> QED
      BY <3>1, <3>2
  <2> HIDE DEF j
  <2>8. sepstring(a) = A /\ sepstring(b) = B /\ sepstring(j) = Elements8(SplitUp(j))
    BY <2>a, <2>b, <2>2, <2>6, <2>7, SepstringRuns
  <2>9. A \in Seq(Seq(Codes8)) /\ A # NoVec /\ B # NoVec
    BY <2>a, <2>b, ElementsAre
  <2>10. SplitUp(j) = Preceded(A, SplitUp(b))
    BY <2>a, <2>b, <2>2, <2>5, SplitBehind DEF j
  <2>11. SplitUp(b) \in Splittings
    BY <2>b, SplitUpIs
  <2> HIDE DEF A
  <2>12. Elements8(Preceded(A, SplitUp(b))) = Joined(A, B)
    BY <2>3, <2>9, <2>11, BehindNext
  <2> HIDE DEF B
  <2>13. merge_vecs(A, B) = Joined(A, B)
    BY <2>9 DEF merge_vecs, Joined
  <2>14. merge_vecs(sepstring(a), sepstring(b)) = sepstring(j)
    BY <2>8, <2>10, <2>12, <2>13
  <2> QED
    BY <2>4, <2>14 DEF a, b
<1> QED
  BY <1>1, <1>2, <1>3 DEF ElementsOf

-----------------------------------------------------------------------------
(* Text: Base 64                                                           *)

\* What has been taken from a code of base 64.
Takings == [at : 1 .. 5, bits : Int, to : Seq(Int), bad : BOOLEAN]
Taken(at, bits, to, bad) == [at |-> at, bits |-> bits, to |-> to, bad |-> bad]
Taker == [c \in Codes8 |-> [d \in Takings |-> Next64(d, c)]]
NoneTaken == Taken(1, 0, <<>>, FALSE)

LEMMA TakingIs ==
    \A d \in Takings : /\ d = Taken(d.at, d.bits, d.to, d.bad)
                       /\ d.at \in 1 .. 5 /\ d.bits \in Int /\ d.to \in Seq(Int) /\ d.bad \in BOOLEAN
  BY DEF Takings, Taken

LEMMA TakenIs ==
    ASSUME NEW at \in 1 .. 5, NEW bits \in Int, NEW to \in Seq(Int), NEW bad \in BOOLEAN
    PROVE  Taken(at, bits, to, bad) \in Takings
<1> DEFINE T == Seq(Int)
<1>1. to \in T
  OBVIOUS
<1> HIDE DEF T
<1>2. Taken(at, bits, to, bad) \in [at : 1 .. 5, bits : Int, to : T, bad : BOOLEAN]
  BY <1>1 DEF Taken
<1> QED
  BY <1>2 DEF T, Takings

\* The next character's place.
NextPlace(at) == (at % 4) + 1

TakesAs(d, at, to, bad, v, out) == Takes(d, v, out) = Taken(NextPlace(at), v, Joined(to, out), bad)

LEMMA TakesIs ==
    ASSUME NEW at, NEW bits, NEW to, NEW bad, NEW v, NEW out
    PROVE  TakesAs(Taken(at, bits, to, bad), at, to, bad, v, out)
<1> DEFINE d == Taken(at, bits, to, bad)
           j == Joined(to, out)
           a == NextPlace(at)
<1>1. d.at = at /\ d.to = to
  BY DEF Taken
<1>2. Takes(d, v, out) = [d EXCEPT !.at = (d.at % 4) + 1, !.bits = v, !.to = d.to \o out]
  BY DEF Takes
<1>3. Takes(d, v, out) = [d EXCEPT !.at = a, !.bits = v, !.to = j]
  BY <1>1, <1>2 DEF Joined, NextPlace
<1> HIDE DEF j, a
<1>4. [d EXCEPT !.at = a, !.bits = v, !.to = j] = Taken(a, v, j, bad)
  <2>1. [d EXCEPT !.at = a] = Taken(a, bits, to, bad)
    BY DEF Taken
  <2>2. [Taken(a, bits, to, bad) EXCEPT !.bits = v] = Taken(a, v, to, bad)
    BY DEF Taken
  <2>3. [Taken(a, v, to, bad) EXCEPT !.to = j] = Taken(a, v, j, bad)
    BY DEF Taken
  <2> HIDE DEF d
  <2> QED
    BY <2>1, <2>2, <2>3
<1> QED
  BY <1>3, <1>4 DEF j, a, TakesAs

LEMMA ValuesIs == \A c \in Codes8 : Value64(c) \in -1 .. 63 /\ (c = Equals => Value64(c) = -1)
  BY DEF Codes8, Value64, Plus, Slash, Equals

\* What a character of a code does.
LEMMA Next64Is ==
    ASSUME NEW at \in 1 .. 5, NEW bits \in Int, NEW to \in Seq(Int), NEW c \in Codes8
    PROVE  LET d == Taken(at, bits, to, FALSE)
               v == Value64(c) IN
           /\ v < 0 /\ c # Equals => Next64(d, c) = d
           /\ c = Equals /\ at \in {3, 4, 5} => Next64(d, c) = Taken(IF at = 3 THEN 5 ELSE 1, bits, to, FALSE)
           /\ v >= 0 /\ at = 1 => Next64(d, c) = Taken(2, v, to, FALSE)
           /\ v >= 0 /\ at = 2 => Next64(d, c) = Taken(3, v % 16, Longer(to, bits * 4 + v \div 16), FALSE)
           /\ v >= 0 /\ at = 3 => Next64(d, c) = Taken(4, v % 4, Longer(to, bits * 16 + v \div 4), FALSE)
           /\ v >= 0 /\ at = 4 => Next64(d, c) = Taken(1, 0, Longer(to, bits * 64 + v), FALSE)
<1> DEFINE d == Taken(at, bits, to, FALSE)
           v == Value64(c)
           w == Next64(d, c)
<1>1. d.at = at /\ d.bits = bits /\ d.to = to /\ d.bad = FALSE
  BY DEF Taken
<1>2. v \in -1 .. 63 /\ (c = Equals => v = -1)
  BY ValuesIs
<1>3. \A z, out : Takes(d, z, out) = Taken(NextPlace(at), z, Joined(to, out), FALSE)
  <2> TAKE z, out
  <2>1. TakesAs(Taken(at, bits, to, FALSE), at, to, FALSE, z, out)
    BY TakesIs, Zenon
  <2> QED
    BY <2>1 DEF TakesAs
<1>4. ASSUME NEW z, z \in Int PROVE Joined(to, <<z>>) = Longer(to, z)
  BY <1>4, LongerOne
<1>5. Joined(to, <<>>) = to
  BY JoinedNothing
<1>6. ASSUME NEW a PROVE [d EXCEPT !.at = a] = Taken(a, bits, to, FALSE)
  <2>1. ASSUME NEW b PROVE [Taken(at, bits, to, b) EXCEPT !.at = a] = Taken(a, bits, to, b)
    BY DEF Taken
  <2> QED
    BY <2>1, Zenon
<1> HIDE DEF d, v
<1>7. v < 0 /\ c # Equals => w = d
  BY <1>1 DEF Next64, v
<1>8. ASSUME c = Equals, at \in {3, 4, 5} PROVE w = Taken(IF at = 3 THEN 5 ELSE 1, bits, to, FALSE)
  <2> DEFINE a == IF at = 3 THEN 5 ELSE 1
  <2>1. w = [d EXCEPT !.at = IF d.at = 3 THEN 5 ELSE 1]
    BY <1>1, <1>2, <1>8 DEF Next64, v
  <2>2. w = [d EXCEPT !.at = a]
    BY <1>1, <2>1
  <2> HIDE DEF a, w
  <2>3. w = Taken(a, bits, to, FALSE)
    BY <1>6, <2>2
  <2> QED
    BY <2>3 DEF a, w
<1>9. ASSUME v >= 0 PROVE c # Equals /\ ~ (v < 0)
  BY <1>2, <1>9
<1>10. ASSUME v >= 0, at = 1 PROVE w = Taken(2, v, to, FALSE)
  <2>1. w = Takes(d, v, <<>>)
    BY <1>1, <1>9, <1>10 DEF Next64, v
  <2>2. NextPlace(at) = 2
    BY <1>10 DEF NextPlace
  <2> HIDE DEF w
  <2>3. w = Taken(2, v, to, FALSE)
    BY <1>3, <1>5, <2>1, <2>2
  <2> QED
    BY <2>3 DEF w
<1>11. ASSUME v >= 0, at = 2 PROVE w = Taken(3, v % 16, Longer(to, bits * 4 + v \div 16), FALSE)
  <2> DEFINE z == bits * 4 + v \div 16
             r == v % 16
  <2>1. w = Takes(d, r, <<z>>)
    BY <1>1, <1>9, <1>11 DEF Next64, v
  <2>2. NextPlace(at) = 3 /\ z \in Int
    BY <1>2, <1>11 DEF NextPlace
  <2> HIDE DEF w, z, r
  <2>3. Joined(to, <<z>>) = Longer(to, z)
    BY <1>4, <2>2
  <2>4. w = Taken(3, r, Longer(to, z), FALSE)
    BY <1>3, <2>1, <2>2, <2>3
  <2> QED
    BY <2>4 DEF w, z, r
<1>12. ASSUME v >= 0, at = 3 PROVE w = Taken(4, v % 4, Longer(to, bits * 16 + v \div 4), FALSE)
  <2> DEFINE z == bits * 16 + v \div 4
             r == v % 4
  <2>1. w = Takes(d, r, <<z>>)
    BY <1>1, <1>9, <1>12 DEF Next64, v
  <2>2. NextPlace(at) = 4 /\ z \in Int
    BY <1>2, <1>12 DEF NextPlace
  <2> HIDE DEF w, z, r
  <2>3. Joined(to, <<z>>) = Longer(to, z)
    BY <1>4, <2>2
  <2>4. w = Taken(4, r, Longer(to, z), FALSE)
    BY <1>3, <2>1, <2>2, <2>3
  <2> QED
    BY <2>4 DEF w, z, r
<1>13. ASSUME v >= 0, at = 4 PROVE w = Taken(1, 0, Longer(to, bits * 64 + v), FALSE)
  <2> DEFINE z == bits * 64 + v
  <2>1. w = Takes(d, 0, <<z>>)
    BY <1>1, <1>9, <1>13 DEF Next64, v
  <2>2. NextPlace(at) = 1 /\ z \in Int
    BY <1>2, <1>13 DEF NextPlace
  <2> HIDE DEF w, z
  <2>3. Joined(to, <<z>>) = Longer(to, z)
    BY <1>4, <2>2
  <2>4. w = Taken(1, 0, Longer(to, z), FALSE)
    BY <1>3, <2>1, <2>2, <2>3
  <2> QED
    BY <2>4 DEF w, z
<1> HIDE DEF w
<1> QED
  BY <1>7, <1>8, <1>10, <1>11, <1>12, <1>13 DEF d, v, w

LEMMA Next64Stays ==
    ASSUME NEW d \in Takings, NEW c \in Codes8
    PROVE  Next64(d, c) \in Takings
<1> DEFINE at == d.at
           bits == d.bits
           to == d.to
           bad == d.bad
           v == Value64(c)
<1>1. d = Taken(at, bits, to, bad) /\ at \in 1 .. 5 /\ bits \in Int /\ to \in Seq(Int) /\ bad \in BOOLEAN
  BY TakingIs
<1>2. v \in -1 .. 63
  BY ValuesIs
<1> HIDE DEF at, bits, to, bad, v
<1>3. [d EXCEPT !.bad = TRUE] \in Takings
  <2>1. ASSUME NEW b, NEW y PROVE [Taken(at, bits, to, b) EXCEPT !.bad = y] = Taken(at, bits, to, y)
    BY DEF Taken
  <2>2. [d EXCEPT !.bad = TRUE] = Taken(at, bits, to, TRUE)
    BY <1>1, <2>1, Zenon
  <2>3. TRUE \in BOOLEAN
    OBVIOUS
  <2>4. Taken(at, bits, to, TRUE) \in Takings
    BY <1>1, <2>3, TakenIs, Zenon
  <2> QED
    BY <2>2, <2>4
<1>4. ASSUME NEW a \in 1 .. 5 PROVE [d EXCEPT !.at = a] \in Takings
  <2>1. [Taken(at, bits, to, bad) EXCEPT !.at = a] = Taken(a, bits, to, bad)
    <3>1. ASSUME NEW b PROVE [Taken(at, bits, to, b) EXCEPT !.at = a] = Taken(a, bits, to, b)
      BY DEF Taken
    <3> QED
      BY <3>1, Zenon
  <2>2. Taken(a, bits, to, bad) \in Takings
    BY <1>1, TakenIs
  <2> QED
    BY <1>1, <2>1, <2>2
<1>5. ASSUME NEW z \in Int, NEW out \in Seq(Int) PROVE Takes(d, z, out) \in Takings
  <2> DEFINE a == NextPlace(at)
             j == Joined(to, out)
  <2>1. a \in 1 .. 5
    BY <1>1 DEF NextPlace
  <2>2. j \in Seq(Int)
    BY <1>1, JoinedIs
  <2>3. Takes(d, z, out) = Taken(a, z, j, bad)
    <3>1. TakesAs(Taken(at, bits, to, bad), at, to, bad, z, out)
      BY TakesIs, Zenon
    <3>2. TakesAs(d, at, to, bad, z, out)
      BY <1>1, <3>1
    <3> QED
      BY <3>2 DEF TakesAs
  <2> HIDE DEF a, j
  <2>4. Taken(a, z, j, bad) \in Takings
    BY <1>1, <2>1, <2>2, TakenIs
  <2> QED
    BY <2>3, <2>4
<1>6. CASE d.bad \/ (v < 0 /\ c # Equals)
  BY <1>6 DEF Next64, v
<1>7. CASE ~ (d.bad \/ (v < 0 /\ c # Equals)) /\ c = Equals
  <2>1. CASE d.at \in {1, 2}
    BY <1>3, <1>7, <2>1 DEF Next64, v
  <2>2. CASE d.at \notin {1, 2}
    <3> DEFINE a == IF d.at = 3 THEN 5 ELSE 1
    <3>1. Next64(d, c) = [d EXCEPT !.at = a]
      BY <1>7, <2>2 DEF Next64, v
    <3>2. a \in 1 .. 5
      OBVIOUS
    <3> HIDE DEF a
    <3> QED
      BY <1>4, <3>1, <3>2
  <2> QED
    BY <2>1, <2>2
<1>8. CASE ~ (d.bad \/ (v < 0 /\ c # Equals)) /\ c # Equals
  <2>1. v \in 0 .. 63 /\ at = d.at /\ bits = d.bits
    BY <1>2, <1>8 DEF at, bits
  <2>2. v % 16 \in Int /\ v % 4 \in Int /\ 0 \in Int /\ v \in Int
    BY <2>1
  <2>3. CASE at = 1
    <3>1. Next64(d, c) = Takes(d, v, <<>>)
      BY <1>8, <2>1, <2>3 DEF Next64, v
    <3> QED
      BY <1>5, <2>2, <3>1, EmptySeq
  <2>4. CASE at = 2
    <3> DEFINE o == <<bits * 4 + v \div 16>>
    <3>1. Next64(d, c) = Takes(d, v % 16, o)
      BY <1>8, <2>1, <2>4 DEF Next64, v
    <3>2. o \in Seq(Int)
      BY <1>1, <2>1
    <3> HIDE DEF o
    <3> QED
      BY <1>5, <2>2, <3>1, <3>2
  <2>5. CASE at = 3
    <3> DEFINE o == <<bits * 16 + v \div 4>>
    <3>1. Next64(d, c) = Takes(d, v % 4, o)
      BY <1>8, <2>1, <2>5 DEF Next64, v
    <3>2. o \in Seq(Int)
      BY <1>1, <2>1
    <3> HIDE DEF o
    <3> QED
      BY <1>5, <2>2, <3>1, <3>2
  <2>6. CASE at = 4
    <3> DEFINE o == <<bits * 64 + v>>
    <3>1. Next64(d, c) = Takes(d, 0, o)
      BY <1>8, <2>1, <2>6 DEF Next64, v
    <3>2. o \in Seq(Int)
      BY <1>1, <2>1
    <3> HIDE DEF o
    <3> QED
      BY <1>5, <2>2, <3>1, <3>2
  <2>7. CASE at = 5
    BY <1>3, <1>8, <2>1, <2>7 DEF Next64, v
  <2> QED
    BY <1>1, <2>3, <2>4, <2>5, <2>6, <2>7
<1> QED
  BY <1>6, <1>7, <1>8

\* The four characters that stand for three bytes, and where they are.
Four(a, b, c) == <<Char64(a \div 4), Char64((a % 4) * 16 + b \div 16), Char64((b % 16) * 4 + c \div 64), Char64(c % 64)>>
FourAt(e, k, p) == e[4 * k - 3] = p[1] /\ e[4 * k - 2] = p[2] /\ e[4 * k - 1] = p[3] /\ e[4 * k] = p[4]
InFours(e, ss) == Len(e) = 4 * Len(ss) /\ \A k \in 1 .. Len(ss) : FourAt(e, k, ss[k])
AreFours(ss) == \A k \in 1 .. Len(ss) : Len(ss[k]) = 4

LEMMA FlattenFours ==
    ASSUME NEW S, NEW ss \in Seq(Seq(S)), AreFours(ss)
    PROVE  FlattenSeq(ss) \in Seq(S) /\ InFours(FlattenSeq(ss), ss)
<1> DEFINE T == Seq(S)
           P == {x \in Seq(T) : AreFours(x) => InFours(FlattenSeq(x), x)}
<1>1. <<>> \in P
  <2> DEFINE e == <<>>
  <2>1. e \in Seq(T) /\ Len(e) = 0 /\ FlattenSeq(e) = e
    BY EmptySeq, FlattenGrows
  <2> HIDE DEF e
  <2>2. InFours(e, e)
    BY <2>1 DEF InFours
  <2> QED
    BY <2>1, <2>2 DEF e
<1>2. ASSUME NEW x \in Seq(T), NEW p \in T, x \in P PROVE Longer(x, p) \in P
  <2> DEFINE y == Longer(x, p)
             F == FlattenSeq(x)
             j == Joined(F, p)
             n == Len(x)
  <2>1. y \in Seq(T) /\ Len(y) = n + 1 /\ y[n + 1] = p /\ n \in Nat
    BY LongerIs, LenProperties
  <2>2. ASSUME NEW i \in 1 .. n PROVE y[i] = x[i]
    BY LongerIs
  <2>3. F \in T /\ FlattenSeq(y) = j
    BY FlattenGrows
  <2> SUFFICES ASSUME AreFours(y) PROVE InFours(j, y)
    BY <2>1, <2>3
  <2>4. AreFours(x) /\ Len(p) = 4
    <3>1. \A i \in 1 .. n : i \in 1 .. n + 1
      BY <2>1
    <3>2. n + 1 \in 1 .. n + 1
      BY <2>1
    <3> HIDE DEF y
    <3>3. \A i \in 1 .. n + 1 : Len(y[i]) = 4
      BY <2>1 DEF AreFours
    <3> HIDE DEF n
    <3>4. \A i \in 1 .. n : Len(x[i]) = 4
      BY <2>2, <3>1, <3>3
    <3> QED
      BY <2>1, <3>2, <3>3, <3>4 DEF AreFours, n
  <2>5. InFours(F, x)
    BY <1>2, <2>4
  <2>6. Len(F) = 4 * n /\ \A k \in 1 .. n : FourAt(F, k, x[k])
    BY <2>5 DEF InFours
  <2>f. F \in Seq(S) /\ p \in Seq(S)
    BY <2>3
  <2> HIDE DEF F
  <2>7. Len(j) = Len(F) + Len(p)
    BY <2>f, JoinedIs
  <2>8. ASSUME NEW i \in 1 .. Len(F) PROVE j[i] = F[i]
    BY <2>f, JoinedIs
  <2>9. Follows(j, Len(F), p)
    BY <2>f, JoinedBehind
  <2> HIDE DEF j, y, n
  <2>10. j[4 * n + 1] = p[1] /\ j[4 * n + 2] = p[2] /\ j[4 * n + 3] = p[3] /\ j[4 * n + 4] = p[4]
    BY <2>1, <2>4, <2>6, <2>9 DEF Follows
  <2>11. ASSUME NEW k \in 1 .. n PROVE FourAt(j, k, y[k])
    <3>1. 4 * k - 3 \in 1 .. Len(F) /\ 4 * k - 2 \in 1 .. Len(F) /\ 4 * k - 1 \in 1 .. Len(F) /\ 4 * k \in 1 .. Len(F)
      BY <2>1, <2>6
    <3>2. FourAt(F, k, y[k])
      BY <2>2, <2>6
    <3> QED
      BY <2>8, <3>1, <3>2 DEF FourAt
  <2>12. FourAt(j, n + 1, y[n + 1])
    <3>1. 4 * (n + 1) - 3 = 4 * n + 1 /\ 4 * (n + 1) - 2 = 4 * n + 2 /\ 4 * (n + 1) - 1 = 4 * n + 3 /\ 4 * (n + 1) = 4 * n + 4
      BY <2>1
    <3> QED
      BY <2>1, <2>10, <3>1 DEF FourAt
  <2>13. \A k \in 1 .. n + 1 : FourAt(j, k, y[k])
    <3> TAKE k \in 1 .. n + 1
    <3>1. k \in 1 .. n \/ k = n + 1
      BY <2>1
    <3> QED
      BY <2>11, <2>12, <3>1
  <2>14. Len(j) = 4 * Len(y)
    BY <2>1, <2>4, <2>6, <2>7
  <2> QED
    BY <2>1, <2>13, <2>14 DEF InFours
<1>3. Seq(T) \subseteq P
  <2> HIDE DEF P, T
  <2> QED
    BY <1>1, <1>2, ByGrowth
<1>4. FlattenSeq(ss) \in Seq(S)
  BY FlattenGrows
<1> QED
  BY <1>3, <1>4

\* What four characters behind p stand for: m bytes if m is less than three.
Spells(e, p, a, b, c, m) ==
    /\ e[p + 1] = Char64(a \div 4) /\ e[p + 2] = Char64((a % 4) * 16 + b \div 16)
    /\ e[p + 3] = IF m >= 2 THEN Char64((b % 16) * 4 + c \div 64) ELSE Equals
    /\ e[p + 4] = IF m >= 3 THEN Char64(c % 64) ELSE Equals
ByteAt(s, x, i) == IF i <= Len(s) THEN s[i] ELSE x
Groups(s) == (Len(s) + 2) \div 3
IsCoded(e, s, x) ==
    /\ e \in Seq(Codes8) /\ Len(e) = 4 * Groups(s)
    /\ \A k \in 1 .. Groups(s) :
          Spells(e, 4 * (k - 1), ByteAt(s, x, 3 * k - 2), ByteAt(s, x, 3 * k - 1), ByteAt(s, x, 3 * k), Len(s) - 3 * (k - 1))

\* The characters of base 64.
LEMMA CharIs ==
    \A v \in 0 .. 63 : Char64(v) \in Codes8 /\ Char64(v) # Equals /\ Value64(Char64(v)) = v
<1> TAKE v \in 0 .. 63
<1>1. CASE v < 26
  BY <1>1 DEF Codes8, Char64, Value64, Equals
<1>2. CASE v >= 26 /\ v < 52
  BY <1>2 DEF Codes8, Char64, Value64, Equals
<1>3. CASE v >= 52 /\ v < 62
  BY <1>3 DEF Codes8, Char64, Value64, Equals
<1>4. CASE v = 62
  BY <1>4 DEF Codes8, Char64, Value64, Equals, Plus
<1>5. CASE v = 63
  BY <1>5 DEF Codes8, Char64, Value64, Equals, Plus, Slash
<1> QED
  BY <1>1, <1>2, <1>3, <1>4, <1>5

\* Three bytes are four numbers of six bits, and those the bytes again.
LEMMA Sixes ==
    ASSUME NEW a \in Codes8, NEW b \in Codes8, NEW c \in Codes8
    PROVE  LET v == (a % 4) * 16 + b \div 16
               w == (b % 16) * 4 + c \div 64 IN
           /\ a \div 4 \in 0 .. 63 /\ v \in 0 .. 63 /\ w \in 0 .. 63 /\ c % 64 \in 0 .. 63
           /\ (a \div 4) * 4 + v \div 16 = a /\ v % 16 = b \div 16
           /\ (b \div 16) * 16 + w \div 4 = b /\ w % 4 = c \div 64
           /\ (c \div 64) * 64 + (c % 64) = c
<1> DEFINE v == (a % 4) * 16 + b \div 16
           w == (b % 16) * 4 + c \div 64
           ah == a \div 4
           al == a % 4
           bh == b \div 16
           bl == b % 16
           ch == c \div 64
           cl == c % 64
<1>1. a \in 0 .. 255 /\ b \in 0 .. 255 /\ c \in 0 .. 255
  BY DEF Codes8
<1>2. ah \in 0 .. 63 /\ al \in 0 .. 3 /\ a = 4 * ah + al
  BY <1>1
<1>3. bh \in 0 .. 15 /\ bl \in 0 .. 15 /\ b = 16 * bh + bl
  BY <1>1
<1>4. ch \in 0 .. 3 /\ cl \in 0 .. 63 /\ c = 64 * ch + cl
  BY <1>1
<1>5. v = al * 16 + bh /\ w = bl * 4 + ch
  OBVIOUS
<1> HIDE DEF ah, al, bh, bl, ch, cl, v, w
<1>6. v \in 0 .. 63 /\ v \div 16 = al /\ v % 16 = bh
  BY <1>2, <1>3, <1>5
<1>7. w \in 0 .. 63 /\ w \div 4 = bl /\ w % 4 = ch
  BY <1>3, <1>4, <1>5
<1>8. ah * 4 + v \div 16 = a /\ bh * 16 + w \div 4 = b /\ ch * 64 + cl = c
  BY <1>2, <1>3, <1>4, <1>6, <1>7
<1> QED
  BY <1>2, <1>4, <1>6, <1>7, <1>8 DEF ah, al, bh, bl, ch, cl, v, w

\* A code of base 64, character by character.
LEMMA CodedIs ==
    ASSUME NEW s \in Seq(Codes8), NEW x \in Codes8
    PROVE  IsCoded(base64_encode(s, x), s, x)
<1> DEFINE n == Len(s)
           g == Groups(s)
           A(k) == ByteAt(s, x, 3 * k - 2)
           B(k) == ByteAt(s, x, 3 * k - 1)
           C(k) == ByteAt(s, x, 3 * k)
           ss == [k \in 1 .. g |-> Four(A(k), B(k), C(k))]
           all == FlattenSeq(ss)
           pad == 3 * g - n
           e == base64_encode(s, x)
<1>1. n \in Nat /\ g \in Nat /\ n <= 3 * g /\ 3 * g <= n + 2
  <2>1. n \in Nat
    BY LenProperties
  <2>2. g = (n + 2) \div 3
    BY DEF Groups
  <2> HIDE DEF n, g
  <2> QED
    BY <2>1, <2>2
<1>2. e = [i \in DOMAIN all |-> IF i > Len(all) - pad THEN Equals ELSE all[i]]
  BY DEF base64_encode, Groups, ByteAt, Four
<1>3. \A i \in 1 .. 3 * g : ByteAt(s, x, i) \in Codes8
  <2> TAKE i \in 1 .. 3 * g
  <2>1. CASE i <= n
    <3>1. i \in 1 .. n
      BY <1>1, <2>1
    <3> QED
      BY <2>1, <3>1, ElementOfSeq DEF ByteAt
  <2>2. CASE ~ (i <= n)
    BY <2>2 DEF ByteAt
  <2> QED
    BY <2>1, <2>2
<1>4. ASSUME NEW k \in 1 .. g PROVE A(k) \in Codes8 /\ B(k) \in Codes8 /\ C(k) \in Codes8
  <2>1. 3 * k - 2 \in 1 .. 3 * g /\ 3 * k - 1 \in 1 .. 3 * g /\ 3 * k \in 1 .. 3 * g
    BY <1>1
  <2> QED
    BY <1>3, <2>1
<1> HIDE DEF A, B, C, g, n, e
<1>5. ASSUME NEW a \in Codes8, NEW b \in Codes8, NEW c \in Codes8
      PROVE  Four(a, b, c) \in Seq(Codes8) /\ Len(Four(a, b, c)) = 4
  <2> DEFINE p == Char64(a \div 4)
             q == Char64((a % 4) * 16 + b \div 16)
             r == Char64((b % 16) * 4 + c \div 64)
             t == Char64(c % 64)
  <2>1. p \in Codes8 /\ q \in Codes8 /\ r \in Codes8 /\ t \in Codes8
    <3>1. a \div 4 \in 0 .. 63 /\ (a % 4) * 16 + b \div 16 \in 0 .. 63
      BY DEF Codes8
    <3>2. (b % 16) * 4 + c \div 64 \in 0 .. 63 /\ c % 64 \in 0 .. 63
      BY DEF Codes8
    <3> QED
      BY <3>1, <3>2, CharIs
  <2>2. Four(a, b, c) = <<p, q, r, t>>
    BY DEF Four
  <2> HIDE DEF p, q, r, t
  <2> QED
    BY <2>1, <2>2
<1>6. ss \in Seq(Seq(Codes8)) /\ Len(ss) = g /\ \A k \in 1 .. g : ss[k] = Four(A(k), B(k), C(k))
  <2> DEFINE T == Seq(Codes8)
             h(k) == Four(A(k), B(k), C(k))
  <2>1. \A k \in 1 .. g : h(k) \in T
    BY <1>4, <1>5
  <2>2. ss = [k \in 1 .. g |-> h(k)]
    OBVIOUS
  <2> HIDE DEF T, h, ss
  <2>3. ss \in [1 .. g -> T] /\ \A k \in 1 .. g : ss[k] = h(k)
    BY <2>1, <2>2
  <2>4. ss \in Seq(T) /\ Len(ss) = g
    BY <1>1, <2>3
  <2> QED
    BY <2>3, <2>4 DEF h, T
<1>s. ss \in Seq(Seq(Codes8))
  BY <1>6
<1> HIDE DEF ss
<1>7. AreFours(ss)
  BY <1>4, <1>5, <1>6 DEF AreFours
<1>8. all \in Seq(Codes8) /\ InFours(all, ss)
  BY <1>s, <1>7, FlattenFours
<1> HIDE DEF all
<1>9. Len(all) = 4 * g /\ \A k \in 1 .. g : FourAt(all, k, Four(A(k), B(k), C(k)))
  BY <1>6, <1>8 DEF InFours
<1>10. DOMAIN all = 1 .. 4 * g /\ \A i \in 1 .. 4 * g : all[i] \in Codes8
  BY <1>8, <1>9, LenProperties, ElementOfSeq
<1>11. Equals \in Codes8
  BY DEF Equals, Codes8
<1>12. e = [i \in 1 .. 4 * g |-> IF i > g + n THEN Equals ELSE all[i]]
  <2>1. Len(all) - pad = g + n
    BY <1>1, <1>9
  <2> QED
    BY <1>2, <1>10, <2>1
<1>13. e \in Seq(Codes8) /\ Len(e) = 4 * g
  <2>1. \A i \in 1 .. 4 * g : (IF i > g + n THEN Equals ELSE all[i]) \in Codes8
    BY <1>10, <1>11
  <2>2. e \in [1 .. 4 * g -> Codes8]
    BY <1>12, <2>1
  <2> QED
    BY <1>1, <2>2
<1>14. ASSUME NEW k \in 1 .. g
       PROVE  Spells(e, 4 * (k - 1), A(k), B(k), C(k), n - 3 * (k - 1))
  <2> DEFINE p == 4 * (k - 1)
             m == n - 3 * (k - 1)
             i == Four(A(k), B(k), C(k))
  <2>1. /\ p + 1 = 4 * k - 3 /\ p + 2 = 4 * k - 2 /\ p + 3 = 4 * k - 1 /\ p + 4 = 4 * k
        /\ p + 1 \in 1 .. 4 * g /\ p + 2 \in 1 .. 4 * g /\ p + 3 \in 1 .. 4 * g /\ p + 4 \in 1 .. 4 * g
    BY <1>1
  <2>2. /\ ~ (p + 1 > g + n) /\ ~ (p + 2 > g + n)
        /\ (p + 3 > g + n <=> ~ (m >= 2)) /\ (p + 4 > g + n <=> ~ (m >= 3))
    <3>1. CASE k = g
      BY <1>1, <3>1
    <3>2. CASE k # g
      BY <1>1, <3>2
    <3> QED
      BY <3>1, <3>2
  <2>3. FourAt(all, k, i)
    BY <1>9
  <2>4. /\ i[1] = Char64(A(k) \div 4) /\ i[2] = Char64((A(k) % 4) * 16 + B(k) \div 16)
        /\ i[3] = Char64((B(k) % 16) * 4 + C(k) \div 64) /\ i[4] = Char64(C(k) % 64)
    BY DEF Four
  <2> HIDE DEF i, m, p
  <2>5. all[p + 1] = i[1] /\ all[p + 2] = i[2] /\ all[p + 3] = i[3] /\ all[p + 4] = i[4]
    BY <2>1, <2>3 DEF FourAt
  <2>6. \A q \in 1 .. 4 * g : e[q] = IF q > g + n THEN Equals ELSE all[q]
    BY <1>12
  <2>7. e[p + 1] = i[1] /\ e[p + 2] = i[2]
    BY <2>1, <2>2, <2>5, <2>6
  <2>8. e[p + 3] = IF m >= 2 THEN i[3] ELSE Equals
    BY <2>1, <2>2, <2>5, <2>6
  <2>9. e[p + 4] = IF m >= 3 THEN i[4] ELSE Equals
    BY <2>1, <2>2, <2>5, <2>6
  <2>10. Spells(e, p, A(k), B(k), C(k), m)
    BY <2>4, <2>7, <2>8, <2>9 DEF Spells
  <2> QED
    BY <2>10 DEF p, m
<1> QED
  BY <1>13, <1>14 DEF IsCoded, A, B, C, g, n, e

\* f decodes u, and has made t of it when it is at p, between two groups.
HasTaken(f, u, p, t) ==
    /\ u \in Seq(Codes8) /\ p \in Nat /\ t \in Seq(Int)
    /\ \A i \in 1 .. Len(u) : f[i] = Next64(f[i - 1], u[i])
    /\ \E bits \in Int : f[p] = Taken(1, bits, t, FALSE)

NextAs(at, bits, to, c, d) == Next64(Taken(at, bits, to, FALSE), c) = d

LEMMA CharTaken ==
    ASSUME NEW bits \in Int, NEW to \in Seq(Int), NEW v \in 0 .. 63
    PROVE  /\ NextAs(1, bits, to, Char64(v), Taken(2, v, to, FALSE))
           /\ NextAs(2, bits, to, Char64(v), Taken(3, v % 16, Longer(to, bits * 4 + v \div 16), FALSE))
           /\ NextAs(3, bits, to, Char64(v), Taken(4, v % 4, Longer(to, bits * 16 + v \div 4), FALSE))
           /\ NextAs(4, bits, to, Char64(v), Taken(1, 0, Longer(to, bits * 64 + v), FALSE))
<1> DEFINE c == Char64(v)
<1>1. c \in Codes8 /\ Value64(c) = v
  BY CharIs
<1> HIDE DEF c
<1>2. Value64(c) >= 0 /\ 1 \in 1 .. 5 /\ 2 \in 1 .. 5 /\ 3 \in 1 .. 5 /\ 4 \in 1 .. 5
  BY <1>1
<1>c. c \in Codes8
  BY <1>1
<1>3. Next64(Taken(1, bits, to, FALSE), c) = Taken(2, Value64(c), to, FALSE)
  BY <1>c, <1>2, Next64Is, ZenonT(40)
<1>4. Next64(Taken(2, bits, to, FALSE), c) = Taken(3, Value64(c) % 16, Longer(to, bits * 4 + Value64(c) \div 16), FALSE)
  BY <1>c, <1>2, Next64Is, ZenonT(40)
<1>5. Next64(Taken(3, bits, to, FALSE), c) = Taken(4, Value64(c) % 4, Longer(to, bits * 16 + Value64(c) \div 4), FALSE)
  BY <1>c, <1>2, Next64Is, ZenonT(40)
<1>6. Next64(Taken(4, bits, to, FALSE), c) = Taken(1, 0, Longer(to, bits * 64 + Value64(c)), FALSE)
  BY <1>c, <1>2, Next64Is, ZenonT(40)
<1> QED
  BY <1>1, <1>3, <1>4, <1>5, <1>6 DEF NextAs, c

LEMMA OtherTaken ==
    ASSUME NEW bits \in Int, NEW to \in Seq(Int)
    PROVE  /\ NextAs(3, bits, to, Equals, Taken(5, bits, to, FALSE))
           /\ NextAs(4, bits, to, Equals, Taken(1, bits, to, FALSE))
           /\ NextAs(5, bits, to, Equals, Taken(1, bits, to, FALSE))
           /\ NextAs(1, bits, to, Newline, Taken(1, bits, to, FALSE))
<1>1. Equals \in Codes8 /\ Newline \in Codes8 /\ Newline # Equals /\ Value64(Newline) < 0
  BY DEF Equals, Newline, Codes8, Value64, Plus, Slash
<1>2. 1 \in 1 .. 5 /\ 3 \in 1 .. 5 /\ 4 \in 1 .. 5 /\ 5 \in 1 .. 5
  OBVIOUS
<1>3. Next64(Taken(3, bits, to, FALSE), Equals) = Taken(IF 3 = 3 THEN 5 ELSE 1, bits, to, FALSE)
  BY <1>1, <1>2, Next64Is, ZenonT(40)
<1>4. Next64(Taken(4, bits, to, FALSE), Equals) = Taken(IF 4 = 3 THEN 5 ELSE 1, bits, to, FALSE)
  BY <1>1, <1>2, Next64Is, ZenonT(40)
<1>5. Next64(Taken(5, bits, to, FALSE), Equals) = Taken(IF 5 = 3 THEN 5 ELSE 1, bits, to, FALSE)
  BY <1>1, <1>2, Next64Is, ZenonT(40)
<1>6. Next64(Taken(1, bits, to, FALSE), Newline) = Taken(1, bits, to, FALSE)
  BY <1>1, <1>2, Next64Is, ZenonT(40)
<1>7. (IF 3 = 3 THEN 5 ELSE 1) = 5 /\ (IF 4 = 3 THEN 5 ELSE 1) = 1 /\ (IF 5 = 3 THEN 5 ELSE 1) = 1
  OBVIOUS
<1> QED
  BY <1>3, <1>4, <1>5, <1>6, <1>7 DEF NextAs

\* m of three bytes, or as many as there are.
More(t, a, b, c, m) ==
    IF m >= 3 THEN Longer(Longer(Longer(t, a), b), c)
    ELSE IF m = 2 THEN Longer(Longer(t, a), b) ELSE Longer(t, a)

LEMMA GroupTaken ==
    ASSUME NEW a \in Codes8, NEW b \in Codes8, NEW c \in Codes8, NEW m \in Nat \ {0}, NEW f, NEW u, NEW p, NEW t,
           HasTaken(f, u, p, t), Spells(u, p, a, b, c, m), p + 4 <= Len(u)
    PROVE  HasTaken(f, u, p + 4, More(t, a, b, c, m))
<1>1. /\ u \in Seq(Codes8) /\ p \in Nat /\ t \in Seq(Int)
      /\ \A i \in 1 .. Len(u) : f[i] = Next64(f[i - 1], u[i])
  BY DEF HasTaken
<1>2. PICK bits \in Int : f[p] = Taken(1, bits, t, FALSE)
  BY DEF HasTaken
<1> DEFINE v == a \div 4
           w == (a % 4) * 16 + b \div 16
           y == (b % 16) * 4 + c \div 64
           z == c % 64
           bh == b \div 16
           ch == c \div 64
           ta == Longer(t, a)
           tb == Longer(ta, b)
           tc == Longer(tb, c)
<1>3. /\ v \in 0 .. 63 /\ w \in 0 .. 63 /\ y \in 0 .. 63 /\ z \in 0 .. 63
      /\ v * 4 + w \div 16 = a /\ w % 16 = bh
      /\ bh * 16 + y \div 4 = b /\ y % 4 = ch
      /\ ch * 64 + z = c
  BY Sixes
<1>4. /\ u[p + 1] = Char64(v) /\ u[p + 2] = Char64(w)
      /\ u[p + 3] = (IF m >= 2 THEN Char64(y) ELSE Equals)
      /\ u[p + 4] = (IF m >= 3 THEN Char64(z) ELSE Equals)
  BY DEF Spells
<1>5. a \in Int /\ b \in Int /\ c \in Int /\ bh \in Int /\ ch \in Int
  BY DEF Codes8
<1> HIDE DEF v, w, y, z, bh, ch
<1>6. ta \in Seq(Int)
  BY <1>1, <1>5, LongerIs
<1> HIDE DEF ta
<1>7. tb \in Seq(Int)
  BY <1>5, <1>6, LongerIs
<1> HIDE DEF tb
<1>8. tc \in Seq(Int)
  BY <1>5, <1>7, LongerIs
<1> HIDE DEF tc
<1>9. Len(u) \in Nat
  BY <1>1, LenProperties
<1>10. /\ f[p + 1] = Next64(f[p], u[p + 1]) /\ f[p + 2] = Next64(f[p + 1], u[p + 2])
       /\ f[p + 3] = Next64(f[p + 2], u[p + 3]) /\ f[p + 4] = Next64(f[p + 3], u[p + 4])
  <2>1. /\ p + 1 \in 1 .. Len(u) /\ p + 2 \in 1 .. Len(u) /\ p + 3 \in 1 .. Len(u) /\ p + 4 \in 1 .. Len(u)
        /\ (p + 1) - 1 = p /\ (p + 2) - 1 = p + 1 /\ (p + 3) - 1 = p + 2 /\ (p + 4) - 1 = p + 3
    BY <1>1, <1>9
  <2> QED
    BY <1>1, <2>1
<1> DEFINE p1 == p + 1
           p2 == p + 2
           p3 == p + 3
           p4 == p + 4
<1>11. /\ f[p1] = Next64(f[p], u[p1]) /\ f[p2] = Next64(f[p1], u[p2])
       /\ f[p3] = Next64(f[p2], u[p3]) /\ f[p4] = Next64(f[p3], u[p4])
       /\ u[p1] = Char64(v) /\ u[p2] = Char64(w)
       /\ u[p3] = (IF m >= 2 THEN Char64(y) ELSE Equals)
       /\ u[p4] = (IF m >= 3 THEN Char64(z) ELSE Equals)
  BY <1>4, <1>10
<1>p. p4 \in Nat
  BY <1>1
<1> HIDE DEF p1, p2, p3, p4
<1>12. f[p1] = Taken(2, v, t, FALSE)
  <2>1. NextAs(1, bits, t, Char64(v), Taken(2, v, t, FALSE))
    BY <1>1, <1>3, CharTaken
  <2> QED
    BY <1>2, <1>11, <2>1 DEF NextAs
<1>13. f[p2] = Taken(3, bh, ta, FALSE)
  <2>1. v \in Int
    BY <1>3
  <2>2. NextAs(2, v, t, Char64(w), Taken(3, w % 16, Longer(t, v * 4 + w \div 16), FALSE))
    BY <1>1, <1>3, <2>1, CharTaken
  <2>3. NextAs(2, v, t, Char64(w), Taken(3, bh, ta, FALSE))
    BY <1>3, <2>2 DEF ta
  <2> QED
    BY <1>11, <1>12, <2>3 DEF NextAs
<1>14. CASE m >= 2
  <2>1. NextAs(3, bh, ta, Char64(y), Taken(4, y % 4, Longer(ta, bh * 16 + y \div 4), FALSE))
    BY <1>3, <1>5, <1>6, CharTaken
  <2>2. NextAs(3, bh, ta, Char64(y), Taken(4, ch, tb, FALSE))
    BY <1>3, <2>1 DEF tb
  <2>3. f[p3] = Taken(4, ch, tb, FALSE)
    BY <1>11, <1>13, <1>14, <2>2 DEF NextAs
  <2>4. CASE m >= 3
    <3>1. NextAs(4, ch, tb, Char64(z), Taken(1, 0, Longer(tb, ch * 64 + z), FALSE))
      BY <1>3, <1>5, <1>7, CharTaken
    <3>2. NextAs(4, ch, tb, Char64(z), Taken(1, 0, tc, FALSE))
      BY <1>3, <3>1 DEF tc
    <3>3. f[p4] = Taken(1, 0, tc, FALSE)
      BY <1>11, <2>3, <2>4, <3>2 DEF NextAs
    <3>4. More(t, a, b, c, m) = tc
      BY <2>4 DEF More, ta, tb, tc
    <3>5. 0 \in Int
      OBVIOUS
    <3>6. HasTaken(f, u, p4, tc)
      BY <1>1, <1>8, <1>p, <3>3, <3>5 DEF HasTaken
    <3> QED
      BY <3>4, <3>6 DEF p4
  <2>5. CASE ~ (m >= 3)
    <3>1. NextAs(4, ch, tb, Equals, Taken(1, ch, tb, FALSE))
      BY <1>5, <1>7, OtherTaken
    <3>2. f[p4] = Taken(1, ch, tb, FALSE)
      BY <1>11, <2>3, <2>5, <3>1 DEF NextAs
    <3>3. m = 2
      BY <1>14, <2>5
    <3>4. More(t, a, b, c, m) = tb
      BY <3>3 DEF More, ta, tb
    <3>5. HasTaken(f, u, p4, tb)
      BY <1>1, <1>5, <1>7, <1>p, <3>2 DEF HasTaken
    <3> QED
      BY <3>4, <3>5 DEF p4
  <2> QED
    BY <2>4, <2>5
<1>15. CASE ~ (m >= 2)
  <2>1. ~ (m >= 3) /\ m # 2
    BY <1>15
  <2>2. NextAs(3, bh, ta, Equals, Taken(5, bh, ta, FALSE))
    BY <1>5, <1>6, OtherTaken
  <2>3. f[p3] = Taken(5, bh, ta, FALSE)
    BY <1>11, <1>13, <1>15, <2>2 DEF NextAs
  <2>4. NextAs(5, bh, ta, Equals, Taken(1, bh, ta, FALSE))
    BY <1>5, <1>6, OtherTaken
  <2>5. f[p4] = Taken(1, bh, ta, FALSE)
    BY <1>11, <2>1, <2>3, <2>4 DEF NextAs
  <2>6. More(t, a, b, c, m) = ta
    BY <2>1 DEF More, ta
  <2>7. HasTaken(f, u, p4, ta)
    BY <1>1, <1>5, <1>6, <1>p, <2>5 DEF HasTaken
  <2> QED
    BY <2>6, <2>7 DEF p4
<1> QED
  BY <1>14, <1>15

\* The first i elements of s behind t.
Headed(t, s, i) == Joined(t, SubSeq(s, 1, i))

LEMMA HeadedNext ==
    ASSUME NEW S, NEW t \in Seq(S), NEW s \in Seq(S), NEW j \in 1 .. Len(s), NEW i, j = i + 1, i \in Nat
    PROVE  Headed(t, s, j) = Longer(Headed(t, s, i), s[j])
<1> DEFINE r == SubSeq(s, 1, i)
           e == s[j]
<1>1. SubSeq(s, 1, j) = Longer(SubSeq(s, 1, j - 1), s[j]) /\ SubSeq(s, 1, j - 1) \in Seq(S)
  BY PrefixNext
<1>2. j - 1 = i /\ e \in S
  BY ElementOfSeq
<1>3. SubSeq(s, 1, j) = Longer(r, e) /\ r \in Seq(S)
  BY <1>1, <1>2
<1> HIDE DEF r, e
<1>4. Longer(Joined(t, r), e) = Joined(t, Longer(r, e))
  BY <1>2, <1>3, AppendBehind
<1> QED
  BY <1>3, <1>4 DEF Headed, r, e

\* How much of s k groups stand for.
GroupsSpan(s, k) == IF 3 * k <= Len(s) THEN 3 * k ELSE Len(s)

LEMMA CodeTaken ==
    ASSUME NEW s \in Seq(Codes8), NEW x \in Codes8, NEW e, NEW u, NEW f, NEW p, NEW t,
           IsCoded(e, s, x), IsBehind(e, u, p), HasTaken(f, u, p, t)
    PROVE  HasTaken(f, u, p + Len(e), Joined(t, s))
<1> DEFINE n == Len(s)
           g == Groups(s)
           Q == {k \in 0 .. g : HasTaken(f, u, p + 4 * k, Headed(t, s, GroupsSpan(s, k)))}
<1>1. n \in Nat /\ g \in Nat /\ n <= 3 * g /\ 3 * g <= n + 2
  <2>1. n \in Nat
    BY LenProperties
  <2>2. g = (n + 2) \div 3
    BY DEF Groups
  <2> HIDE DEF n, g
  <2> QED
    BY <2>1, <2>2
<1>2. u \in Seq(Codes8) /\ p \in Nat /\ t \in Seq(Int)
  BY DEF HasTaken
<1>3. e \in Seq(Codes8) /\ Len(e) = 4 * g
  BY DEF IsCoded
<1>4. p + Len(e) <= Len(u) /\ \A i \in 1 .. Len(e) : u[p + i] = e[i]
  BY DEF IsBehind
<1>5. s \in Seq(Int) /\ \A i \in 1 .. n : s[i] \in Codes8
  <2>1. \A i \in 1 .. n : s[i] \in Codes8
    BY ElementOfSeq
  <2>2. Codes8 \subseteq Int
    BY DEF Codes8
  <2>3. s \in [1 .. n -> Codes8] /\ n \in Nat
    BY LenProperties
  <2> HIDE DEF n
  <2>4. s \in [1 .. n -> Int]
    BY <2>2, <2>3
  <2>5. s \in Seq(Int)
    BY <2>3, <2>4, SeqDef
  <2> QED
    BY <2>1, <2>5
<1>u. Len(u) \in Nat
  BY <1>2, LenProperties
<1>6. 0 \in Q
  <2>1. SubSeq(s, 1, 0) = <<>> /\ Joined(t, <<>>) = t
    BY <1>2, SubSeqEmpty, JoinedNothing
  <2>2. GroupsSpan(s, 0) = 0
    BY <1>1 DEF GroupsSpan
  <2>3. Headed(t, s, GroupsSpan(s, 0)) = t
    BY <2>1, <2>2 DEF Headed
  <2>4. p + 4 * 0 = p /\ 0 \in 0 .. g
    BY <1>1, <1>2
  <2> HIDE DEF g
  <2> QED
    BY <2>3, <2>4
<1>7. ASSUME NEW k \in 1 .. g, k - 1 \in Q PROVE k \in Q
  <2> DEFINE i == 3 * (k - 1)
             m == n - 3 * (k - 1)
             q == p + 4 * (k - 1)
             a == ByteAt(s, x, 3 * k - 2)
             b == ByteAt(s, x, 3 * k - 1)
             c == ByteAt(s, x, 3 * k)
             r == Headed(t, s, i)
             i1 == i + 1
             i2 == i + 2
             i3 == i + 3
  <2>1. i \in Nat /\ i < n /\ m \in Nat \ {0} /\ m = n - i /\ q \in Nat /\ GroupsSpan(s, k - 1) = i
    BY <1>1, <1>2 DEF GroupsSpan
  <2>2. HasTaken(f, u, q, r)
    BY <1>7, <2>1
  <2>3. Spells(e, 4 * (k - 1), a, b, c, m)
    BY DEF IsCoded
  <2>4. Spells(u, q, a, b, c, m) /\ q + 4 <= Len(u)
    <3> DEFINE h == 4 * (k - 1)
    <3>1. /\ h + 1 \in 1 .. Len(e) /\ h + 2 \in 1 .. Len(e) /\ h + 3 \in 1 .. Len(e) /\ h + 4 \in 1 .. Len(e)
          /\ p + (h + 1) = q + 1 /\ p + (h + 2) = q + 2 /\ p + (h + 3) = q + 3 /\ p + (h + 4) = q + 4
      BY <1>1, <1>2, <1>3
    <3>2. Spells(e, h, a, b, c, m)
      BY <2>3
    <3>3. q + 4 <= Len(u)
      BY <1>2, <1>3, <1>4, <1>u, <3>1
    <3> HIDE DEF a, b, c, m, q, h
    <3>4. u[q + 1] = e[h + 1] /\ u[q + 2] = e[h + 2] /\ u[q + 3] = e[h + 3] /\ u[q + 4] = e[h + 4]
      BY <1>4, <3>1
    <3> QED
      BY <3>2, <3>3, <3>4 DEF Spells
  <2>5. 3 * k - 2 = i1 /\ 3 * k - 1 = i2 /\ 3 * k = i3 /\ i1 = i + 1 /\ i2 = i1 + 1 /\ i3 = i2 + 1
    BY <1>1
  <2>6. a = s[i1] /\ (m >= 2 => b = s[i2]) /\ (m >= 3 => c = s[i3])
    BY <2>1, <2>5 DEF ByteAt
  <2>7. a \in Codes8 /\ b \in Codes8 /\ c \in Codes8
    <3>1. i1 \in 1 .. n /\ (i2 <= n => i2 \in 1 .. n) /\ (i3 <= n => i3 \in 1 .. n)
      BY <1>1, <2>1
    <3> HIDE DEF i1, i2, i3, n
    <3> QED
      BY <1>5, <2>5, <2>6, <3>1 DEF ByteAt, n
  <2>8. q + 4 = p + 4 * k
    BY <1>2
  <2>9. i1 \in 1 .. n /\ (m >= 2 => i2 \in 1 .. n) /\ (m >= 3 => i3 \in 1 .. n) /\ i1 \in Nat /\ i2 \in Nat
    BY <1>1, <2>1
  <2>10. GroupsSpan(s, k) = IF m >= 3 THEN i3 ELSE IF m = 2 THEN i2 ELSE i1
    BY <1>1, <2>1 DEF GroupsSpan
  <2> HIDE DEF a, b, c, m, q, i, i1, i2, i3
  <2>t. t \in Seq(Int)
    BY <1>2
  <2>s. s \in Seq(Int)
    BY <1>5
  <2>11. Headed(t, s, i1) = Longer(r, s[i1])
    <3>1. i1 \in 1 .. Len(s)
      BY <2>9
    <3>2. i1 = i + 1
      BY <2>5
    <3>3. i \in Nat
      BY <2>1
    <3> QED
      BY <2>t, <2>s, <3>1, <3>2, <3>3, HeadedNext
  <2>12. ASSUME m >= 2 PROVE Headed(t, s, i2) = Longer(Headed(t, s, i1), s[i2])
    <3>1. i2 \in 1 .. Len(s)
      BY <2>9, <2>12
    <3>2. i2 = i1 + 1
      BY <2>5
    <3>3. i1 \in Nat
      BY <2>9
    <3> QED
      BY <2>t, <2>s, <3>1, <3>2, <3>3, HeadedNext
  <2>13. ASSUME m >= 3 PROVE Headed(t, s, i3) = Longer(Headed(t, s, i2), s[i3])
    <3>1. i3 \in 1 .. Len(s)
      BY <2>9, <2>13
    <3>2. i3 = i2 + 1
      BY <2>5
    <3>3. i2 \in Nat
      BY <2>9
    <3> QED
      BY <2>t, <2>s, <3>1, <3>2, <3>3, HeadedNext
  <2> HIDE DEF r
  <2>14. HasTaken(f, u, q + 4, More(r, a, b, c, m))
    BY <2>1, <2>2, <2>4, <2>7, GroupTaken
  <2>15. More(r, a, b, c, m) = Headed(t, s, GroupsSpan(s, k))
    <3>1. CASE m >= 3
      <4>1. m >= 2
        BY <2>1, <3>1
      <4> QED
        BY <2>6, <2>10, <2>11, <2>12, <2>13, <3>1, <4>1 DEF More
    <3>2. CASE m = 2
      <4>1. m >= 2 /\ ~ (m >= 3)
        BY <3>2
      <4> QED
        BY <2>6, <2>10, <2>11, <2>12, <3>2, <4>1 DEF More
    <3>3. CASE m = 1
      <4>1. ~ (m >= 3) /\ m # 2
        BY <3>3
      <4> QED
        BY <2>6, <2>10, <2>11, <4>1 DEF More
    <3> QED
      BY <2>1, <3>1, <3>2, <3>3
  <2>16. k \in 0 .. g
    BY <1>1
  <2> QED
    BY <2>8, <2>14, <2>15, <2>16
<1>8. 0 .. g \subseteq Q
  <2> HIDE DEF Q, g
  <2> QED
    BY <1>1, <1>6, <1>7, Inductive
<1>9. HasTaken(f, u, p + 4 * g, Headed(t, s, GroupsSpan(s, g)))
  BY <1>1, <1>8
<1>10. GroupsSpan(s, g) = n
  BY <1>1 DEF GroupsSpan
<1>11. Headed(t, s, n) = Joined(t, s)
  BY SubSeqFull DEF Headed
<1> QED
  BY <1>3, <1>9, <1>10, <1>11

\* base64_decode goes through a code in these steps.
LEMMA DecodeRuns ==
    ASSUME NEW u \in Seq(Codes8)
    PROVE  \E f : /\ HasTaken(f, u, 0, <<>>)
                  /\ base64_decode(u) = IF f[Len(u)].bad \/ f[Len(u)].at # 1 THEN NoString ELSE f[Len(u)].to
<1> DEFINE N == Len(u)
           S == Takings
           Body(f) == [i \in 0 .. N |-> IF i = 0 THEN NoBytes ELSE Next64(f[i - 1], u[i])]
           f0 == CHOOSE f : f = Body(f)
<1>1. N \in Nat /\ \A i \in 1 .. N : u[i] \in Codes8
  BY LenProperties, ElementOfSeq
<1>2. base64_decode(u) = IF f0[N].bad \/ f0[N].at # 1 THEN NoString ELSE f0[N].to
  BY DEF base64_decode
<1>n. NoBytes = NoneTaken
  BY DEF NoBytes, NoneTaken, Taken
<1>b. NoneTaken \in S
  <2>1. 1 \in 1 .. 5 /\ 0 \in Int /\ <<>> \in Seq(Int) /\ FALSE \in BOOLEAN
    BY EmptySeq
  <2> QED
    BY <2>1, TakenIs, Zenon DEF NoneTaken
<1>3. \A c \in Codes8 : \A d \in S : Taker[c][d] = Next64(d, c)
  BY DEF Taker
<1>s. Taker \in [Codes8 -> [S -> S]]
  <2>1. \A c \in Codes8 : \A d \in S : Next64(d, c) \in S
    BY Next64Stays
  <2> HIDE DEF S
  <2>2. [c \in Codes8 |-> [d \in S |-> Next64(d, c)]] \in [Codes8 -> [S -> S]]
    BY <2>1
  <2> QED
    BY <2>2 DEF S, Taker
<1> HIDE DEF S
<1>5. PICK h : GoesThrough(h, S, NoneTaken, Taker, u)
  BY <1>b, <1>s, FoldedGoes
<1>6. h \in [0 .. N -> S] /\ h[0] = NoneTaken /\ \A i \in 1 .. N : h[i] = Taker[u[i]][h[i - 1]]
  BY <1>5 DEF GoesThrough
<1>7. \A i \in 1 .. N : i - 1 \in 0 .. N
  BY <1>1
<1> HIDE DEF N
<1>8. h = Body(h)
  <2>1. \A i \in 1 .. N : h[i] = Next64(h[i - 1], u[i])
    BY <1>1, <1>3, <1>6, <1>7
  <2>2. \A i \in 0 .. N : i # 0 => i \in 1 .. N
    BY <1>1 DEF N
  <2> QED
    BY <1>6, <1>n, <2>1, <2>2
<1>9. f0 = Body(f0)
  <2> HIDE DEF Body
  <2> QED
    BY <1>8
<1> HIDE DEF f0
<1>10. f0[0] = NoneTaken
  <2>1. 0 \in 0 .. N
    BY <1>1
  <2> QED
    BY <1>9, <1>n, <2>1
<1>11. \A i \in 1 .. N : f0[i] = Next64(f0[i - 1], u[i])
  <2>1. \A i \in 1 .. N : i \in 0 .. N /\ i # 0
    BY <1>1
  <2> QED
    BY <1>9, <2>1
<1>12. HasTaken(f0, u, 0, <<>>)
  <2>1. 0 \in Int /\ 0 \in Nat /\ <<>> \in Seq(Int)
    BY EmptySeq
  <2>2. \E bits \in Int : f0[0] = Taken(1, bits, <<>>, FALSE)
    BY <1>10, <2>1 DEF NoneTaken
  <2> QED
    BY <1>11, <2>1, <2>2 DEF HasTaken, N
<1> QED
  BY <1>2, <1>12 DEF N

\* What was encoded in two lines is decoded as one text.
LEMMA CodesTaken ==
    ASSUME NEW a \in Seq(Codes8), NEW b \in Seq(Codes8), NEW x \in Codes8, NEW y \in Codes8
    PROVE  base64_decode(base64_encode(a, x) \o <<Newline>> \o base64_encode(b, y)) = Joined(a, b)
<1> DEFINE ea == base64_encode(a, x)
           eb == base64_encode(b, y)
           l == Longer(ea, Newline)
           u == Joined(l, eb)
           none == <<>>
<1>1. IsCoded(ea, a, x) /\ IsCoded(eb, b, y)
  BY CodedIs
<1> HIDE DEF ea, eb
<1>2. ea \in Seq(Codes8) /\ eb \in Seq(Codes8)
  BY <1>1 DEF IsCoded
<1>n. Newline \in Codes8
  BY DEF Newline, Codes8
<1>3. (ea \o <<Newline>>) \o eb = u
  <2>1. Joined(ea, <<Newline>>) = l
    BY <1>2, <1>n, LongerOne
  <2>2. Joined(Joined(ea, <<Newline>>), eb) = (ea \o <<Newline>>) \o eb
    BY DEF Joined
  <2> QED
    BY <2>1, <2>2
<1>4. l \in Seq(Codes8) /\ Len(l) = Len(ea) + 1 /\ l[Len(ea) + 1] = Newline /\ Len(ea) \in Nat /\ Len(eb) \in Nat
  BY <1>2, <1>n, LongerIs, LenProperties
<1>5. \A i \in 1 .. Len(ea) : l[i] = ea[i]
  BY <1>2, <1>n, LongerIs
<1> HIDE DEF l
<1>l. l \in Seq(Codes8)
  BY <1>4
<1>e. eb \in Seq(Codes8)
  BY <1>2
<1>6. u \in Seq(Codes8) /\ Len(u) = Len(l) + Len(eb)
  BY <1>l, <1>e, JoinedIs
<1>7. \A i \in 1 .. Len(l) : u[i] = l[i]
  BY <1>l, <1>e, JoinedFront
<1>8. Follows(u, Len(l), eb)
  BY <1>l, <1>e, JoinedBehind
<1> HIDE DEF u
<1>u. u \in Seq(Codes8)
  BY <1>6
<1>9. PICK f : /\ HasTaken(f, u, 0, none)
               /\ base64_decode(u) = IF f[Len(u)].bad \/ f[Len(u)].at # 1 THEN NoString ELSE f[Len(u)].to
  BY <1>u, DecodeRuns
<1>10. Joined(none, a) = a
  BY JoinedNothing
<1> HIDE DEF none
<1> DEFINE n == Len(ea)
           n1 == n + 1
<1>11. HasTaken(f, u, n, a)
  <2>1. \A i \in 1 .. n : i \in 1 .. Len(l) /\ 0 + i = i
    BY <1>4
  <2>2. IsBehind(ea, u, 0)
    BY <1>4, <1>5, <1>6, <1>7, <2>1 DEF IsBehind
  <2>3. HasTaken(f, u, 0 + Len(ea), Joined(none, a))
    BY <1>1, <1>9, <2>2, CodeTaken
  <2>4. 0 + Len(ea) = n
    BY <1>4
  <2> HIDE DEF n
  <2> QED
    BY <1>10, <2>3, <2>4
<1>12. HasTaken(f, u, n1, a)
  <2>1. PICK bits \in Int : f[n] = Taken(1, bits, a, FALSE)
    BY <1>11 DEF HasTaken
  <2>2. /\ u \in Seq(Codes8) /\ n \in Nat /\ a \in Seq(Int)
        /\ \A i \in 1 .. Len(u) : f[i] = Next64(f[i - 1], u[i])
    BY <1>11 DEF HasTaken
  <2>3. n1 \in 1 .. Len(u) /\ n1 \in 1 .. Len(l) /\ n1 - 1 = n /\ n1 \in Nat
    BY <1>4, <1>6
  <2>4. u[n1] = Newline
    BY <1>4, <1>7, <2>3
  <2> HIDE DEF n1, n
  <2>5. f[n1] = Next64(Taken(1, bits, a, FALSE), Newline)
    BY <2>1, <2>2, <2>3, <2>4
  <2>6. NextAs(1, bits, a, Newline, Taken(1, bits, a, FALSE))
    BY <2>2, OtherTaken
  <2>7. f[n1] = Taken(1, bits, a, FALSE)
    BY <2>5, <2>6 DEF NextAs
  <2> QED
    BY <2>2, <2>3, <2>7 DEF HasTaken
<1>13. HasTaken(f, u, Len(u), Joined(a, b))
  <2>1. n1 = Len(l) /\ n1 + Len(eb) = Len(u)
    BY <1>4, <1>6
  <2>2. IsBehind(eb, u, n1)
    BY <1>4, <1>8, <2>1 DEF IsBehind, Follows
  <2> HIDE DEF n1, n
  <2>3. HasTaken(f, u, n1 + Len(eb), Joined(a, b))
    BY <1>1, <1>12, <2>2, CodeTaken
  <2> QED
    BY <2>1, <2>3
<1>14. PICK bits \in Int : f[Len(u)] = Taken(1, bits, Joined(a, b), FALSE)
  BY <1>13 DEF HasTaken
<1>15. base64_decode(u) = Joined(a, b)
  <2> DEFINE d == Taken(1, bits, Joined(a, b), FALSE)
  <2>1. d.bad = FALSE /\ d.at = 1 /\ d.to = Joined(a, b)
    BY DEF Taken
  <2> HIDE DEF d
  <2>2. f[Len(u)] = d
    BY <1>14 DEF d
  <2> QED
    BY <1>9, <2>1, <2>2
<1> QED
  BY <1>3, <1>15 DEF ea, eb

LEMMA CodesStay ==
    ASSUME text \in Seq(Codes8)
    PROVE  Base64RoundTrip
<1> SUFFICES ASSUME NEW ab \in Splits, NEW x \in Beyond, NEW y \in Beyond
             PROVE  base64_decode(base64_encode(ab[1], x) \o <<Newline>> \o base64_encode(ab[2], y)) = text
  BY DEF Base64RoundTrip
<1> DEFINE a == ab[1]
           b == ab[2]
<1>1. a \in Seq(Codes8) /\ b \in Seq(Codes8) /\ text = Joined(a, b)
  BY SplitsAre
<1>2. x \in Codes8 /\ y \in Codes8
  BY TextAssumption DEF Codes8
<1> HIDE DEF a, b
<1>3. base64_decode(base64_encode(a, x) \o <<Newline>> \o base64_encode(b, y)) = Joined(a, b)
  BY <1>1, <1>2, CodesTaken
<1> QED
  BY <1>1, <1>3 DEF a, b

\* No text is changed for good: whatever utils.cpp and url.cpp do to one can be
\* undone.
THEOREM TextIsKept == TextSpec => []TextKept
<1>1. TextInit => TextInv
  BY TextStarts
<1>2. TextInv /\ [TextNext]_tvars => TextInv'
  <2> SUFFICES ASSUME TextInv, [TextNext]_tvars PROVE TextInv'
    OBVIOUS
  <2>1. CASE UNCHANGED tvars
    BY <2>1 DEF tvars, TextInv, ReadInv, LinesInv, IsString
  <2> QED
    BY <2>1, FgetsKeeps, EndOfFileKeeps DEF TextNext
<1>3. TextInv => TextKept
  <2> SUFFICES ASSUME TextInv PROVE TextKept
    OBVIOUS
  <2>1. text \in Seq(Codes8)
    BY DEF TextInv, ReadInv
  <2>2. ListsSplit /\ NamesMerge /\ SepsFromTheRight /\ Base64RoundTrip /\ UrlRoundTrip
    BY <2>1, ListsStay, NamesStay, SepsPlaced, CodesStay, UrlCodedBack
  <2>3. LinesRead
    BY LinesFollow
  <2> QED
    BY <2>2, <2>3 DEF TextKept
<1> QED
  BY <1>1, <1>2, <1>3, PTL DEF TextSpec
=============================================================================
