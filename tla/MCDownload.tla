----------------------------- MODULE MCDownload -----------------------------
(***************************************************************************)
(* Download with two history variables: has the unlocked table been used   *)
(* in a way that a lock around ReCaclTask would have excluded?  What the   *)
(* table guarantees, it guarantees up to that moment: that no byte is lost *)
(* until two threads take from one victim at once (clash), and that no     *)
(* byte is handed out twice until a thread takes from a victim that        *)
(* another thread has its eye on (rival).                                  *)
(***************************************************************************)
EXTENDS Download

VARIABLES clash, rival

\* t has read the victim's total to place its own segment and has not yet
\* stored the reduced total.
Splitting(t) ==
    plan[t] # "none" /\ pc[t] \in {"total", "got", "state", "load", "store"}

\* t has chosen its victim and not yet reduced it.
Chosen(t) ==
    /\ maxtc[t] \in Threads
    /\ \/ pc[t] \in {"scan", "pick", "minsplit"}
       \/ plan[t] # "none" /\ pc[t] \in {"begin", "total", "got", "state", "load", "store"}

\* Two threads take from one victim at once, or a victim moves on to another
\* segment between being chosen and being reduced.
Clashing ==
    \E t, u \in Threads :
        /\ t # u
        /\ \/ Splitting(t) /\ Splitting(u) /\ maxtc[t] = maxtc[u]
           \/ Chosen(t) /\ maxtc[t] = u /\ pc[u] \in {"begin", "total", "got", "state"}

\* A thread takes from the victim of another, whose idea of what is left of it
\* (left, maxtc) is then out of date.
Rivalling ==
    \E t, u \in Threads : t # u /\ Splitting(t) /\ Chosen(u) /\ maxtc[t] = maxtc[u]

MCInit == Init /\ clash = FALSE /\ rival = FALSE
MCNext ==
    /\ Next
    /\ clash' = (clash \/ Clashing')
    /\ rival' = (rival \/ Rivalling')
MCSpec == MCInit /\ [][MCNext]_<<vars, clash, rival>>

-----------------------------------------------------------------------------
Written == good \cup bad
PendingOf(t) == Pending(begin[t], got[t], total[t])
Task == 0 .. taskSize - 1

\* From CaclTask on, every byte of the task is in the file or still to be
\* fetched by some table entry: splitting a segment in two, taking a stopped
\* one over and moving on never lose a byte, at no step of ReCaclTask.
EveryByteOwned ==
    cycle = 1 /\ ~ clash =>
        Task \subseteq Written \cup UNION {PendingOf(t) : t \in Threads}

\* t's entry is written in full, and nothing is being taken from it.
Settled(t) ==
    /\ pc[t] \notin {"total", "got"}
    /\ \A v \in Threads : Splitting(v) => maxtc[v] # t

\* The premise of SegmentsApart: no thread has given up, none has come between
\* another and its victim.
Orderly == cycle = 1 /\ ~ clash /\ ~ rival /\ "valid" \notin Faults

\* Outside a takeover no byte is still to be fetched by two threads: a split
\* hands over exactly what it takes away.
SegmentsDisjoint ==
    Orderly =>
        \A t, u \in Threads :
            t # u /\ Settled(t) /\ Settled(u) => PendingOf(t) \cap PendingOf(u) = {}

\* No entry reaches outside the document, not even in the middle of a takeover
\* (it would ask the server for bytes that do not exist).
SegmentsWithinTask ==
    Orderly => \A t \in Threads : PendingOf(t) \subseteq Task

\* The table stays a partition of what is left to fetch: splitting it neither
\* hands a byte to two threads nor invents one.
SegmentsApart == SegmentsDisjoint /\ SegmentsWithinTask

\* When main has counted every thread as finished, the only bytes that may be
\* missing from the file are those of threads that gave up and that no other
\* thread took over.  (An uninitialised maxtc that holds an entry's address may
\* close that entry with all its bytes to go: UseUninitialised.)
FinishedIsWhole ==
    main = "end" /\ (\A t \in Threads : pc[t] = "exited") /\ ~ clash /\ "wild" \notin Faults =>
        Task \subseteq Written \cup UNION {PendingOf(t) : t \in {u \in Threads : state[u] = "T_STOP"}}

\* " task finished completed" (mwget.cpp:226) is printed for a whole file.
CompletedMeansWhole ==
    main = "end" /\ (\A t \in Threads : pc[t] = "exited") => Task \subseteq good
=============================================================================
