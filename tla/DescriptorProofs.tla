-------------------------- MODULE DescriptorProofs --------------------------
(***************************************************************************)
(* Descriptors proved: that a thread keeps to its own connection and file  *)
(* until a close goes astray (Ownership), that none does while thread 0 is *)
(* the only one that has opened something (ClosingTwiceAlone), and that    *)
(* what is lost is counted by the threads and the failures (DescriptorsKept). *)
(***************************************************************************)
EXTENDS Descriptors, FiniteSetTheorems, TLAPS

-----------------------------------------------------------------------------
(* The lowest free number exists: the sets of the numbers below a number    *)
(* are well-founded by inclusion, as subsets of a finite set.               *)

\* A free descriptor is found when there is one.
LEMMA Lowest == Unused # {} => Allocated \in Unused
<1> SUFFICES ASSUME Unused # {} PROVE Allocated \in Unused
  OBVIOUS
<1> DEFINE Below(x) == {k \in Fds : k < x}
           Belows == {Below(x) : x \in Unused}
           R == StrictSubsetOrdering(Fds)
<1>1. Unused \subseteq Fds /\ Fds \subseteq Int
  BY SlotsAssumption DEF Unused, Fds
<1>2. IsWellFoundedOn(R, SUBSET Fds)
  <2>1. IsFiniteSet(Fds)
    BY SlotsAssumption, FS_Interval DEF Fds
  <2> QED
    BY <2>1, FS_FiniteSubsetsOfFinite, FS_StrictSubsetOrderingWellFounded
<1>3. \E b \in Belows : \A c \in Belows : <<c, b>> \notin R
  <2>1. Belows \subseteq SUBSET Fds /\ Belows # {}
    OBVIOUS
  <2> HIDE DEF Belows, R
  <2> QED
    BY <1>2, <2>1, WFMin
<1>4. PICK x \in Unused : \A y \in Unused : <<Below(y), Below(x)>> \notin R
  BY <1>3
<1>5. ASSUME NEW y \in Unused, y < x PROVE FALSE
  <2>1. x \in Int /\ y \in Int /\ y \in Fds
    BY <1>1
  <2>2. Below(y) \subseteq Below(x)
    <3>1. ASSUME NEW k \in Fds, k < y PROVE k < x
      <4>1. k \in Int
        BY <1>1
      <4> QED
        BY <1>5, <2>1, <3>1, <4>1
    <3> QED
      BY <3>1
  <2>3. y \in Below(x) /\ y \notin Below(y)
    BY <1>5, <2>1
  <2>4. Below(x) \in SUBSET Fds /\ Below(y) \in SUBSET Fds
    OBVIOUS
  <2> HIDE DEF Below
  <2> QED
    BY <1>4, <2>2, <2>3, <2>4 DEF StrictSubsetOrdering
<1>6. \A y \in Unused : x <= y
  BY <1>1, <1>5
<1> QED
  BY <1>6 DEF Allocated, Min

-----------------------------------------------------------------------------
(* Types *)

\* What a descriptor may be.
What == {Free} \cup {Sock(t) : t \in Threads}
          \cup {Conn(t) : t \in Threads} \cup {File(t) : t \in Threads}

\* Sockets, connections and files of different threads can be told apart.
LEMMA Kinds ==
    /\ \A t, u : Sock(t) # Conn(u) /\ Sock(t) # File(u) /\ Conn(t) # File(u)
    /\ \A t : Free \notin {Sock(t), Conn(t), File(t)}
    /\ \A t, u : t # u =>
          {Sock(t), Conn(t), File(t)} \cap {Sock(u), Conn(u), File(u)} = {}
    /\ \A x \in What : x.is = "socket" => \E t \in Threads : x = Sock(t)
    /\ \A x \in What : x.is = "connection" => \E t \in Threads : x = Conn(t)
    /\ \A t : [Sock(t) EXCEPT !.is = "connection"] = Conn(t)
<1>1. \A t, u : Sock(t) # Conn(u) /\ Sock(t) # File(u) /\ Conn(t) # File(u)
  BY DEF Sock, Conn, File
<1>2. \A t : Free \notin {Sock(t), Conn(t), File(t)}
  BY DEF Free, Sock, Conn, File
<1>3. \A t, u : t # u =>
          {Sock(t), Conn(t), File(t)} \cap {Sock(u), Conn(u), File(u)} = {}
  BY DEF Sock, Conn, File
<1>4. \A x \in What : x.is = "socket" => \E t \in Threads : x = Sock(t)
  BY DEF What, Free, Sock, Conn, File
<1>5. \A x \in What : x.is = "connection" => \E t \in Threads : x = Conn(t)
  BY DEF What, Free, Sock, Conn, File
<1>6. \A t : [Sock(t) EXCEPT !.is = "connection"] = Conn(t)
  BY DEF Sock, Conn
<1> QED
  BY <1>1, <1>2, <1>3, <1>4, <1>5, <1>6

\* Threads that have a descriptor of their own, by label.
Numbered == \A t \in Threads : pc[t] \in {"connect", "valid", "open"} => ctrl[t] \in Fds

\* socket() and open() return a free descriptor, or none when there is none.
LEMMA Allocation ==
    /\ Allocated \in Fds \cup {None}
    /\ Unused = {} => Allocated = None
    /\ Unused # {} => Allocated \in Fds /\ open[Allocated] = Free
<1>1. CASE Unused = {}
  BY <1>1 DEF Allocated
<1>2. CASE Unused # {}
  BY <1>2, Lowest DEF Unused
<1> QED
  BY <1>1, <1>2

\* What connect() turns into a connection was a socket.
LEMMA ConnectedStep ==
  ASSUME TypeOK, Numbered, NEW t \in Threads, Connected(t)
  PROVE  \E u \in Threads :
            /\ open[ctrl[t]] = Sock(u)
            /\ open' = [open EXCEPT ![ctrl[t]] = Conn(u)]
<1>1. pc[t] = "connect" /\ open[ctrl[t]].is = "socket"
  BY DEF Connected, Go
<1>2. ctrl[t] \in Fds
  BY <1>1 DEF Numbered
<1>3. open[ctrl[t]] \in What
  BY <1>2 DEF TypeOK, What
<1>4. PICK u \in Threads : open[ctrl[t]] = Sock(u)
  BY <1>1, <1>3, Kinds
<1>5. open' = [open EXCEPT ![ctrl[t]] = [open[ctrl[t]] EXCEPT !.is = "connection"]]
  BY DEF Connected
<1> QED
  BY <1>4, <1>5, Kinds

\* The inductive type invariant.
TypeInv == TypeOK /\ Numbered

\* The initial state has its types.
LEMMA InitType == Init => TypeInv
<1> SUFFICES ASSUME Init PROVE TypeInv
  OBVIOUS
<1>1. TypeOK
  <2>1. failed \in 0 .. Failures
    BY FailuresAssumption DEF Init
  <2>2. pc \in [Threads -> Labels]
    BY DEF Init, Labels
  <2>3. {ctrl, tran, wfp} \subseteq [Threads -> Fds \cup {None}]
    BY DEF Init
  <2> QED
    BY <2>1, <2>2, <2>3 DEF Init, TypeOK
<1>2. Numbered
  BY DEF Init, Numbered
<1> QED
  BY <1>1, <1>2 DEF TypeInv

\* Every step keeps the types.
LEMMA StepType == TypeInv /\ [Next]_vars => TypeInv'
<1> SUFFICES ASSUME TypeInv, [Next]_vars PROVE TypeInv'
  OBVIOUS
<1> USE DEF TypeInv
<1>0. open \in [Fds -> What]
  BY DEF TypeOK, What
<1>1. CASE UNCHANGED vars
  BY <1>1 DEF vars, TypeOK, Numbered
<1>2. ASSUME NEW t \in Threads, Thread(t) PROVE TypeInv'
  <2> DEFINE T == TypeOK'
  <2>0. \A what \in What : Holding(what) \in [Fds -> What]
    BY <1>0, Allocation DEF Holding
  <2>01. Sock(t) \in What /\ Conn(t) \in What /\ File(t) \in What /\ Free \in What
    BY DEF What
  <2>02. ASSUME NEW fd \in Fds \cup {None}, NEW S, CloseFd(fd, S)
         PROVE  open' \in [Fds -> What] /\ stray' \in BOOLEAN
    BY <1>0, <2>01, <2>02 DEF CloseFd, TypeOK
  <2>03. ASSUME Fail PROVE failed' \in 0 .. Failures
    BY <2>03, FailuresAssumption DEF Fail, TypeOK
  <2>04. ASSUME open' \in [Fds -> What], ctrl' \in [Threads -> Fds \cup {None}],
                tran' \in [Threads -> Fds \cup {None}],
                wfp' \in [Threads -> Fds \cup {None}],
                pc' \in [Threads -> Labels], failed' \in 0 .. Failures, stray' \in BOOLEAN
         PROVE  TypeOK'
    BY <2>04 DEF TypeOK, What
  <2>1. CASE MakeCtrl(t)
    <3>1. TypeOK'
      BY <2>1, <2>0, <2>01, <2>04, Allocation DEF MakeCtrl, Go, TypeOK, Labels
    <3>2. Numbered'
      BY <2>1 DEF MakeCtrl, Go, TypeOK, Numbered
    <3> QED
      BY <3>1, <3>2
  <2>2. CASE MakeTran(t)
    <3>1. TypeOK'
      BY <2>2, <2>0, <2>01, <2>04, Allocation DEF MakeTran, Go, TypeOK, Labels
    <3>2. Numbered'
      BY <2>2 DEF MakeTran, Go, TypeOK, Numbered
    <3> QED
      BY <3>1, <3>2
  <2>3. CASE ConnectOpens(t)
    <3>1. TypeOK'
      BY <2>3, <2>0, <2>01, <2>04, Allocation DEF ConnectOpens, Go, TypeOK, Labels
    <3>2. Numbered'
      BY <2>3, Allocation DEF ConnectOpens, Go, TypeOK, Numbered
    <3> QED
      BY <3>1, <3>2
  <2>4. CASE ConnectExhausted(t)
    <3>1. TypeOK'
      BY <2>4, <1>0, <2>04 DEF ConnectExhausted, Go, TypeOK, Labels
    <3>2. Numbered'
      BY <2>4 DEF ConnectExhausted, Go, TypeOK, Numbered
    <3> QED
      BY <3>1, <3>2
  <2>5. CASE Connected(t)
    <3>1. open' \in [Fds -> What]
      BY <2>5, <1>0, ConnectedStep DEF What
    <3>2. TypeOK'
      BY <2>5, <3>1, <2>04 DEF Connected, Go, TypeOK, Labels
    <3>3. Numbered'
      BY <2>5 DEF Connected, Go, TypeOK, Numbered
    <3> QED
      BY <3>2, <3>3
  <2>6. CASE Refused(t) \/ Invalid(t) \/ SegmentBroken(t) \/ Again(t)
    <3>1. failed' \in 0 .. Failures
      BY <2>6, <2>03 DEF Refused, Invalid, SegmentBroken, Again, TypeOK
    <3>2. TypeOK'
      BY <2>6, <1>0, <3>1, <2>04
         DEF Refused, Invalid, SegmentBroken, Again, Go, TypeOK, Labels
    <3>3. Numbered'
      BY <2>6 DEF Refused, Invalid, SegmentBroken, Again, Go, TypeOK, Numbered
    <3> QED
      BY <3>2, <3>3
  <2>7. CASE Valid(t)
    <3>1. TypeOK'
      BY <2>7, <1>0, <2>04 DEF Valid, TypeOK, Labels
    <3>2. Numbered'
      BY <2>7 DEF Valid, TypeOK, Numbered
    <3> QED
      BY <3>1, <3>2
  <2>8. CASE OpenFile(t)
    <3>1. TypeOK'
      BY <2>8, <2>0, <2>01, <2>04, Allocation DEF OpenFile, Go, TypeOK, Labels
    <3>2. Numbered'
      BY <2>8 DEF OpenFile, Go, TypeOK, Numbered
    <3> QED
      BY <3>1, <3>2
  <2>9. CASE SegmentDone(t) \/ CloseTran(t) \/ CloseCtrl(t) \/ CloseFile(t)
    <3>1. open' \in [Fds -> What] /\ stray' \in BOOLEAN
      BY <2>9, <2>02 DEF SegmentDone, CloseTran, CloseCtrl, CloseFile, TypeOK
    <3>2. TypeOK'
      BY <2>9, <3>1, <2>04
         DEF SegmentDone, CloseTran, CloseCtrl, CloseFile, Go, TypeOK, Labels
    <3>3. Numbered'
      BY <2>9 DEF SegmentDone, CloseTran, CloseCtrl, CloseFile, Go, TypeOK, Numbered
    <3> QED
      BY <3>2, <3>3
  <2> QED
    BY <1>2, <2>1, <2>2, <2>3, <2>4, <2>5, <2>6, <2>7, <2>8, <2>9 DEF Thread
<1> QED
  BY <1>1, <1>2 DEF Next

\* The variables have their types (TypeOK), and a socket that connects has a number.
THEOREM Types == Spec => []TypeInv
<1> QED
  BY InitType, StepType, PTL DEF Spec

-----------------------------------------------------------------------------
(* Each thread's own descriptors *)

\* What thread t has in its own hands, by label.
Owns(t) ==
    /\ pc[t] = "connect" => ctrl[t] \in Fds /\ open[ctrl[t]] = Sock(t)
    /\ pc[t] \in {"valid", "open", "transfer"} =>
          ctrl[t] \in Fds /\ open[ctrl[t]] = Conn(t)
    /\ pc[t] = "transfer" => wfp[t] = None \/ (wfp[t] \in Fds /\ open[wfp[t]] = File(t))

\* The inductive invariant of Ownership.
OwnInv == ~ stray => \A t \in Threads : Owns(t)

\* What thread t may own.
Mine(t) == {Sock(t), Conn(t), File(t)}

\* What a thread owns is left alone by a step that keeps its variables and its
\* entries of the table.
LEMMA OwnsKept ==
  ASSUME NEW u \in Threads, Owns(u),
         pc'[u] = pc[u], ctrl'[u] = ctrl[u], wfp'[u] = wfp[u],
         \A fd \in Fds : open[fd] \in Mine(u) => open'[fd] = open[fd]
  PROVE  Owns(u)'
BY DEF Owns, Mine

\* Nobody owns anything at first.
LEMMA InitOwn == Init => OwnInv
BY DEF Init, OwnInv, Owns

\* Every step that hits nothing it was not meant for keeps what each thread owns.
LEMMA StepOwn == TypeInv /\ OwnInv /\ [Next]_vars => OwnInv'
<1> SUFFICES ASSUME TypeInv, OwnInv, [Next]_vars, ~ stray'
     PROVE \A u \in Threads : Owns(u)'
  BY DEF OwnInv
<1> USE DEF TypeInv
<1>0. /\ open \in [Fds -> What]
      /\ ctrl \in [Threads -> Fds \cup {None}] /\ tran \in [Threads -> Fds \cup {None}]
      /\ wfp \in [Threads -> Fds \cup {None}] /\ pc \in [Threads -> Labels]
  BY DEF TypeOK, What
<1>1. CASE UNCHANGED vars
  BY <1>1 DEF vars, OwnInv, Owns
<1>2. ASSUME NEW t \in Threads, Thread(t) PROVE \A u \in Threads : Owns(u)'
  <2> DEFINE Same(u) == pc'[u] = pc[u] /\ ctrl'[u] = ctrl[u] /\ wfp'[u] = wfp[u]
  <2>01. ASSUME NEW fd \in Fds \cup {None}, NEW S, CloseFd(fd, S)
         PROVE  /\ ~ stray
                /\ \A g \in Fds : open[g] # Free /\ open[g] \notin S => open'[g] = open[g]
    BY <1>0, <2>01 DEF CloseFd, TypeOK
  <2>0. ~ stray
    BY <1>0, <1>2, <2>01
       DEF Thread, MakeCtrl, MakeTran, ConnectOpens, ConnectExhausted, Connected, Refused,
           Valid, Invalid, OpenFile, SegmentDone, SegmentBroken, CloseTran, CloseCtrl,
           CloseFile, Again
  <2>02. \A u \in Threads : Owns(u)
    BY <2>0 DEF OwnInv
  <2>03. \A what : \A g \in Fds : open[g] # Free => Holding(what)[g] = open[g]
    BY <1>0, Allocation DEF Holding
  <2>04. \A what : Unused # {} => Allocated \in Fds /\ Holding(what)[Allocated] = what
    BY <1>0, Allocation DEF Holding
  <2>05. \A u \in Threads : Free \notin Mine(u) /\ (u # t => Mine(u) \cap Mine(t) = {})
    <3>1. \A u : Free \notin {Sock(u), Conn(u), File(u)}
      BY Kinds
    <3>2. \A u : u # t => {Sock(u), Conn(u), File(u)} \cap {Sock(t), Conn(t), File(t)} = {}
      BY Kinds
    <3> QED
      BY <3>1, <3>2 DEF Mine
  <2>06. ASSUME \A u \in Threads \ {t} : Same(u),
                \A u \in Threads \ {t} : \A fd \in Fds :
                    open[fd] \in Mine(u) => open'[fd] = open[fd],
                Owns(t)'
         PROVE  \A u \in Threads : Owns(u)'
    BY <2>06, <2>02, OwnsKept
  <2>07. ASSUME NEW what, open' = Holding(what)
        
              PROVE  \A u \in Threads : \A fd \in Fds : open[fd] \in Mine(u) => open'[fd] = open[fd]
    BY <2>07, <2>03, <2>05
  <2>1. CASE MakeCtrl(t) \/ MakeTran(t)
    <3>1. \A u \in Threads \ {t} : Same(u)
      BY <2>1, <1>0 DEF MakeCtrl, MakeTran, Go
    <3>2. pc'[t] \in {"ctor2", "socket"}
      BY <2>1, <1>0 DEF MakeCtrl, MakeTran, Go
    <3>3. Owns(t)'
      BY <3>2 DEF Owns
    <3>4. open' = Holding(Sock(t))
      BY <2>1 DEF MakeCtrl, MakeTran
    <3> QED
      BY <3>1, <3>3, <3>4, <2>06, <2>07
  <2>2. CASE ConnectOpens(t)
    <3>1. \A u \in Threads \ {t} : Same(u)
      BY <2>2, <1>0 DEF ConnectOpens, Go
    <3>2. pc'[t] = "connect" /\ ctrl'[t] = Allocated /\ open' = Holding(Sock(t)) /\ Unused # {}
      BY <2>2, <1>0 DEF ConnectOpens, Go
    <3>3. Owns(t)'
      BY <3>2, <2>04 DEF Owns
    <3> QED
      BY <3>1, <3>2, <3>3, <2>06, <2>07
  <2>3. CASE ConnectExhausted(t) \/ Refused(t) \/ Invalid(t) \/ SegmentBroken(t) \/ Again(t)
    <3>1. \A u \in Threads \ {t} : Same(u)
      BY <2>3, <1>0 DEF ConnectExhausted, Refused, Invalid, SegmentBroken, Again, Go
    <3>2. pc'[t] \in {"socket", "dtor1", "finish1"} /\ open' = open
      BY <2>3, <1>0 DEF ConnectExhausted, Refused, Invalid, SegmentBroken, Again, Go
    <3>3. Owns(t)'
      BY <3>2 DEF Owns
    <3> QED
      BY <3>1, <3>2, <3>3, <2>06
  <2>4. CASE Connected(t)
    <3>1. \A u \in Threads \ {t} : Same(u)
      BY <2>4, <1>0 DEF Connected, Go
    <3>2. pc[t] = "connect" /\ pc'[t] = "valid" /\ ctrl'[t] = ctrl[t]
      BY <2>4, <1>0 DEF Connected, Go
    <3>3. ctrl[t] \in Fds /\ open[ctrl[t]] = Sock(t)
      BY <3>2, <2>02 DEF Owns
    <3>4. open' = [open EXCEPT ![ctrl[t]] = Conn(t)]
      <4>1. PICK u \in Threads : /\ open[ctrl[t]] = Sock(u)
                                 /\ open' = [open EXCEPT ![ctrl[t]] = Conn(u)]
        BY <2>4, ConnectedStep
      <4>2. u = t
        BY <3>3, <4>1 DEF Sock
      <4> QED
        BY <4>1, <4>2
    <3>5. Owns(t)'
      BY <3>2, <3>3, <3>4, <1>0 DEF Owns
    <3>6. ASSUME NEW u \in Threads \ {t}, NEW fd \in Fds, open[fd] \in Mine(u)
          PROVE  open'[fd] = open[fd]
      <4>1. Sock(t) \notin Mine(u)
        BY <2>05 DEF Mine
      <4> QED
        BY <3>3, <3>4, <3>6, <4>1, <1>0
    <3> QED
      BY <3>1, <3>5, <3>6, <2>06
  <2>5. CASE Valid(t)
    <3>1. ASSUME NEW u \in Threads \ {t} PROVE Owns(u)'
      <4>1. ctrl'[u] = ctrl[u] /\ wfp'[u] = wfp[u] /\ open' = open
        BY <2>5 DEF Valid
      <4>2. pc'[u] = pc[u] \/ pc'[u] = "ctor1"
        BY <2>5 DEF Valid
      <4>3. CASE pc'[u] = pc[u]
        BY <4>1, <4>3, <2>02, OwnsKept
      <4>4. CASE pc'[u] = "ctor1"
        BY <4>4 DEF Owns
      <4> QED
        BY <4>2, <4>3, <4>4
    <3>2. pc[t] = "valid" /\ pc'[t] = "open" /\ ctrl' = ctrl /\ open' = open
      BY <2>5, <1>0 DEF Valid
    <3>3. Owns(t)'
      BY <3>2, <2>02 DEF Owns
    <3> QED
      BY <3>1, <3>3
  <2>6. CASE OpenFile(t)
    <3>1. \A u \in Threads \ {t} : Same(u)
      BY <2>6, <1>0 DEF OpenFile, Go
    <3>2. /\ pc[t] = "open" /\ pc'[t] = "transfer" /\ ctrl'[t] = ctrl[t]
          /\ wfp'[t] = Allocated /\ open' = Holding(File(t))
      BY <2>6, <1>0 DEF OpenFile, Go
    <3>3. ctrl[t] \in Fds /\ open[ctrl[t]] = Conn(t)
      BY <3>2, <2>02 DEF Owns
    <3>4. open'[ctrl[t]] = Conn(t)
      BY <3>2, <3>3, <2>07 DEF Mine
    <3>5. wfp'[t] = None \/ (wfp'[t] \in Fds /\ open'[wfp'[t]] = File(t))
      BY <3>2, <2>04, Allocation
    <3>6. Owns(t)'
      BY <3>2, <3>3, <3>4, <3>5 DEF Owns
    <3> QED
      BY <3>1, <3>2, <3>6, <2>06, <2>07
  <2>7. CASE SegmentDone(t) \/ CloseTran(t) \/ CloseCtrl(t) \/ CloseFile(t)
    <3>1. \A u \in Threads \ {t} : Same(u)
      BY <2>7, <1>0 DEF SegmentDone, CloseTran, CloseCtrl, CloseFile, Go
    <3>2. pc'[t] \in {"finish1", "finish2", "dtor2", "close", "gone", "next"}
      BY <2>7, <1>0 DEF SegmentDone, CloseTran, CloseCtrl, CloseFile, Go
    <3>3. Owns(t)'
      BY <3>2 DEF Owns
    <3>4. \A fd \in Fds : open[fd] # Free /\ open[fd] \notin Mine(t) => open'[fd] = open[fd]
      <4>1. \E fd \in Fds \cup {None} : \E S \in SUBSET Mine(t) : CloseFd(fd, S)
        <5>1. CASE SegmentDone(t) \/ CloseFile(t)
          <6>1. {File(t)} \in SUBSET Mine(t) /\ wfp[t] \in Fds \cup {None}
            BY <1>0 DEF Mine
          <6> QED
            BY <5>1, <6>1 DEF SegmentDone, CloseFile
        <5>2. CASE CloseTran(t) \/ CloseCtrl(t)
          <6>1. /\ {Sock(t), Conn(t)} \in SUBSET Mine(t)
                /\ tran[t] \in Fds \cup {None} /\ ctrl[t] \in Fds \cup {None}
            BY <1>0 DEF Mine
          <6> QED
            BY <5>2, <6>1 DEF CloseTran, CloseCtrl
        <5> QED
          BY <2>7, <5>1, <5>2
      <4> QED
        BY <4>1, <2>01
    <3>5. \A u \in Threads \ {t} : \A fd \in Fds :
             open[fd] \in Mine(u) => open'[fd] = open[fd]
      BY <3>4, <2>05
    <3> QED
      BY <3>1, <3>3, <3>5, <2>06
  <2> QED
    BY <1>2, <2>1, <2>2, <2>3, <2>4, <2>5, <2>6, <2>7 DEF Thread
<1> QED
  BY <1>1, <1>2 DEF Next

\* Until a close has hit something it was not meant for, a thread that transfers
\* reads its own connection and writes its own file, for any number of threads,
\* descriptors and failures (mwget.cpp:521-545).
THEOREM Ownership == Spec => []OwnDescriptors
<1>1. OwnInv => OwnDescriptors
  BY DEF OwnInv, OwnDescriptors, Owns
<1> QED
  BY <1>1, Types, InitOwn, StepOwn, PTL DEF Spec

-----------------------------------------------------------------------------
(* Thread 0 alone *)

\* The others have opened nothing.
OthersIdle == \A t \in Threads \ {0} : pc[t] \in {"absent", "ctor1"}

\* A number of thread 0 is none, or is free, or is what it is meant to be.
Meant(fd, kinds) == fd = None \/ (fd \in Fds /\ open[fd] \in kinds \cup {Free})

\* A number that has not been closed.
Kept(fd) == fd = None \/ open[fd] # Free

\* Labels from which something is opened before the numbers are given up.
Opening == {"ctor1", "ctor2", "socket", "connect", "valid", "open"}

\* Between a close and the end of the life of the number nothing is opened.
Alone ==
    /\ Meant(ctrl[0], {Sock(0), Conn(0)})
    /\ Meant(tran[0], {Sock(0), Conn(0)})
    /\ Meant(wfp[0], {File(0)})
    /\ pc[0] \in Opening => Kept(ctrl[0]) /\ Kept(tran[0]) /\ wfp[0] = None
    /\ pc[0] \in {"close", "next"} => ctrl[0] = None /\ tran[0] = None
    /\ pc[0] = "finish2" => tran[0] = None
    /\ pc[0] = "next" => wfp[0] = None

\* The inductive invariant of ClosingTwiceAlone.
AloneInv == OthersIdle => ~ stray /\ Alone

\* The first thread exists.
LEMMA ZeroIsAThread == 0 \in Threads
BY NAssumption DEF Threads

\* Thread 0 starts with no number.
LEMMA InitAlone == Init => AloneInv
BY ZeroIsAThread DEF Init, AloneInv, Alone, Meant, Kept

\* Every step of thread 0 keeps its numbers meant; any other ends its being alone.
LEMMA StepAlone == TypeInv /\ AloneInv /\ [Next]_vars => AloneInv'
<1> SUFFICES ASSUME TypeInv, AloneInv, [Next]_vars, OthersIdle' PROVE ~ stray' /\ Alone'
  BY DEF AloneInv
<1> USE DEF TypeInv
<1>0. /\ open \in [Fds -> What] /\ 0 \in Threads
      /\ ctrl \in [Threads -> Fds \cup {None}] /\ tran \in [Threads -> Fds \cup {None}]
      /\ wfp \in [Threads -> Fds \cup {None}] /\ pc \in [Threads -> Labels]
  BY ZeroIsAThread DEF TypeOK, What
<1>1. CASE UNCHANGED vars
  BY <1>1 DEF vars, AloneInv, Alone, OthersIdle, Meant, Kept
<1>2. ASSUME NEW t \in Threads \ {0}, Thread(t) PROVE FALSE
  <2>1. pc'[t] \notin {"absent", "ctor1"}
    BY <1>0, <1>2
       DEF Thread, MakeCtrl, MakeTran, ConnectOpens, ConnectExhausted, Connected, Refused,
           Valid, Invalid, OpenFile, SegmentDone, SegmentBroken, CloseTran, CloseCtrl,
           CloseFile, Again, Go
  <2> QED
    BY <2>1 DEF OthersIdle
<1>3. ASSUME Thread(0) PROVE ~ stray' /\ Alone'
  <2>1. OthersIdle
    <3>1. \A u \in Threads \ {0} : pc'[u] = pc[u] \/ pc[u] = "absent"
      BY <1>0, <1>3
         DEF Thread, MakeCtrl, MakeTran, ConnectOpens, ConnectExhausted, Connected, Refused,
             Valid, Invalid, OpenFile, SegmentDone, SegmentBroken, CloseTran, CloseCtrl,
             CloseFile, Again, Go
    <3> QED
      BY <3>1 DEF OthersIdle
  <2>2. ~ stray /\ Alone
    BY <2>1 DEF AloneInv
  <2>3. ASSUME NEW what, open' = Holding(what)
        PROVE  /\ \A g \in Fds : open[g] # Free => open'[g] = open[g]
               /\ Allocated = None \/ (Allocated \in Fds /\ open'[Allocated] = what)
    BY <1>0, <2>3, Allocation DEF Holding
  <2>4. ASSUME NEW fd, NEW S, Meant(fd, S), CloseFd(fd, S)
        PROVE  ~ stray' /\ \A g \in Fds : open'[g] = open[g] \/ open'[g] = Free
    <3>1. CASE fd = None \/ open[fd] = Free
      BY <3>1, <2>2, <2>4 DEF CloseFd
    <3>2. CASE fd \in Fds /\ open[fd] \in S /\ open[fd] # Free /\ fd # None
      <4>1. open' = [open EXCEPT ![fd] = Free]
        BY <3>2, <2>4 DEF CloseFd
      <4>2. stray' = (stray \/ open[fd] \notin S)
        BY <3>2, <2>4 DEF CloseFd
      <4> QED
        BY <3>2, <4>1, <4>2, <2>2, <1>0
    <3> QED
      BY <2>4, <3>1, <3>2 DEF Meant
  <2>5. Free \notin {Sock(0), Conn(0), File(0)}
    BY Kinds
  <2>6. CASE MakeCtrl(0)
    <3>1. /\ pc[0] = "ctor1" /\ pc'[0] = "ctor2" /\ ctrl'[0] = Allocated
          /\ tran' = tran /\ wfp' = wfp /\ stray' = stray /\ open' = Holding(Sock(0))
      BY <2>6, <1>0 DEF MakeCtrl, Go
    <3> QED
      BY <3>1, <2>2, <2>3, <2>5, <1>0 DEF Alone, Meant, Kept, Opening
  <2>7. CASE MakeTran(0)
    <3>1. /\ pc[0] = "ctor2" /\ pc'[0] = "socket" /\ tran'[0] = Allocated
          /\ ctrl' = ctrl /\ wfp' = wfp /\ stray' = stray /\ open' = Holding(Sock(0))
      BY <2>7, <1>0 DEF MakeTran, Go
    <3> QED
      BY <3>1, <2>2, <2>3, <2>5, <1>0 DEF Alone, Meant, Kept, Opening
  <2>8. CASE ConnectOpens(0)
    <3>1. /\ pc[0] = "socket" /\ pc'[0] = "connect" /\ ctrl'[0] = Allocated
          /\ tran' = tran /\ wfp' = wfp /\ stray' = stray /\ open' = Holding(Sock(0))
      BY <2>8, <1>0 DEF ConnectOpens, Go
    <3> QED
      BY <3>1, <2>2, <2>3, <2>5, <1>0 DEF Alone, Meant, Kept, Opening
  <2>9. CASE ConnectExhausted(0)
    <3>1. /\ pc[0] = "socket" /\ pc'[0] = "socket" /\ ctrl'[0] = None
          /\ tran' = tran /\ wfp' = wfp /\ stray' = stray /\ open' = open
      BY <2>9, <1>0 DEF ConnectExhausted, Go
    <3> QED
      BY <3>1, <2>2, <1>0 DEF Alone, Meant, Kept, Opening
  <2>10. CASE Connected(0)
    <3>1. /\ pc[0] = "connect" /\ pc'[0] = "valid"
          /\ ctrl' = ctrl /\ tran' = tran /\ wfp' = wfp /\ stray' = stray
      BY <2>10, <1>0 DEF Connected, Go
    <3>2. PICK u \in Threads : /\ open[ctrl[0]] = Sock(u)
                               /\ open' = [open EXCEPT ![ctrl[0]] = Conn(u)]
      BY <2>10, ConnectedStep, <1>0
    <3>3. ctrl[0] \in Fds
      BY <3>1, <1>0 DEF Numbered
    <3>4. u = 0
      <4>1. open[ctrl[0]] \in {Sock(0), Conn(0), Free}
        BY <3>3, <2>2, SlotsAssumption DEF Alone, Meant, Fds, None
      <4> QED
        BY <3>2, <4>1 DEF Sock, Conn, Free
    <3>5. \A g \in Fds : open'[g] = open[g] \/ (g = ctrl[0] /\ open'[g] = Conn(0))
      BY <3>2, <3>4, <1>0
    <3> QED
      BY <3>1, <3>5, <2>2, <2>5, <1>0 DEF Alone, Meant, Kept, Opening
  <2>11. CASE Refused(0)
    <3>1. /\ pc[0] = "connect" /\ pc'[0] = "socket"
          /\ ctrl' = ctrl /\ tran' = tran /\ wfp' = wfp /\ stray' = stray /\ open' = open
      BY <2>11, <1>0 DEF Refused, Go
    <3> QED
      BY <3>1, <2>2, <1>0 DEF Alone, Meant, Kept, Opening
  <2>12. CASE Valid(0)
    <3>1. /\ pc[0] = "valid" /\ pc'[0] = "open" /\ tran'[0] = ctrl[0]
          /\ ctrl' = ctrl /\ wfp' = wfp /\ stray' = stray /\ open' = open
      BY <2>12, <1>0 DEF Valid
    <3> QED
      BY <3>1, <2>2, <1>0 DEF Alone, Meant, Kept, Opening
  <2>13. CASE Invalid(0)
    <3>1. /\ pc[0] = "valid" /\ pc'[0] \in {"socket", "dtor1"}
          /\ ctrl' = ctrl /\ tran' = tran /\ wfp' = wfp /\ stray' = stray /\ open' = open
      BY <2>13, <1>0 DEF Invalid, Go
    <3> QED
      BY <3>1, <2>2, <1>0 DEF Alone, Meant, Kept, Opening
  <2>14. CASE OpenFile(0)
    <3>1. /\ pc[0] = "open" /\ pc'[0] = "transfer" /\ wfp'[0] = Allocated
          /\ ctrl' = ctrl /\ tran' = tran /\ stray' = stray /\ open' = Holding(File(0))
      BY <2>14, <1>0 DEF OpenFile, Go
    <3> QED
      BY <3>1, <2>2, <2>3, <2>5, <1>0 DEF Alone, Meant, Kept, Opening
  <2>15. CASE SegmentDone(0)
    <3>1. /\ pc'[0] = "finish1" /\ ctrl' = ctrl /\ tran' = tran /\ wfp' = wfp
          /\ CloseFd(wfp[0], {File(0)})
      BY <2>15, <1>0 DEF SegmentDone, Go
    <3>2. ~ stray' /\ \A g \in Fds : open'[g] = open[g] \/ open'[g] = Free
      BY <3>1, <2>2, <2>4 DEF Alone
    <3> QED
      BY <3>1, <3>2, <2>2, <1>0 DEF Alone, Meant, Opening
  <2>16. CASE SegmentBroken(0)
    <3>1. /\ pc'[0] = "finish1" /\ ctrl' = ctrl /\ tran' = tran /\ wfp' = wfp
          /\ stray' = stray /\ open' = open
      BY <2>16, <1>0 DEF SegmentBroken, Go
    <3> QED
      BY <3>1, <2>2, <1>0 DEF Alone, Meant, Opening
  <2>17. CASE CloseTran(0)
    <3>1. /\ pc'[0] \in {"finish2", "dtor2"} /\ ctrl' = ctrl /\ tran'[0] = None /\ wfp' = wfp
          /\ CloseFd(tran[0], {Sock(0), Conn(0)})
      BY <2>17, <1>0 DEF CloseTran, Go
    <3>2. ~ stray' /\ \A g \in Fds : open'[g] = open[g] \/ open'[g] = Free
      BY <3>1, <2>2, <2>4 DEF Alone
    <3> QED
      BY <3>1, <3>2, <2>2, <1>0 DEF Alone, Meant, Opening
  <2>18. CASE CloseCtrl(0)
    <3>1. /\ pc'[0] \in {"close", "gone"} /\ ctrl'[0] = None /\ tran' = tran /\ wfp' = wfp
          /\ CloseFd(ctrl[0], {Sock(0), Conn(0)})
          /\ pc'[0] = "close" => pc[0] = "finish2"
      BY <2>18, <1>0 DEF CloseCtrl, Go
    <3>2. ~ stray' /\ \A g \in Fds : open'[g] = open[g] \/ open'[g] = Free
      BY <3>1, <2>2, <2>4 DEF Alone
    <3> QED
      BY <3>1, <3>2, <2>2, <1>0 DEF Alone, Meant, Opening
  <2>19. CASE CloseFile(0)
    <3>1. /\ pc[0] = "close" /\ pc'[0] = "next" /\ ctrl' = ctrl /\ tran' = tran
          /\ wfp'[0] = None /\ CloseFd(wfp[0], {File(0)})
      BY <2>19, <1>0 DEF CloseFile, Go
    <3>2. ~ stray' /\ \A g \in Fds : open'[g] = open[g] \/ open'[g] = Free
      BY <3>1, <2>2, <2>4 DEF Alone
    <3> QED
      BY <3>1, <3>2, <2>2, <1>0 DEF Alone, Meant, Opening
  <2>20. CASE Again(0)
    <3>1. /\ pc[0] = "next" /\ pc'[0] \in {"socket", "dtor1"} /\ ctrl' = ctrl
          /\ tran' = tran /\ wfp' = wfp /\ stray' = stray /\ open' = open
      BY <2>20, <1>0 DEF Again, Go
    <3> QED
      BY <3>1, <2>2, <1>0 DEF Alone, Meant, Kept, Opening
  <2> QED
    BY <1>3, <2>6, <2>7, <2>8, <2>9, <2>10, <2>11, <2>12, <2>13, <2>14, <2>15,
       <2>16, <2>17, <2>18, <2>19, <2>20 DEF Thread
<1> QED
  BY <1>1, <1>2, <1>3 DEF Next

\* Closing twice does no harm while the other threads have opened nothing, whatever
\* the number of descriptors and of failures (mwget.cpp:590-604, retrieve.cpp:76-81).
THEOREM ClosingTwiceAlone == Spec => []HarmlessAlone
<1>1. AloneInv => HarmlessAlone
  BY DEF AloneInv, OthersIdle, HarmlessAlone
<1> QED
  BY <1>1, Types, InitAlone, StepAlone, PTL DEF Spec

-----------------------------------------------------------------------------
(* How many descriptors are lost *)

\* The numbers a thread has, by label: those that TaskValid has made one, and those
\* that have been given up.
NumbersOK(t) ==
    /\ pc[t] \in {"absent", "ctor1"} => ctrl[t] = None
    /\ pc[t] \in {"absent", "ctor1", "ctor2", "close", "next"} => tran[t] = None
    /\ pc[t] \in {"close", "next"} => ctrl[t] = None
    /\ wfp[t] # None => pc[t] \in {"transfer", "finish1", "finish2", "close"}
    /\ pc[t] \in {"open", "transfer", "finish1"} => tran[t] = ctrl[t]
    /\ pc[t] = "finish2" => tran[t] = None

Held(fd) == \E t \in Threads : fd \in {ctrl[t], tran[t], wfp[t]}

\* The threads whose control socket, and whose transfer socket, is still to be lost:
\* Connect loses one, TaskValid the other, and neither is lost more than once unless an
\* attempt has failed since.
CtrlCredits ==
    {t \in Threads : \/ pc[t] \in {"absent", "ctor1", "ctor2"}
                     \/ pc[t] = "socket" /\ ctrl[t] # None}
TranCredits ==
    {t \in Threads : \/ pc[t] \in {"absent", "ctor1", "ctor2"}
                     \/ pc[t] \in {"socket", "connect", "valid"} /\ tran[t] # None}

\* What has been lost and what is still to be lost is paid for.
Budget ==
    Cardinality(Orphans) + Cardinality(CtrlCredits) + Cardinality(TranCredits) <= 2 * N + failed

\* The inductive invariant of DescriptorsCounted.
CountInv == (\A t \in Threads : NumbersOK(t)) /\ Budget /\ RoomToWrite

\* There are as many threads as N says, and as many descriptors as Slots says.
LEMMA Sizes ==
    /\ IsFiniteSet(Threads) /\ Cardinality(Threads) = N
    /\ IsFiniteSet(Fds) /\ Cardinality(Fds) = Slots
BY NAssumption, SlotsAssumption, FS_Interval, SMTT(30) DEF Threads, Fds

\* The sets that are counted can be.
LEMMA Counted ==
    /\ IsFiniteSet(Orphans) /\ IsFiniteSet(CtrlCredits) /\ IsFiniteSet(TranCredits)
    /\ Cardinality(Orphans) \in Nat /\ Cardinality(CtrlCredits) \in Nat /\ Cardinality(TranCredits) \in Nat
<1>1. IsFiniteSet(Orphans)
  BY Sizes, FS_Subset DEF Orphans
<1>2. IsFiniteSet(CtrlCredits) /\ IsFiniteSet(TranCredits)
  BY Sizes, FS_Subset DEF CtrlCredits, TranCredits
<1> QED
  BY <1>1, <1>2, FS_CardinalityType

\* And in the next state.
LEMMA CountedNext ==
    /\ IsFiniteSet(Orphans') /\ IsFiniteSet(CtrlCredits') /\ IsFiniteSet(TranCredits')
    /\ Cardinality(Orphans') \in Nat /\ Cardinality(CtrlCredits') \in Nat /\ Cardinality(TranCredits') \in Nat
<1>1. IsFiniteSet(Orphans')
  BY Sizes, FS_Subset DEF Orphans
<1>2. IsFiniteSet(CtrlCredits') /\ IsFiniteSet(TranCredits')
  BY Sizes, FS_Subset DEF CtrlCredits, TranCredits
<1> QED
  BY <1>1, <1>2, FS_CardinalityType

\* A set that gains at most one element.
LEMMA GainsOne ==
    ASSUME NEW S, IsFiniteSet(S), NEW T, NEW x, T \subseteq S \cup {x}
    PROVE  Cardinality(T) <= Cardinality(S) + 1
<1>1. IsFiniteSet(S \cup {x}) /\ Cardinality(S \cup {x}) <= Cardinality(S) + 1
  <2>1. IsFiniteSet(S \cup {x})
    BY FS_AddElement
  <2>2. Cardinality(S \cup {x}) = IF x \in S THEN Cardinality(S) ELSE Cardinality(S) + 1
    BY FS_AddElement
  <2>3. Cardinality(S) \in Nat
    BY FS_CardinalityType
  <2> QED
    BY <2>1, <2>2, <2>3
<1>2. IsFiniteSet(T) /\ Cardinality(T) <= Cardinality(S \cup {x})
  BY <1>1, FS_Subset
<1> QED
  BY <1>1, <1>2, FS_CardinalityType

\* A set that loses at least one.
LEMMA LosesOne ==
    ASSUME NEW S, IsFiniteSet(S), NEW x \in S, NEW T, T \subseteq S \ {x}
    PROVE  Cardinality(T) <= Cardinality(S) - 1
<1>1. IsFiniteSet(S \ {x}) /\ Cardinality(S \ {x}) = Cardinality(S) - 1
  BY FS_RemoveElement
<1> QED
  BY <1>1, FS_Subset

\* A set that gains none.
LEMMA GainsNone ==
    ASSUME NEW S, IsFiniteSet(S), NEW T, T \subseteq S
    PROVE  Cardinality(T) <= Cardinality(S)
BY FS_Subset

\* The numbers of the threads stay in order.
LEMMA StepNumbers ==
    ASSUME TypeInv, \A u \in Threads : NumbersOK(u), NEW t \in Threads, Thread(t)
    PROVE  \A u \in Threads : NumbersOK(u)'
<1> USE DEF TypeInv, TypeOK, Go
<1>1. ASSUME NEW u \in Threads \ {t} PROVE NumbersOK(u)'
  <2>1. ctrl'[u] = ctrl[u] /\ tran'[u] = tran[u] /\ wfp'[u] = wfp[u]
    BY <1>1
    DEF Thread, MakeCtrl, MakeTran, ConnectOpens, ConnectExhausted, Connected, Refused,
        Valid, Invalid, OpenFile, SegmentDone, SegmentBroken, CloseTran, CloseCtrl, CloseFile, Again
  <2>2. pc'[u] = pc[u] \/ (pc[u] = "absent" /\ pc'[u] = "ctor1")
    BY <1>1
    DEF Thread, MakeCtrl, MakeTran, ConnectOpens, ConnectExhausted, Connected, Refused,
        Valid, Invalid, OpenFile, SegmentDone, SegmentBroken, CloseTran, CloseCtrl, CloseFile, Again
  <2> QED
    BY <2>1, <2>2 DEF NumbersOK
<1>2. NumbersOK(t)'
  <2>0. NumbersOK(t)
    OBVIOUS
  <2>1. CASE MakeCtrl(t) \/ MakeTran(t) \/ ConnectOpens(t) \/ ConnectExhausted(t) \/ Connected(t) \/ Refused(t)
    BY <2>0, <2>1 DEF MakeCtrl, MakeTran, ConnectOpens, ConnectExhausted, Connected, Refused, NumbersOK
  <2>2. CASE Valid(t)
    BY <2>0, <2>2 DEF Valid, NumbersOK
  <2>3. CASE Invalid(t) \/ OpenFile(t) \/ SegmentDone(t) \/ SegmentBroken(t)
    BY <2>0, <2>3 DEF Invalid, OpenFile, SegmentDone, SegmentBroken, NumbersOK
  <2>4. CASE CloseTran(t) \/ CloseCtrl(t) \/ CloseFile(t) \/ Again(t)
    BY <2>0, <2>4 DEF CloseTran, CloseCtrl, CloseFile, Again, NumbersOK
  <2> QED
    BY <2>1, <2>2, <2>3, <2>4 DEF Thread
<1> QED
  BY <1>1, <1>2

\* A close that is followed by giving up the number loses nothing.
LEMMA CloseLoses ==
    ASSUME TypeInv, NEW fd \in Fds \cup {None}, NEW S, CloseFd(fd, S),
           \A g \in Fds : Held(g) => Held(g)' \/ g = fd
    PROVE  Orphans' \subseteq Orphans
<1>0. open \in [Fds -> What] /\ None \notin Fds
  BY SlotsAssumption DEF TypeInv, TypeOK, What, Fds, None
<1>1. ASSUME NEW g \in Fds, open'[g] # Free PROVE open[g] # Free /\ g # fd
  <2>1. CASE fd = None \/ open[fd] = Free
    <3>1. open' = open
      BY <2>1 DEF CloseFd
    <3> QED
      BY <1>0, <1>1, <2>1, <3>1
  <2>2. CASE ~ (fd = None \/ open[fd] = Free)
    <3>1. open' = [open EXCEPT ![fd] = Free] /\ fd \in Fds
      BY <2>2 DEF CloseFd
    <3> QED
      BY <1>0, <1>1, <3>1
  <2> QED
    BY <2>1, <2>2
<1>2. ASSUME NEW g \in Orphans' PROVE g \in Orphans
  <2>1. g \in Fds /\ open'[g] # Free /\ ~ Held(g)'
    BY DEF Orphans, Held
  <2>2. open[g] # Free /\ g # fd
    BY <1>1, <2>1
  <2>3. ~ Held(g)
    BY <2>1, <2>2
  <2> QED
    BY <2>1, <2>2, <2>3 DEF Orphans, Held
<1> QED
  BY <1>2

\* A step that opens something loses at most the number it overwrites.
LEMMA OpenLoses ==
    ASSUME TypeInv, NEW fd \in Fds \cup {None}, NEW a, a = Allocated, NEW what, open' = Holding(what),
           a \in Fds => Held(a)',
           \A g \in Fds : Held(g) => Held(g)' \/ g = fd
    PROVE  Orphans' \subseteq Orphans \cup {fd} /\ (fd = None => Orphans' \subseteq Orphans)
<1>1. ASSUME NEW g \in Orphans', g # fd PROVE g \in Orphans
  <2>1. g \in Fds /\ open'[g] # Free /\ ~ Held(g)'
    BY DEF Orphans, Held
  <2>2. open'[g] = open[g]
    <3>1. CASE Unused = {}
      BY <3>1 DEF Holding
    <3>2. CASE Unused # {}
      <4>1. a \in Fds /\ open' = [open EXCEPT ![a] = what]
        BY <3>2, Allocation DEF Holding
      <4>2. g # a
        BY <2>1, <4>1
      <4> QED
        BY <2>1, <4>1, <4>2 DEF TypeInv, TypeOK
    <3> QED
      BY <3>1, <3>2
  <2>3. ~ Held(g)
    BY <1>1, <2>1
  <2> QED
    BY <2>1, <2>2, <2>3 DEF Orphans, Held
<1>2. None \notin Orphans'
  BY SlotsAssumption DEF Orphans, Fds, None
<1> QED
  BY <1>1, <1>2

\* The budget is kept by a step that loses nothing and gains no credit.
LEMMA KeepsBudget ==
    ASSUME Budget, failed \in Nat, failed' \in Nat, failed' >= failed,
           Orphans' \subseteq Orphans, CtrlCredits' \subseteq CtrlCredits, TranCredits' \subseteq TranCredits
    PROVE  Budget'
<1>1. /\ Cardinality(Orphans') <= Cardinality(Orphans)
      /\ Cardinality(CtrlCredits') <= Cardinality(CtrlCredits)
      /\ Cardinality(TranCredits') <= Cardinality(TranCredits)
  BY Counted, GainsNone
<1> QED
  BY <1>1, Counted, CountedNext, NAssumption DEF Budget

\* The budget is kept by a step of the control socket that loses what it overwrites.
LEMMA PaysForCtrl ==
    ASSUME Budget, failed \in Nat, failed' = failed, NEW t \in CtrlCredits, NEW fd,
           Orphans' \subseteq Orphans \cup {fd}, CtrlCredits' \subseteq CtrlCredits \ {t},
           TranCredits' \subseteq TranCredits
    PROVE  Budget'
<1>1. Cardinality(Orphans') <= Cardinality(Orphans) + 1
  BY Counted, GainsOne
<1>2. Cardinality(CtrlCredits') <= Cardinality(CtrlCredits) - 1
  BY Counted, LosesOne
<1>3. Cardinality(TranCredits') <= Cardinality(TranCredits)
  BY Counted, GainsNone
<1> QED
  BY <1>1, <1>2, <1>3, Counted, CountedNext, NAssumption DEF Budget

\* Likewise for the transfer socket.
LEMMA PaysForTran ==
    ASSUME Budget, failed \in Nat, failed' = failed, NEW t \in TranCredits, NEW fd,
           Orphans' \subseteq Orphans \cup {fd}, TranCredits' \subseteq TranCredits \ {t},
           CtrlCredits' \subseteq CtrlCredits
    PROVE  Budget'
<1>1. Cardinality(Orphans') <= Cardinality(Orphans) + 1
  BY Counted, GainsOne
<1>2. Cardinality(TranCredits') <= Cardinality(TranCredits) - 1
  BY Counted, LosesOne
<1>3. Cardinality(CtrlCredits') <= Cardinality(CtrlCredits)
  BY Counted, GainsNone
<1> QED
  BY <1>1, <1>2, <1>3, Counted, CountedNext, NAssumption DEF Budget

\* A failed attempt pays for the socket that the next one will lose.
LEMMA FailurePays ==
    ASSUME Budget, failed \in Nat, failed' = failed + 1, NEW t,
           Orphans' \subseteq Orphans, CtrlCredits' \subseteq CtrlCredits \cup {t},
           TranCredits' \subseteq TranCredits
    PROVE  Budget'
<1>1. Cardinality(CtrlCredits') <= Cardinality(CtrlCredits) + 1
  BY Counted, GainsOne
<1>2. /\ Cardinality(Orphans') <= Cardinality(Orphans)
      /\ Cardinality(TranCredits') <= Cardinality(TranCredits)
  BY Counted, GainsNone
<1> QED
  BY <1>1, <1>2, Counted, CountedNext, NAssumption DEF Budget

\* A step that opens nothing else and gives up no number but one.
LEMMA OthersHold ==
    ASSUME TypeInv, NEW t \in Threads,
           \/ ctrl' = [ctrl EXCEPT ![t] = ctrl'[t]] /\ UNCHANGED <<tran, wfp>>
           \/ tran' = [tran EXCEPT ![t] = tran'[t]] /\ UNCHANGED <<ctrl, wfp>>
           \/ wfp' = [wfp EXCEPT ![t] = wfp'[t]] /\ UNCHANGED <<ctrl, tran>>,
           NEW fd,
           ctrl' # ctrl => fd = ctrl[t], tran' # tran => fd = tran[t], wfp' # wfp => fd = wfp[t],
           NEW g \in Fds, Held(g)
    PROVE  Held(g)' \/ g = fd
<1> USE DEF TypeInv, TypeOK
<1>1. PICK u \in Threads : g \in {ctrl[u], tran[u], wfp[u]}
  BY DEF Held
<1>2. CASE u # t
  <2>1. ctrl'[u] = ctrl[u] /\ tran'[u] = tran[u] /\ wfp'[u] = wfp[u]
    BY <1>2
  <2> QED
    BY <1>1, <2>1 DEF Held
<1>3. CASE u = t
  <2>1. CASE g # fd
    <3>1. g \in {ctrl'[t], tran'[t], wfp'[t]}
      BY <1>1, <1>3, <2>1
    <3> QED
      BY <3>1 DEF Held
  <2> QED
    BY <2>1
<1> QED
  BY <1>2, <1>3

\* The credits of the threads but t stay as they are, if t has them made at most.
LEMMA OthersCredits ==
    ASSUME TypeInv, NEW t \in Threads, Thread(t), NEW u \in Threads \ {t}
    PROVE  (u \in CtrlCredits' <=> u \in CtrlCredits) /\ (u \in TranCredits' <=> u \in TranCredits)
<1> USE DEF TypeInv, TypeOK, Go
<1>1. ctrl'[u] = ctrl[u] /\ tran'[u] = tran[u]
  BY DEF Thread, MakeCtrl, MakeTran, ConnectOpens, ConnectExhausted, Connected, Refused,
         Valid, Invalid, OpenFile, SegmentDone, SegmentBroken, CloseTran, CloseCtrl, CloseFile, Again
<1>2. pc'[u] = pc[u] \/ (pc[u] = "absent" /\ pc'[u] = "ctor1")
  BY DEF Thread, MakeCtrl, MakeTran, ConnectOpens, ConnectExhausted, Connected, Refused,
         Valid, Invalid, OpenFile, SegmentDone, SegmentBroken, CloseTran, CloseCtrl, CloseFile, Again
<1> QED
  BY <1>1, <1>2 DEF CtrlCredits, TranCredits

\* Every step keeps the budget.
LEMMA StepBudget ==
    ASSUME TypeInv, \A u \in Threads : NumbersOK(u), Budget, NEW t \in Threads, Thread(t)
    PROVE  Budget'
<1>0. NumbersOK(t) /\ failed \in Nat /\ failed' \in Nat
  <2>1. failed \in Nat
    BY FailuresAssumption DEF TypeInv, TypeOK
  <2>2. failed' = failed \/ failed' = failed + 1
    BY DEF Thread, MakeCtrl, MakeTran, ConnectOpens, ConnectExhausted, Connected, Refused, Fail,
           Valid, Invalid, OpenFile, SegmentDone, SegmentBroken, CloseTran, CloseCtrl, CloseFile, Again
  <2> QED
    BY <2>1, <2>2
<1>a. ctrl \in [Threads -> Fds \cup {None}] /\ tran \in [Threads -> Fds \cup {None}]
      /\ wfp \in [Threads -> Fds \cup {None}] /\ pc \in [Threads -> Labels]
  BY DEF TypeInv, TypeOK
<1>b. ASSUME t \in CtrlCredits' => t \in CtrlCredits PROVE CtrlCredits' \subseteq CtrlCredits
  BY <1>b, OthersCredits DEF CtrlCredits
<1>c. ASSUME t \in TranCredits' => t \in TranCredits PROVE TranCredits' \subseteq TranCredits
  BY <1>c, OthersCredits DEF TranCredits
<1>d. CtrlCredits' \subseteq CtrlCredits \cup {t}
  BY OthersCredits DEF CtrlCredits
<1>e. ASSUME t \notin CtrlCredits' PROVE CtrlCredits' \subseteq CtrlCredits \ {t}
  BY <1>e, OthersCredits DEF CtrlCredits
<1>f. ASSUME t \notin TranCredits' PROVE TranCredits' \subseteq TranCredits \ {t}
  BY <1>f, OthersCredits DEF TranCredits
<1>g. PICK a : a = Allocated
  OBVIOUS
<1>1. CASE MakeCtrl(t)
  <2>1. /\ pc[t] = "ctor1" /\ pc' = [pc EXCEPT ![t] = "ctor2"] /\ ctrl' = [ctrl EXCEPT ![t] = a]
        /\ open' = Holding(Sock(t)) /\ UNCHANGED <<tran, wfp, failed>>
    BY <1>1, <1>g DEF MakeCtrl, Go
  <2>2. ctrl[t] = None
    BY <1>0, <2>1 DEF NumbersOK
  <2>3. a \in Fds => Held(a)'
    BY <1>a, <2>1 DEF Held
  <2>4. \A g \in Fds : Held(g) => Held(g)' \/ g = None
    BY <1>a, <2>1, <2>2, OthersHold
  <2>5. Orphans' \subseteq Orphans
    BY <1>g, <2>1, <2>3, <2>4, OpenLoses
  <2>6. CtrlCredits' \subseteq CtrlCredits /\ TranCredits' \subseteq TranCredits
    BY <1>a, <1>b, <1>c, <2>1 DEF CtrlCredits, TranCredits
  <2> QED
    BY <1>0, <2>1, <2>5, <2>6, KeepsBudget
<1>2. CASE MakeTran(t)
  <2>1. /\ pc[t] = "ctor2" /\ pc' = [pc EXCEPT ![t] = "socket"] /\ tran' = [tran EXCEPT ![t] = a]
        /\ open' = Holding(Sock(t)) /\ UNCHANGED <<ctrl, wfp, failed>>
    BY <1>2, <1>g DEF MakeTran, Go
  <2>2. tran[t] = None
    BY <1>0, <2>1 DEF NumbersOK
  <2>3. a \in Fds => Held(a)'
    BY <1>a, <2>1 DEF Held
  <2>4. \A g \in Fds : Held(g) => Held(g)' \/ g = None
    BY <1>a, <2>1, <2>2, OthersHold
  <2>5. Orphans' \subseteq Orphans
    BY <1>g, <2>1, <2>3, <2>4, OpenLoses
  <2>6. CtrlCredits' \subseteq CtrlCredits /\ TranCredits' \subseteq TranCredits
    BY <1>a, <1>b, <1>c, <2>1 DEF CtrlCredits, TranCredits
  <2> QED
    BY <1>0, <2>1, <2>5, <2>6, KeepsBudget
<1>3. CASE ConnectOpens(t) \/ ConnectExhausted(t)
  <2>1. /\ pc[t] = "socket" /\ pc'[t] \in {"socket", "connect"} /\ ctrl' = [ctrl EXCEPT ![t] = a]
        /\ open' = Holding(Sock(t)) /\ UNCHANGED <<tran, wfp, failed>>
        /\ pc'[t] = "socket" => a = None
    <3>1. CASE ConnectOpens(t)
      BY <1>a, <1>g, <3>1 DEF ConnectOpens, Go
    <3>2. CASE ConnectExhausted(t)
      BY <1>a, <1>g, <3>2, Allocation DEF ConnectExhausted, Go, Holding
    <3> QED
      BY <1>3, <3>1, <3>2
  <2>2. PICK fd \in Fds \cup {None} : fd = ctrl[t]
    BY <1>a
  <2>3. a \in Fds => Held(a)'
    BY <1>a, <2>1 DEF Held
  <2>4. \A g \in Fds : Held(g) => Held(g)' \/ g = fd
    BY <1>a, <2>1, <2>2, OthersHold
  <2>5. Orphans' \subseteq Orphans \cup {fd} /\ (fd = None => Orphans' \subseteq Orphans)
    BY <1>g, <2>1, <2>3, <2>4, OpenLoses
  <2>6. TranCredits' \subseteq TranCredits
    BY <1>a, <1>c, <2>1 DEF TranCredits
  <2>7. CtrlCredits' \subseteq CtrlCredits \ {t}
    BY <1>a, <1>e, <2>1 DEF CtrlCredits
  <2>8. CASE fd = None
    BY <1>0, <2>1, <2>5, <2>6, <2>7, <2>8, KeepsBudget
  <2>9. CASE fd # None
    <3>1. t \in CtrlCredits
      BY <2>1, <2>2, <2>9 DEF CtrlCredits
    <3> QED
      BY <1>0, <2>1, <2>5, <2>6, <2>7, <3>1, PaysForCtrl
  <2> QED
    BY <2>8, <2>9
<1>4. CASE Connected(t)
  <2>1. /\ pc[t] = "connect" /\ pc' = [pc EXCEPT ![t] = "valid"]
        /\ UNCHANGED <<ctrl, tran, wfp, failed>>
    BY <1>4 DEF Connected, Go
  <2>2. ctrl[t] \in Fds
    BY <1>a, <2>1 DEF TypeInv, Numbered
  <2>3. \A g \in Fds : open'[g] # Free => open[g] # Free
    <3>1. PICK u \in Threads : open[ctrl[t]] = Sock(u) /\ open' = [open EXCEPT ![ctrl[t]] = Conn(u)]
      BY <1>4, ConnectedStep DEF TypeInv
    <3> QED
      BY <2>2, <3>1, Kinds DEF TypeInv, TypeOK
  <2>4. Orphans' \subseteq Orphans
    BY <2>1, <2>3 DEF Orphans
  <2>5. CtrlCredits' \subseteq CtrlCredits /\ TranCredits' \subseteq TranCredits
    BY <1>a, <1>b, <1>c, <2>1 DEF CtrlCredits, TranCredits
  <2> QED
    BY <1>0, <2>1, <2>4, <2>5, KeepsBudget
<1>5. CASE Refused(t) \/ Invalid(t)
  <2>1. /\ \/ (pc[t] = "connect" /\ pc'[t] = "socket")
           \/ (pc[t] = "valid" /\ pc'[t] \in {"socket", "dtor1"})
        /\ UNCHANGED <<open, ctrl, tran, wfp>> /\ failed' = failed + 1
    BY <1>5, <1>a DEF Refused, Invalid, Fail, Go
  <2>2. Orphans' \subseteq Orphans
    BY <2>1 DEF Orphans
  <2>3. TranCredits' \subseteq TranCredits
    BY <1>c, <2>1 DEF TranCredits
  <2> QED
    BY <1>0, <1>d, <2>1, <2>2, <2>3, FailurePays
<1>6. CASE Valid(t)
  <2>1. /\ pc[t] = "valid" /\ pc'[t] = "open" /\ tran' = [tran EXCEPT ![t] = ctrl[t]]
        /\ UNCHANGED <<open, ctrl, wfp, failed>>
    BY <1>6 DEF Valid
  <2>2. PICK fd \in Fds \cup {None} : fd = tran[t]
    BY <1>a
  <2>3. \A g \in Fds : Held(g) => Held(g)' \/ g = fd
    BY <1>a, <2>1, <2>2, OthersHold
  <2>4. Orphans' \subseteq Orphans \cup {fd} /\ (fd = None => Orphans' \subseteq Orphans)
    <3>1. None \notin Fds
      BY SlotsAssumption DEF Fds, None
    <3> QED
      BY <2>1, <2>3, <3>1 DEF Orphans, Held
  <2>5. CtrlCredits' \subseteq CtrlCredits
    BY <1>b, <2>1 DEF CtrlCredits
  <2>6. TranCredits' \subseteq TranCredits \ {t}
    BY <1>f, <2>1 DEF TranCredits
  <2>7. CASE fd = None
    BY <1>0, <2>1, <2>4, <2>5, <2>6, <2>7, KeepsBudget
  <2>8. CASE fd # None
    <3>1. t \in TranCredits
      BY <2>1, <2>2, <2>8 DEF TranCredits
    <3> QED
      BY <1>0, <2>1, <2>4, <2>5, <2>6, <3>1, PaysForTran
  <2> QED
    BY <2>7, <2>8
<1>7. CASE OpenFile(t)
  <2>1. /\ pc[t] = "open" /\ pc' = [pc EXCEPT ![t] = "transfer"] /\ wfp' = [wfp EXCEPT ![t] = a]
        /\ open' = Holding(File(t)) /\ UNCHANGED <<ctrl, tran, failed>>
    BY <1>7, <1>g DEF OpenFile, Go
  <2>2. wfp[t] = None
    BY <1>0, <2>1 DEF NumbersOK
  <2>3. a \in Fds => Held(a)'
    BY <1>a, <2>1 DEF Held
  <2>4. \A g \in Fds : Held(g) => Held(g)' \/ g = None
    BY <1>a, <2>1, <2>2, OthersHold
  <2>5. Orphans' \subseteq Orphans
    BY <1>g, <2>1, <2>3, <2>4, OpenLoses
  <2>6. CtrlCredits' \subseteq CtrlCredits /\ TranCredits' \subseteq TranCredits
    BY <1>a, <1>b, <1>c, <2>1 DEF CtrlCredits, TranCredits
  <2> QED
    BY <1>0, <2>1, <2>5, <2>6, KeepsBudget
<1>8. CASE SegmentDone(t) \/ SegmentBroken(t) \/ Again(t)
  <2>1. /\ pc'[t] \in {"finish1", "socket", "dtor1"} /\ (pc'[t] = "socket" => pc[t] = "next")
        /\ UNCHANGED <<ctrl, tran, wfp>> /\ failed' >= failed
    BY <1>0, <1>8, <1>a DEF SegmentDone, SegmentBroken, Again, Fail, Go
  <2>2. Orphans' \subseteq Orphans
    <3>1. CASE SegmentDone(t)
      <4>1. PICK fd \in Fds \cup {None} : fd = wfp[t]
        BY <1>a
      <4>2. CloseFd(fd, {File(t)})
        BY <3>1, <4>1 DEF SegmentDone
      <4>3. \A g \in Fds : Held(g) => Held(g)' \/ g = fd
        BY <2>1 DEF Held
      <4> QED
        BY <4>2, <4>3, CloseLoses
    <3>2. CASE SegmentBroken(t) \/ Again(t)
      <4>1. open' = open
        BY <3>2 DEF SegmentBroken, Again
      <4> QED
        BY <2>1, <4>1 DEF Orphans
    <3> QED
      BY <1>8, <3>1, <3>2
  <2>3. CtrlCredits' \subseteq CtrlCredits /\ TranCredits' \subseteq TranCredits
    BY <1>0, <1>b, <1>c, <2>1 DEF CtrlCredits, TranCredits, NumbersOK
  <2> QED
    BY <1>0, <2>1, <2>2, <2>3, KeepsBudget
<1>9. CASE CloseTran(t)
  <2>1. /\ pc'[t] \in {"finish2", "dtor2"} /\ tran' = [tran EXCEPT ![t] = None]
        /\ UNCHANGED <<ctrl, wfp, failed>>
    BY <1>9, <1>a DEF CloseTran, Go
  <2>2. PICK fd \in Fds \cup {None} : fd = tran[t]
    BY <1>a
  <2>3. CloseFd(fd, {Sock(t), Conn(t)})
    BY <1>9, <2>2 DEF CloseTran
  <2>4. \A g \in Fds : Held(g) => Held(g)' \/ g = fd
    BY <1>a, <2>1, <2>2, OthersHold
  <2>5. CtrlCredits' \subseteq CtrlCredits /\ TranCredits' \subseteq TranCredits
    BY <1>b, <1>c, <2>1 DEF CtrlCredits, TranCredits
  <2> QED
    BY <1>0, <2>1, <2>3, <2>4, <2>5, CloseLoses, KeepsBudget
<1>10. CASE CloseCtrl(t)
  <2>1. /\ pc'[t] \in {"close", "gone"} /\ ctrl' = [ctrl EXCEPT ![t] = None]
        /\ UNCHANGED <<tran, wfp, failed>>
    BY <1>10, <1>a DEF CloseCtrl, Go
  <2>2. PICK fd \in Fds \cup {None} : fd = ctrl[t]
    BY <1>a
  <2>3. CloseFd(fd, {Sock(t), Conn(t)})
    BY <1>10, <2>2 DEF CloseCtrl
  <2>4. \A g \in Fds : Held(g) => Held(g)' \/ g = fd
    BY <1>a, <2>1, <2>2, OthersHold
  <2>5. CtrlCredits' \subseteq CtrlCredits /\ TranCredits' \subseteq TranCredits
    BY <1>b, <1>c, <2>1 DEF CtrlCredits, TranCredits
  <2> QED
    BY <1>0, <2>1, <2>3, <2>4, <2>5, CloseLoses, KeepsBudget
<1>11. CASE CloseFile(t)
  <2>1. /\ pc'[t] = "next" /\ wfp' = [wfp EXCEPT ![t] = None]
        /\ UNCHANGED <<ctrl, tran, failed>>
    BY <1>11, <1>a DEF CloseFile, Go
  <2>2. PICK fd \in Fds \cup {None} : fd = wfp[t]
    BY <1>a
  <2>3. CloseFd(fd, {File(t)})
    BY <1>11, <2>2 DEF CloseFile
  <2>4. \A g \in Fds : Held(g) => Held(g)' \/ g = fd
    BY <1>a, <2>1, <2>2, OthersHold
  <2>5. CtrlCredits' \subseteq CtrlCredits /\ TranCredits' \subseteq TranCredits
    BY <1>b, <1>c, <2>1 DEF CtrlCredits, TranCredits
  <2> QED
    BY <1>0, <2>1, <2>3, <2>4, <2>5, CloseLoses, KeepsBudget
<1> QED
  BY <1>1, <1>2, <1>3, <1>4, <1>5, <1>6, <1>7, <1>8, <1>9, <1>10, <1>11 DEF Thread

-----------------------------------------------------------------------------
(* How many descriptors are held *)

\* No more values than threads that give one.
LEMMA FewValues ==
    ASSUME NEW U, IsFiniteSet(U), NEW S, NEW f \in [U -> S]
    PROVE  LET V == {f[u] : u \in U}
           IN  IsFiniteSet(V) /\ Cardinality(V) <= Cardinality(U)
<1> DEFINE V == {f[u] : u \in U}
<1>1. f \in Surjection(U, V)
  BY DEF Surjection
<1> HIDE DEF V
<1>2. IsFiniteSet(V) /\ Cardinality(V) <= Cardinality(U)
  BY <1>1, FS_Surjection
<1> QED
  BY <1>2 DEF V

\* A thread about to open its file finds a free descriptor if there are enough: what
\* is open is lost, or one of two numbers of another thread, or one of its own.
LEMMA FileFound ==
    ASSUME TypeInv, \A u \in Threads : NumbersOK(u), Budget, NEW t \in Threads, pc[t] = "open",
           Slots >= 4 * N + failed
    PROVE  Unused # {}
<1> SUFFICES ASSUME Unused = {} PROVE FALSE
  OBVIOUS
<1> DEFINE First == [u \in Threads |-> ctrl[u]]
           Second == [u \in Threads \ {t} |-> IF wfp[u] # None THEN wfp[u] ELSE tran[u]]
           A == {First[u] : u \in Threads}
           B == {Second[u] : u \in Threads \ {t}}
<1>1. Fds \subseteq (Orphans \cup A) \cup B
  <2>1. SUFFICES ASSUME NEW g \in Fds, g \notin Orphans PROVE g \in A \cup B
    OBVIOUS
  <2>2. open[g] # Free
    BY DEF Unused
  <2>3. PICK u \in Threads : g \in {ctrl[u], tran[u], wfp[u]}
    BY <2>1, <2>2 DEF Orphans
  <2>4. g # None
    BY SlotsAssumption DEF Fds, None
  <2>5. NumbersOK(u)
    OBVIOUS
  <2>6. g = ctrl[u] \/ (u # t /\ (IF wfp[u] # None THEN g = wfp[u] ELSE g = tran[u]))
    BY <2>3, <2>4, <2>5 DEF NumbersOK
  <2>7. CASE g = ctrl[u]
    BY <2>7
  <2>8. CASE u # t /\ (IF wfp[u] # None THEN g = wfp[u] ELSE g = tran[u])
    <3>1. u \in Threads \ {t} /\ g = Second[u]
      BY <2>8
    <3> HIDE DEF Second
    <3> QED
      BY <3>1
  <2> QED
    BY <2>6, <2>7, <2>8
<1>2. IsFiniteSet(A) /\ Cardinality(A) <= N
  <2>1. First \in [Threads -> Fds \cup {None}]
    BY DEF TypeInv, TypeOK
  <2> HIDE DEF First
  <2> QED
    BY <2>1, Sizes, FewValues
<1>3. IsFiniteSet(B) /\ Cardinality(B) <= N - 1
  <2>1. Second \in [Threads \ {t} -> Fds \cup {None}]
    BY DEF TypeInv, TypeOK
  <2>2. IsFiniteSet(Threads \ {t}) /\ Cardinality(Threads \ {t}) = N - 1
    BY Sizes, FS_RemoveElement
  <2>3. PICK U : U = Threads \ {t}
    OBVIOUS
  <2> HIDE DEF Second
  <2>4. IsFiniteSet({Second[u] : u \in U}) /\ Cardinality({Second[u] : u \in U}) <= Cardinality(U)
    <3>1. Second \in [U -> Fds \cup {None}] /\ IsFiniteSet(U)
      BY <2>1, <2>2, <2>3
    <3> QED
      BY <3>1, FewValues
  <2> QED
    BY <2>2, <2>3, <2>4
<1> HIDE DEF A, B
<1>4. IsFiniteSet(Orphans) /\ Cardinality(Orphans) <= 2 * N + failed
  BY Counted, NAssumption, FailuresAssumption DEF Budget, TypeInv, TypeOK
<1>5. /\ IsFiniteSet(Orphans \cup A)
      /\ Cardinality(Orphans \cup A) <= Cardinality(Orphans) + Cardinality(A)
  <2>1. /\ IsFiniteSet(Orphans \cup A)
        /\ Cardinality(Orphans \cup A)
             = Cardinality(Orphans) + Cardinality(A) - Cardinality(Orphans \cap A)
    BY <1>2, <1>4, FS_Union
  <2>2. Cardinality(Orphans \cap A) \in Nat
    BY <1>4, FS_Intersection, FS_CardinalityType
  <2> QED
    BY <1>2, <1>4, <2>1, <2>2, FS_CardinalityType
<1>6. /\ IsFiniteSet((Orphans \cup A) \cup B)
      /\ Cardinality((Orphans \cup A) \cup B) <= Cardinality(Orphans \cup A) + Cardinality(B)
  <2>1. /\ IsFiniteSet((Orphans \cup A) \cup B)
        /\ Cardinality((Orphans \cup A) \cup B)
             = Cardinality(Orphans \cup A) + Cardinality(B) - Cardinality((Orphans \cup A) \cap B)
    BY <1>3, <1>5, FS_Union
  <2>2. Cardinality((Orphans \cup A) \cap B) \in Nat
    BY <1>5, FS_Intersection, FS_CardinalityType
  <2> QED
    BY <1>3, <1>5, <2>1, <2>2, FS_CardinalityType
<1>7. Cardinality(Fds) <= Cardinality((Orphans \cup A) \cup B)
  BY <1>1, <1>6, FS_Subset
<1>8. /\ Cardinality(A) \in Nat /\ Cardinality(B) \in Nat /\ Cardinality(Orphans) \in Nat
      /\ Cardinality(Orphans \cup A) \in Nat /\ Cardinality((Orphans \cup A) \cup B) \in Nat
      /\ failed \in Nat
  BY <1>2, <1>3, <1>4, <1>5, <1>6, FS_CardinalityType, FailuresAssumption DEF TypeInv, TypeOK
<1> QED
  BY <1>2, <1>3, <1>4, <1>5, <1>6, <1>7, <1>8, Sizes, NAssumption, SlotsAssumption

\* A thread that transfers has its file, if there are descriptors enough.
LEMMA StepRoom ==
    ASSUME TypeInv, CountInv, NEW t \in Threads, Thread(t)
    PROVE  RoomToWrite'
<1>1. SUFFICES ASSUME Slots >= 4 * N + failed', NEW u \in Threads, pc'[u] = "transfer"
               PROVE  wfp'[u] # None
  BY NAssumption DEF RoomToWrite, Threads
<1>2. Slots >= 4 * N + failed
  <2>1. failed \in Nat
    BY FailuresAssumption DEF TypeInv, TypeOK
  <2>2. failed' = failed \/ failed' = failed + 1
    BY DEF Thread, MakeCtrl, MakeTran, ConnectOpens, ConnectExhausted, Connected, Refused, Fail,
           Valid, Invalid, OpenFile, SegmentDone, SegmentBroken, CloseTran, CloseCtrl, CloseFile, Again
  <2> QED
    BY <1>1, <2>1, <2>2, NAssumption, SlotsAssumption
<1>3. CASE OpenFile(t) /\ u = t
  <2>1. Unused # {}
    BY <1>2, <1>3, FileFound DEF CountInv, OpenFile, Go
  <2>2. Allocated \in Fds
    BY <2>1, Allocation
  <2>3. wfp'[u] = Allocated
    BY <1>3 DEF OpenFile, TypeInv, TypeOK
  <2> QED
    BY <2>2, <2>3, SlotsAssumption DEF Fds, None
<1>4. CASE ~ (OpenFile(t) /\ u = t)
  <2>1. pc[u] = "transfer" /\ wfp'[u] = wfp[u]
    BY <1>1, <1>4
    DEF Thread, MakeCtrl, MakeTran, ConnectOpens, ConnectExhausted, Connected, Refused, Go,
        Valid, Invalid, OpenFile, SegmentDone, SegmentBroken, CloseTran, CloseCtrl, CloseFile, Again,
        TypeInv, TypeOK
  <2> QED
    BY <1>2, <2>1 DEF CountInv, RoomToWrite
<1> QED
  BY <1>3, <1>4

\* In the initial state nothing is lost and every thread has its two credits.
LEMMA InitCount == Init => CountInv
<1> SUFFICES ASSUME Init PROVE CountInv
  OBVIOUS
<1>1. \A t \in Threads : NumbersOK(t)
  BY DEF Init, NumbersOK
<1>2. Budget
  <2>1. Orphans = {}
    BY DEF Orphans, Init
  <2>2. CtrlCredits \subseteq Threads /\ TranCredits \subseteq Threads
    BY DEF CtrlCredits, TranCredits
  <2>3. Cardinality(CtrlCredits) <= N /\ Cardinality(TranCredits) <= N
    BY <2>2, Sizes, FS_Subset
  <2> QED
    BY <2>1, <2>3, Counted, FS_EmptySet, NAssumption DEF Budget, Init
<1>3. RoomToWrite
  BY DEF RoomToWrite, Init
<1> QED
  BY <1>1, <1>2, <1>3 DEF CountInv

\* Every step keeps the count.
LEMMA StepCount == TypeInv /\ CountInv /\ [Next]_vars => CountInv'
<1> SUFFICES ASSUME TypeInv, CountInv, [Next]_vars PROVE CountInv'
  OBVIOUS
<1>1. ASSUME NEW t \in Threads, Thread(t) PROVE CountInv'
  <2>1. (\A u \in Threads : NumbersOK(u)) /\ Budget
    BY DEF CountInv
  <2>2. \A u \in Threads : NumbersOK(u)'
    BY <1>1, <2>1, StepNumbers
  <2>3. Budget'
    BY <1>1, <2>1, StepBudget
  <2>4. RoomToWrite'
    BY <1>1, StepRoom
  <2> QED
    BY <2>2, <2>3, <2>4 DEF CountInv, Threads
<1>2. CASE UNCHANGED vars
  BY <1>2 DEF vars, CountInv, NumbersOK, Budget, RoomToWrite, Orphans, CtrlCredits, TranCredits
<1> QED
  BY <1>1, <1>2 DEF Next

\* Descriptors are lost only to the two sockets a retriever is made with and to attempts
\* that fail (ksocket.cpp:79-86, retrieve.cpp:56-81), however the threads' closes
\* and opens fall between each other and whatever a close has hit; and so with four
\* descriptors for each thread and one for each failure a thread that transfers has
\* a file to write to (mwget.cpp:521-545).
THEOREM DescriptorsKept == Spec => []DescriptorsCounted
<1>1. TypeInv /\ CountInv => DescriptorsCounted
  <2> SUFFICES ASSUME TypeInv, CountInv PROVE DescriptorsCounted
    OBVIOUS
  <2>1. failed \in Nat
    BY FailuresAssumption DEF TypeInv, TypeOK
  <2> QED
    BY <2>1, Counted, NAssumption DEF CountInv, Budget, DescriptorsCounted, LeaksAreFailures
<1> QED
  BY <1>1, Types, InitCount, StepCount, PTL DEF Spec
=============================================================================
