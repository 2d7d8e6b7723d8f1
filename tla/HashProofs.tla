----------------------------- MODULE HashProofs -----------------------------
(***************************************************************************)
(* HashTable proved, for every set of keys and values, hash function that  *)
(* agrees with the test function, and list of sizes: ChainsKept, and       *)
(* TableIsMap, the refinement of KeyMap.  A sound table (SoundTable) has its    *)
(* keys once, no gap in the probe chain before any mapping, and a gap      *)
(* somewhere. grow_hash_table and hash_table_remove are loops, which the   *)
(* model writes as recursive functions; GrowTurns and DeleteTurns unroll   *)
(* them, and an invariant of the turns (Grown, Loop) gives what they       *)
(* return.  While the removal rehashes, chains have gaps: Loop says where. *)
(***************************************************************************)
EXTENDS HashTable, FiniteSetTheorems, TLAPS

-----------------------------------------------------------------------------
(* Numbers *)

\* A set of numbers up to n that is not empty has a least one: the sets of the numbers
\* below its members are well-founded by inclusion, as subsets of a finite set.
LEMMA Least ==
    ASSUME NEW n \in Nat, NEW S, S \subseteq 0 .. n, S # {}
    PROVE  \E x \in S : \A y \in S : x <= y
<1> DEFINE Below(x) == {k \in 0 .. n : k < x}
           Belows == {Below(x) : x \in S}
           R == StrictSubsetOrdering(0 .. n)
<1>1. IsWellFoundedOn(R, SUBSET (0 .. n))
  <2>1. IsFiniteSet(0 .. n)
    BY FS_Interval
  <2> QED
    BY <2>1, FS_FiniteSubsetsOfFinite, FS_StrictSubsetOrderingWellFounded
<1>2. \E b \in Belows : \A c \in Belows : <<c, b>> \notin R
  <2>1. Belows \subseteq SUBSET (0 .. n) /\ Belows # {}
    OBVIOUS
  <2> HIDE DEF Belows, R
  <2> QED
    BY <1>1, <2>1, WFMin
<1>3. PICK x \in S : \A y \in S : <<Below(y), Below(x)>> \notin R
  BY <1>2
<1>4. ASSUME NEW y \in S, y < x PROVE FALSE
  <2>1. x \in 0 .. n /\ y \in 0 .. n
    OBVIOUS
  <2>2. Below(y) \subseteq Below(x)
    BY <1>4, <2>1
  <2>3. y \in Below(x) /\ y \notin Below(y)
    BY <1>4, <2>1
  <2>4. Below(x) \in SUBSET (0 .. n) /\ Below(y) \in SUBSET (0 .. n)
    OBVIOUS
  <2> HIDE DEF Below
  <2> QED
    BY <1>3, <2>2, <2>3, <2>4 DEF StrictSubsetOrdering
<1>5. \A y \in S : x <= y
  BY <1>4
<1> QED
  BY <1>5

\* Induction up to n, over a set.
LEMMA Inductive ==
    ASSUME NEW n \in Nat, NEW P, 0 \in P, \A i \in 1 .. n : i - 1 \in P => i \in P
    PROVE  0 .. n \subseteq P
<1> SUFFICES ASSUME (0 .. n) \ P # {} PROVE FALSE
  OBVIOUS
<1>1. PICK x \in (0 .. n) \ P : \A y \in (0 .. n) \ P : x <= y
  BY Least
<1>2. x # 0 /\ x \in 1 .. n /\ x - 1 \in 0 .. n
  BY <1>1
<1>3. x - 1 \in P
  BY <1>1, <1>2
<1> QED
  BY <1>1, <1>2, <1>3

\* f is defined by recursion on the numbers up to n: step[i] makes the value at i of the
\* one before.
Recurs(f, S, s0, n, step) ==
    f \in [0 .. n -> S] /\ f[0] = s0 /\ \A i \in 1 .. n : f[i] = step[i][f[i - 1]]

\* There is such a function.
LEMMA Recursion ==
    ASSUME NEW S, NEW s0 \in S, NEW n \in Nat, NEW step \in [1 .. n -> [S -> S]]
    PROVE  \E f : Recurs(f, S, s0, n, step)
<1> DEFINE P == {m \in 0 .. n : \E f : Recurs(f, S, s0, m, step)}
<1>1. 0 \in P
  <2> DEFINE f == [i \in 0 .. 0 |-> s0]
  <2>1. Recurs(f, S, s0, 0, step)
    BY DEF Recurs
  <2> HIDE DEF f
  <2> QED
    BY <2>1
<1>2. ASSUME NEW m \in 1 .. n, m - 1 \in P PROVE m \in P
  <2>1. PICK f : Recurs(f, S, s0, m - 1, step)
    BY <1>2
  <2> DEFINE g == [i \in 0 .. m |-> IF i = m THEN step[m][f[m - 1]] ELSE f[i]]
  <2>2. Recurs(g, S, s0, m, step)
    <3>0. f \in [0 .. m - 1 -> S] /\ f[0] = s0 /\ \A i \in 1 .. m - 1 : f[i] = step[i][f[i - 1]]
      BY <2>1 DEF Recurs
    <3>1. f[m - 1] \in S /\ step[m][f[m - 1]] \in S
      BY <3>0
    <3>2. g \in [0 .. m -> S] /\ g[0] = s0
      BY <3>0, <3>1
    <3>3. ASSUME NEW i \in 1 .. m PROVE g[i] = step[i][g[i - 1]]
      <4>1. CASE i = m
        BY <4>1
      <4>2. CASE i # m
        <5>1. i \in 1 .. m - 1 /\ i - 1 # m
          BY <4>2
        <5> QED
          BY <3>0, <4>2, <5>1
      <4> QED
        BY <4>1, <4>2
    <3> HIDE DEF g
    <3> QED
      BY <3>2, <3>3 DEF Recurs
  <2> HIDE DEF g
  <2> QED
    BY <2>2
<1>3. n \in P
  <2>1. 0 .. n \subseteq P
    <3> HIDE DEF P
    <3> QED
      BY <1>1, <1>2, Inductive
  <2>2. n \in 0 .. n
    OBVIOUS
  <2> HIDE DEF P
  <2> QED
    BY <2>1, <2>2
<1> QED
  BY <1>3

-----------------------------------------------------------------------------
(* Going round *)

\* Steps from position a to position b of n, and the position d steps on.
Dist(n, a, b) == IF b >= a THEN b - a ELSE b - a + n
Along(n, a, d) == IF a + d < n THEN a + d ELSE a + d - n

\* Every position is at one distance from any other.
LEMMA Round ==
    ASSUME NEW n \in Nat \ {0}, NEW a \in 0 .. n - 1
    PROVE  /\ \A b \in 0 .. n - 1 : Dist(n, a, b) \in 0 .. n - 1 /\ (a + Dist(n, a, b)) % n = b
           /\ \A d \in 0 .. n - 1 : (a + d) % n \in 0 .. n - 1 /\ Dist(n, a, (a + d) % n) = d
           /\ \A b, c \in 0 .. n - 1 : Dist(n, a, b) = Dist(n, a, c) => b = c
<1>1. ASSUME NEW d \in 0 .. n - 1 PROVE (a + d) % n = Along(n, a, d)
  BY DEF Along
<1>2. ASSUME NEW b \in 0 .. n - 1
      PROVE  Dist(n, a, b) \in 0 .. n - 1 /\ (a + Dist(n, a, b)) % n = b
  <2>1. Dist(n, a, b) \in 0 .. n - 1 /\ Along(n, a, Dist(n, a, b)) = b
    BY DEF Dist, Along
  <2>2. (a + Dist(n, a, b)) % n = Along(n, a, Dist(n, a, b))
    BY <1>1, <2>1
  <2> QED
    BY <2>1, <2>2
<1>3. ASSUME NEW d \in 0 .. n - 1
      PROVE  (a + d) % n \in 0 .. n - 1 /\ Dist(n, a, (a + d) % n) = d
  <2>1. Along(n, a, d) \in 0 .. n - 1 /\ Dist(n, a, Along(n, a, d)) = d
    BY DEF Dist, Along
  <2> QED
    BY <1>1, <2>1
<1>4. ASSUME NEW b \in 0 .. n - 1, NEW c \in 0 .. n - 1, Dist(n, a, b) = Dist(n, a, c) PROVE b = c
  BY <1>4 DEF Dist
<1> QED
  BY <1>2, <1>3, <1>4, Zenon

\* The first stop from position p on.
IsFirst(n, p, stops, q) ==
    q \in stops /\ \A x \in 0 .. n - 1 : Dist(n, p, x) < Dist(n, p, q) => x \notin stops

\* FirstFrom finds it, and there is no other.
LEMMA FirstIs ==
    ASSUME NEW n \in Nat \ {0}, NEW tab, DOMAIN tab = 0 .. n - 1, NEW p \in 0 .. n - 1,
           NEW stops, stops \subseteq 0 .. n - 1, stops # {}
    PROVE  /\ FirstFrom(tab, p, stops) \in 0 .. n - 1
           /\ IsFirst(n, p, stops, FirstFrom(tab, p, stops))
           /\ \A q : IsFirst(n, p, stops, q) => q = FirstFrom(tab, p, stops)
<1> DEFINE C(d) == /\ (p + d) % n \in stops
                   /\ \A e \in 0 .. d - 1 : (p + e) % n \notin stops
           d0 == CHOOSE d \in 0 .. n - 1 : C(d)
           q0 == (p + d0) % n
<1>1. Size(tab) = n
  BY FS_Interval DEF Size
<1>2. FirstFrom(tab, p, stops) = q0
  BY <1>1 DEF FirstFrom
<1>0. /\ \A x \in 0 .. n - 1 : Dist(n, p, x) \in 0 .. n - 1 /\ (p + Dist(n, p, x)) % n = x
      /\ \A d \in 0 .. n - 1 : (p + d) % n \in 0 .. n - 1 /\ Dist(n, p, (p + d) % n) = d
      /\ \A x, y \in 0 .. n - 1 : Dist(n, p, x) = Dist(n, p, y) => x = y
  BY Round, Zenon
<1>3. \E d \in 0 .. n - 1 : C(d)
  <2> DEFINE D == {Dist(n, p, x) : x \in stops}
  <2>1. D \subseteq 0 .. n - 1 /\ D # {}
    <3>1. \A x \in 0 .. n - 1 : Dist(n, p, x) \in 0 .. n - 1
      BY <1>0, Zenon
    <3> QED
      BY <3>1, Zenon
  <2>2. PICK d \in D : \A e \in D : d <= e
    <3>1. n - 1 \in Nat
      OBVIOUS
    <3> HIDE DEF D
    <3> QED
      BY <2>1, <3>1, Least
  <2>3. PICK x \in stops : d = Dist(n, p, x)
    BY <2>2
  <2>4. d \in 0 .. n - 1 /\ (p + d) % n = x
    BY <1>0, <2>3
  <2>5. ASSUME NEW e \in 0 .. d - 1, (p + e) % n \in stops PROVE FALSE
    <3>1. e \in 0 .. n - 1
      BY <2>4
    <3>2. Dist(n, p, (p + e) % n) = e
      BY <1>0, <3>1
    <3>3. e \in D
      BY <2>5, <3>2
    <3> QED
      BY <2>2, <2>4, <3>3
  <2>6. C(d)
    BY <2>3, <2>4, <2>5
  <2> HIDE DEF C
  <2> QED
    BY <2>4, <2>6
<1>4. d0 \in 0 .. n - 1 /\ C(d0)
  <2> HIDE DEF C
  <2> QED
    BY <1>3
<1> HIDE DEF d0
<1>5. q0 \in 0 .. n - 1 /\ Dist(n, p, q0) = d0 /\ q0 \in stops
  BY <1>0, <1>4
<1>6. ASSUME NEW x \in 0 .. n - 1, Dist(n, p, x) < Dist(n, p, q0) PROVE x \notin stops
  <2>1. Dist(n, p, x) \in 0 .. n - 1 /\ (p + Dist(n, p, x)) % n = x
    BY <1>0
  <2>2. Dist(n, p, x) \in 0 .. d0 - 1
    BY <1>4, <1>5, <1>6, <2>1
  <2> QED
    BY <1>4, <2>1, <2>2
<1>7. IsFirst(n, p, stops, q0)
  BY <1>5, <1>6 DEF IsFirst
<1>8. ASSUME NEW q, IsFirst(n, p, stops, q) PROVE q = q0
  <2>1. q \in 0 .. n - 1 /\ q \in stops /\ ~ Dist(n, p, q0) < Dist(n, p, q)
    BY <1>5, <1>8 DEF IsFirst
  <2>2. ~ Dist(n, p, q) < Dist(n, p, q0)
    BY <1>6, <2>1
  <2>3. Dist(n, p, q) \in Int /\ Dist(n, p, q0) \in Int
    BY <1>0, <1>5, <2>1
  <2>4. Dist(n, p, q) = Dist(n, p, q0)
    BY <2>1, <2>2, <2>3
  <2> QED
    BY <1>0, <1>5, <2>1, <2>4
<1> QED
  BY <1>2, <1>5, <1>7, <1>8

-----------------------------------------------------------------------------
(* Tables *)

\* Mappings, tables of n positions, and where the probe chain of k begins (HASH_POSITION).
Mapping == [key : Keys, value : Values]
Table(n) == [0 .. n - 1 -> Mapping \cup {Empty}]
Home(h, n, k) == h[k] % n

\* No two mappings have keys that test equal.
Unique(n, T) ==
    \A x, y \in 0 .. n - 1 :
        T[x] # Empty /\ T[y] # Empty /\ TestName[T[x].key] = TestName[T[y].key] => x = y

\* The probe chain of the key at q leads to q: there is no gap before it.
LinkedAt(h, n, T, q) ==
    \A x \in 0 .. n - 1 :
        Dist(n, Home(h, n, T[q].key), x) < Dist(n, Home(h, n, T[q].key), q) => T[x] # Empty

\* No mapping is left behind a gap.
Linked(h, n, T) == \A q \in 0 .. n - 1 : T[q] # Empty => LinkedAt(h, n, T, q)

\* A position is empty: searches end.
HasRoom(n, T) == \E g \in 0 .. n - 1 : T[g] = Empty

\* What every operation of hash.cpp relies on and leaves.
SoundTable(h, n, T) == T \in Table(n) /\ Unique(n, T) /\ Linked(h, n, T) /\ HasRoom(n, T)

\* find_mapping, for a hash function and a size.
Alike(n, T, k) == {x \in 0 .. n - 1 : T[x] = Empty \/ TestName[T[x].key] = TestName[k]}
Finds(h, n, T, k) == FirstFrom(T, Home(h, n, k), Alike(n, T, k))

\* INVALID_PTR is no mapping.
LEMMA Mappings == Empty \notin Mapping /\ \A mp \in Mapping : mp.key \in Keys
BY DEF Empty, Mapping

\* Keys that test equal have one home, as their hashes are equal.
LEMMA HomeIs ==
    ASSUME NEW h \in Hashes, NEW n \in Nat \ {0}, NEW k \in Keys
    PROVE  /\ Home(h, n, k) \in 0 .. n - 1
           /\ \A l \in Keys : TestName[k] = TestName[l] => Home(h, n, k) = Home(h, n, l)
<1>1. h[k] \in Nat
  BY HashesAssumption
<1>2. h[k] % n \in 0 .. n - 1
  BY <1>1
<1>3. ASSUME NEW l \in Keys, TestName[k] = TestName[l] PROVE h[k] = h[l]
  BY <1>3, TestAssumption
<1> QED
  BY <1>2, <1>3 DEF Home

\* What a table has at a position.
LEMMA CellIs ==
    ASSUME NEW n, NEW T \in Table(n), NEW x \in 0 .. n - 1
    PROVE  /\ T[x] \in Mapping \cup {Empty} /\ DOMAIN T = 0 .. n - 1
           /\ T[x] # Empty => T[x] \in Mapping /\ T[x].key \in Keys
BY Mappings DEF Table

\* find_mapping is Finds.
LEMMA FindingIs ==
    ASSUME NEW h, NEW n \in Nat \ {0}, NEW T \in Table(n), NEW k, hash = h
    PROVE  find_mapping(T, k) = Finds(h, n, T, k) /\ Size(T) = n
<1>1. DOMAIN T = 0 .. n - 1 /\ Size(T) = n
  BY FS_Interval DEF Table, Size
<1> QED
  BY <1>1 DEF find_mapping, Finds, Position, Home, Alike

\* A search ends at the first position that is empty or has the key.
LEMMA FindIs ==
    ASSUME NEW h \in Hashes, NEW n \in Nat \ {0}, NEW T \in Table(n), HasRoom(n, T), NEW k \in Keys
    PROVE  /\ Finds(h, n, T, k) \in 0 .. n - 1
           /\ T[Finds(h, n, T, k)] # Empty => TestName[T[Finds(h, n, T, k)].key] = TestName[k]
           /\ \A x \in 0 .. n - 1 :
                  Dist(n, Home(h, n, k), x) < Dist(n, Home(h, n, k), Finds(h, n, T, k)) =>
                      T[x] # Empty /\ TestName[T[x].key] # TestName[k]
<1>1. Home(h, n, k) \in 0 .. n - 1
  BY HomeIs
<1>2. Alike(n, T, k) \subseteq 0 .. n - 1 /\ Alike(n, T, k) # {} /\ DOMAIN T = 0 .. n - 1
  BY DEF Alike, HasRoom, Table
<1>3. IsFirst(n, Home(h, n, k), Alike(n, T, k), Finds(h, n, T, k)) /\ Finds(h, n, T, k) \in 0 .. n - 1
  BY <1>1, <1>2, FirstIs DEF Finds
<1> QED
  BY <1>3 DEF IsFirst, Alike

\* A key that is there is found where it is.
LEMMA FindThat ==
    ASSUME NEW h \in Hashes, NEW n \in Nat \ {0}, NEW T, SoundTable(h, n, T), NEW k \in Keys,
           NEW q \in 0 .. n - 1, T[q] # Empty, TestName[T[q].key] = TestName[k]
    PROVE  Finds(h, n, T, k) = q
<1>1. T \in Table(n) /\ Unique(n, T) /\ LinkedAt(h, n, T, q) /\ DOMAIN T = 0 .. n - 1
  BY DEF SoundTable, Linked, Table
<1>2. Home(h, n, k) \in 0 .. n - 1 /\ Home(h, n, T[q].key) = Home(h, n, k)
  BY <1>1, CellIs, HomeIs
<1>3. Alike(n, T, k) \subseteq 0 .. n - 1 /\ q \in Alike(n, T, k)
  BY DEF Alike
<1>4. ASSUME NEW x \in 0 .. n - 1, Dist(n, Home(h, n, k), x) < Dist(n, Home(h, n, k), q)
      PROVE  x \notin Alike(n, T, k)
  <2>1. T[x] # Empty
    BY <1>1, <1>2, <1>4 DEF LinkedAt
  <2>2. x # q
    BY <1>2, <1>4, Round
  <2> QED
    BY <1>1, <2>1, <2>2 DEF Unique, Alike
<1>5. IsFirst(n, Home(h, n, k), Alike(n, T, k), q)
  BY <1>3, <1>4 DEF IsFirst
<1> QED
  BY <1>1, <1>2, <1>3, <1>5, FirstIs DEF Finds

\* A mapping put where the search for its key ended.
LEMMA PutIs ==
    ASSUME NEW h \in Hashes, NEW n \in Nat \ {0}, NEW T, SoundTable(h, n, T), NEW mp \in Mapping,
           NEW U, U = [T EXCEPT ![Finds(h, n, T, mp.key)] = mp], HasRoom(n, U)
    PROVE  SoundTable(h, n, U)
<1> DEFINE k == mp.key
           q == Finds(h, n, T, k)
<1>1. k \in Keys /\ mp # Empty
  BY Mappings
<1>2. T \in Table(n) /\ Unique(n, T) /\ HasRoom(n, T)
  BY DEF SoundTable
<1>3. /\ q \in 0 .. n - 1 /\ (T[q] # Empty => TestName[T[q].key] = TestName[k])
      /\ \A x \in 0 .. n - 1 : Dist(n, Home(h, n, k), x) < Dist(n, Home(h, n, k), q) =>
             T[x] # Empty /\ TestName[T[x].key] # TestName[k]
  BY <1>1, <1>2, FindIs
<1>4. ASSUME NEW y \in 0 .. n - 1, T[y] # Empty, TestName[T[y].key] = TestName[k] PROVE y = q
  BY <1>1, <1>4, FindThat
<1> HIDE DEF q
<1>5. U \in Table(n) /\ U[q] = mp /\ \A x \in 0 .. n - 1 : x # q => U[x] = T[x]
  BY <1>2, <1>3 DEF Table, q
<1>6. Unique(n, U)
  <2> SUFFICES ASSUME NEW x \in 0 .. n - 1, NEW y \in 0 .. n - 1, U[x] # Empty, U[y] # Empty,
                      TestName[U[x].key] = TestName[U[y].key]
               PROVE  x = y
    BY DEF Unique
  <2>1. CASE x = q
    BY <1>4, <1>5, <2>1
  <2>2. CASE y = q
    BY <1>4, <1>5, <2>2
  <2>3. CASE x # q /\ y # q
    BY <1>2, <1>5, <2>3 DEF Unique
  <2> QED
    BY <2>1, <2>2, <2>3
<1>7. Linked(h, n, U)
  <2> SUFFICES ASSUME NEW y \in 0 .. n - 1, U[y] # Empty, NEW x \in 0 .. n - 1,
                      Dist(n, Home(h, n, U[y].key), x) < Dist(n, Home(h, n, U[y].key), y)
               PROVE  U[x] # Empty
    BY DEF Linked, LinkedAt
  <2>1. CASE x = q
    BY <1>1, <1>5, <2>1
  <2>2. CASE x # q /\ y = q
    BY <1>3, <1>5, <2>2
  <2>3. CASE x # q /\ y # q
    BY <1>5, <2>3 DEF SoundTable, Linked, LinkedAt
  <2> QED
    BY <2>1, <2>2, <2>3
<1> QED
  BY <1>5, <1>6, <1>7 DEF SoundTable

-----------------------------------------------------------------------------
(* How many *)

\* The numbers from 0 to j.
LEMMA UpTo ==
    ASSUME NEW j \in Int, j >= -1
    PROVE  IsFiniteSet(0 .. j) /\ Cardinality(0 .. j) = j + 1
<1>1. IsFiniteSet(0 .. j) /\ Cardinality(0 .. j) = IF 0 > j THEN 0 ELSE j - 0 + 1
  BY FS_Interval
<1>2. CASE 0 > j
  BY <1>1, <1>2
<1>3. CASE ~ 0 > j
  BY <1>1, <1>3
<1> QED
  BY <1>2, <1>3

\* A table is full but for its gaps.
LEMMA RoomIs ==
    ASSUME NEW n \in Nat \ {0}, NEW T \in Table(n)
    PROVE  /\ IsFiniteSet(NonEmpty(T)) /\ Cardinality(NonEmpty(T)) \in Nat
           /\ HasRoom(n, T) <=> Cardinality(NonEmpty(T)) < n
<1>1. NonEmpty(T) \subseteq 0 .. n - 1
  BY DEF NonEmpty, Table
<1>2. IsFiniteSet(0 .. n - 1) /\ Cardinality(0 .. n - 1) = n
  BY FS_Interval
<1>3. /\ IsFiniteSet(NonEmpty(T)) /\ Cardinality(NonEmpty(T)) <= Cardinality(0 .. n - 1)
      /\ Cardinality(NonEmpty(T)) = Cardinality(0 .. n - 1) => NonEmpty(T) = 0 .. n - 1
  BY <1>1, <1>2, FS_Subset
<1>4. Cardinality(NonEmpty(T)) \in Nat
  BY <1>3, FS_CardinalityType
<1>5. HasRoom(n, T) <=> NonEmpty(T) # 0 .. n - 1
  BY <1>1 DEF HasRoom, NonEmpty, Table
<1> QED
  BY <1>2, <1>3, <1>4, <1>5

\* One more.
LEMMA OneMore ==
    ASSUME NEW n \in Nat \ {0}, NEW T \in Table(n), NEW q \in 0 .. n - 1, T[q] = Empty, NEW mp \in Mapping,
           NEW U, U = [T EXCEPT ![q] = mp]
    PROVE  Cardinality(NonEmpty(U)) = Cardinality(NonEmpty(T)) + 1
<1>1. DOMAIN T = 0 .. n - 1 /\ mp # Empty
  BY Mappings DEF Table
<1>2. NonEmpty(U) = NonEmpty(T) \cup {q} /\ q \notin NonEmpty(T)
  BY <1>1 DEF NonEmpty
<1> QED
  BY <1>2, RoomIs, FS_AddElement

\* One less.
LEMMA OneLess ==
    ASSUME NEW n \in Nat \ {0}, NEW T \in Table(n), NEW q \in 0 .. n - 1, T[q] # Empty,
           NEW U, U = [T EXCEPT ![q] = Empty]
    PROVE  Cardinality(NonEmpty(U)) = Cardinality(NonEmpty(T)) - 1
<1>1. DOMAIN T = 0 .. n - 1
  BY DEF Table
<1>2. NonEmpty(U) = NonEmpty(T) \ {q} /\ q \in NonEmpty(T)
  BY <1>1 DEF NonEmpty
<1> QED
  BY <1>2, RoomIs, FS_RemoveElement, ZenonT(40)

\* A new or cleared table.
LEMMA EmptyIs ==
    ASSUME NEW h, NEW n \in Nat \ {0}
    PROVE  /\ SoundTable(h, n, EmptyTable(n)) /\ NonEmpty(EmptyTable(n)) = {}
           /\ Cardinality(NonEmpty(EmptyTable(n))) = 0
<1> DEFINE T == EmptyTable(n)
<1>1. DOMAIN T = 0 .. n - 1 /\ \A x \in 0 .. n - 1 : T[x] = Empty
  BY DEF EmptyTable
<1>2. T \in Table(n) /\ 0 \in 0 .. n - 1
  BY DEF EmptyTable, Table
<1> HIDE DEF T
<1>3. SoundTable(h, n, T) /\ NonEmpty(T) = {}
  BY <1>1, <1>2 DEF SoundTable, Unique, Linked, HasRoom, NonEmpty
<1> QED
  BY <1>3, FS_EmptySet DEF T

-----------------------------------------------------------------------------
(* Growing *)

\* The mappings of a table, wherever they are.
TableEntries(T) == {T[x] : x \in NonEmpty(T)}

\* LOOP_NON_EMPTY from the home of k.
FirstEmpty(h, m, W, k) == FirstFrom(W, Home(h, m, k), {x \in 0 .. m - 1 : W[x] = Empty})

\* A turn of the loop of grow_hash_table.
Moved(h, m, W, mp) == IF mp = Empty THEN W ELSE [W EXCEPT ![FirstEmpty(h, m, W, mp.key)] = mp]

\* What grow_hash_table does, turn by turn.
LEMMA GrowTurns ==
    ASSUME NEW h, hash = h, NEW n \in Nat \ {0}, NEW T \in Table(n), NEW m \in Nat \ {0}
    PROVE  \E f \in [0 .. n -> Table(m)] :
               /\ f[0] = EmptyTable(m) /\ grow_hash_table(T, m) = f[n]
               /\ \A i \in 1 .. n : f[i] = Moved(h, m, f[i - 1], T[i - 1])
<1> DEFINE Turn(i, W) ==
               LET mp == T[i - 1]
                   to == FirstFrom(W, Position(W, mp.key), {p \in DOMAIN W : W[p] = Empty})
               IN  IF mp = Empty THEN W ELSE [W EXCEPT ![to] = mp]
           Body(f) == [i \in 0 .. Size(T) |-> IF i = 0 THEN EmptyTable(m) ELSE Turn(i, f[i - 1])]
           f0 == CHOOSE f : f = Body(f)
           step == [i \in 1 .. n |-> [W \in Table(m) |-> Turn(i, W)]]
<1>1. Size(T) = n
  BY FS_Interval DEF Table, Size
<1>2. grow_hash_table(T, m) = f0[n]
  BY <1>1 DEF grow_hash_table
<1>3. EmptyTable(m) \in Table(m)
  BY DEF EmptyTable, Table
<1>4. ASSUME NEW i \in 1 .. n, NEW W \in Table(m)
      PROVE  Turn(i, W) \in Table(m) /\ Turn(i, W) = Moved(h, m, W, T[i - 1])
  <2>1. DOMAIN W = 0 .. m - 1 /\ Size(W) = m
    BY FS_Interval DEF Table, Size
  <2>2. Turn(i, W) = Moved(h, m, W, T[i - 1])
    BY <2>1 DEF Moved, FirstEmpty, Position, Home
  <2>3. i - 1 \in 0 .. n - 1 /\ T[i - 1] \in Mapping \cup {Empty}
    BY CellIs
  <2>4. \A to : [W EXCEPT ![to] = T[i - 1]] \in Table(m)
    BY <2>1, <2>3 DEF Table
  <2> QED
    BY <2>2, <2>4 DEF Moved
<1> HIDE DEF Turn
<1>5. step \in [1 .. n -> [Table(m) -> Table(m)]]
  BY <1>4
<1>6. \E f : f = Body(f)
  <2>1. PICK f : Recurs(f, Table(m), EmptyTable(m), n, step)
    <3> HIDE DEF step
    <3> QED
      BY <1>3, <1>5, Recursion
  <2>2. /\ f \in [0 .. n -> Table(m)] /\ f[0] = EmptyTable(m)
        /\ \A i \in 0 .. n : i # 0 => i \in 1 .. n /\ f[i] = Turn(i, f[i - 1])
    <3>1. f \in [0 .. n -> Table(m)] /\ f[0] = EmptyTable(m) /\ \A i \in 1 .. n : f[i] = step[i][f[i - 1]]
      BY <2>1 DEF Recurs
    <3>2. ASSUME NEW i \in 0 .. n, i # 0 PROVE i \in 1 .. n /\ f[i] = Turn(i, f[i - 1])
      <4>1. i \in 1 .. n /\ i - 1 \in 0 .. n
        BY <3>2
      <4>2. f[i - 1] \in Table(m)
        BY <3>1, <4>1
      <4> QED
        BY <3>1, <4>1, <4>2
    <3> QED
      BY <3>1, <3>2
  <2>3. f = Body(f)
    BY <1>1, <2>2
  <2> QED
    BY <2>3
<1>7. f0 = Body(f0)
  <2> HIDE DEF Body
  <2> QED
    BY <1>6
<1> HIDE DEF f0
<1>8. /\ DOMAIN f0 = 0 .. n /\ f0[0] = EmptyTable(m)
      /\ \A i \in 1 .. n : f0[i] = Turn(i, f0[i - 1])
  <2>1. 0 \in 0 .. n /\ \A i \in 1 .. n : i \in 0 .. n /\ i # 0
    OBVIOUS
  <2> QED
    BY <1>1, <1>7, <2>1
<1> HIDE DEF Body, step
<1>9. f0 \in [0 .. n -> Table(m)]
  <2> DEFINE P == {i \in 0 .. n : f0[i] \in Table(m)}
  <2>1. 0 \in P
    BY <1>3, <1>8
  <2>2. \A i \in 1 .. n : i - 1 \in P => i \in P
    BY <1>4, <1>8
  <2>3. 0 .. n \subseteq P
    <3> HIDE DEF P
    <3> QED
      BY <2>1, <2>2, Inductive
  <2>4. f0 = [i \in 0 .. n |-> f0[i]]
    BY <1>7, <1>8, <1>1 DEF Body
  <2> QED
    BY <2>3, <2>4
<1>10. \A i \in 1 .. n : f0[i] = Moved(h, m, f0[i - 1], T[i - 1])
  BY <1>4, <1>8, <1>9
<1> QED
  BY <1>2, <1>8, <1>9, <1>10

\* The mappings of a table are put into a larger one: the chains lead to each of them there,
\* and none is lost, doubled or invented.
LEMMA GrownIs ==
    ASSUME NEW h \in Hashes, hash = h, NEW n \in Nat \ {0}, NEW T \in Table(n), Unique(n, T),
           NEW m \in Nat, n < m
    PROVE  /\ SoundTable(h, m, grow_hash_table(T, m))
           /\ TableEntries(grow_hash_table(T, m)) = TableEntries(T)
           /\ Cardinality(NonEmpty(grow_hash_table(T, m))) = Cardinality(NonEmpty(T))
<1> DEFINE Before(i) == {y \in NonEmpty(T) : y < i}
           Grown(i, W) == /\ SoundTable(h, m, W) /\ TableEntries(W) = {T[y] : y \in Before(i)}
                          /\ Cardinality(NonEmpty(W)) = Cardinality(Before(i))
<1>1. m \in Nat \ {0}
  OBVIOUS
<1>2. PICK f \in [0 .. n -> Table(m)] :
          /\ f[0] = EmptyTable(m) /\ grow_hash_table(T, m) = f[n]
          /\ \A i \in 1 .. n : f[i] = Moved(h, m, f[i - 1], T[i - 1])
  BY <1>1, GrowTurns, SMTT(30)
<1>3. /\ NonEmpty(T) \subseteq 0 .. n - 1 /\ DOMAIN T = 0 .. n - 1
      /\ \A y \in 0 .. n - 1 : y \in NonEmpty(T) <=> T[y] # Empty
  BY DEF NonEmpty, Table
<1>4. Before(0) = {} /\ Before(n) = NonEmpty(T)
  BY <1>3
<1>5. ASSUME NEW i \in 1 .. n
      PROVE  /\ i - 1 \in 0 .. n - 1
             /\ T[i - 1] = Empty => Before(i) = Before(i - 1)
             /\ T[i - 1] # Empty => Before(i) = Before(i - 1) \cup {i - 1}
             /\ i - 1 \notin Before(i - 1)
             /\ IsFiniteSet(Before(i - 1)) /\ Cardinality(Before(i - 1)) \in Nat
             /\ Cardinality(Before(i - 1)) <= i - 1
  <2>1. i - 1 \in 0 .. n - 1
    OBVIOUS
  <2>2. \A y \in NonEmpty(T) : y < i <=> y < i - 1 \/ y = i - 1
    BY <1>3
  <2>3. Before(i - 1) \subseteq 0 .. i - 2
    BY <1>3
  <2>4. IsFiniteSet(0 .. i - 2) /\ Cardinality(0 .. i - 2) = i - 1
    <3>1. i - 2 \in Int /\ i - 2 >= -1 /\ i - 2 + 1 = i - 1
      OBVIOUS
    <3> QED
      BY <3>1, UpTo
  <2>5. IsFiniteSet(Before(i - 1)) /\ Cardinality(Before(i - 1)) <= i - 1
    <3> HIDE DEF Before
    <3> QED
      BY <2>3, <2>4, FS_Subset
  <2>6. Cardinality(Before(i - 1)) \in Nat
    BY <2>5, FS_CardinalityType
  <2>7. T[i - 1] = Empty => Before(i) = Before(i - 1)
    BY <1>3, <2>1, <2>2
  <2>8. T[i - 1] # Empty => Before(i) = Before(i - 1) \cup {i - 1}
    BY <1>3, <2>1, <2>2
  <2>9. i - 1 \notin Before(i - 1)
    OBVIOUS
  <2> HIDE DEF Before
  <2> QED
    BY <2>1, <2>5, <2>6, <2>7, <2>8, <2>9
<1> HIDE DEF Before
<1>6. Grown(0, f[0])
  BY <1>1, <1>2, <1>4, EmptyIs, FS_EmptySet DEF TableEntries
<1>7. ASSUME NEW i \in 1 .. n, Grown(i - 1, f[i - 1]) PROVE Grown(i, f[i])
  <2> DEFINE W == f[i - 1]
             mp == T[i - 1]
             k == mp.key
             q == Finds(h, m, W, k)
  <2>1. CASE mp = Empty
    <3>1. f[i] = W /\ Before(i) = Before(i - 1)
      BY <1>2, <1>5, <2>1 DEF Moved
    <3> QED
      BY <1>7, <3>1
  <2>2. CASE mp # Empty
    <3>1. mp \in Mapping /\ k \in Keys /\ i - 1 \in 0 .. n - 1
      BY <1>5, <2>2, CellIs
    <3>2. SoundTable(h, m, W) /\ W \in Table(m) /\ HasRoom(m, W) /\ DOMAIN W = 0 .. m - 1
      BY <1>7 DEF SoundTable, Table
    <3>3. ASSUME NEW x \in 0 .. m - 1, W[x] # Empty PROVE TestName[W[x].key] # TestName[k]
      <4>1. W[x] \in TableEntries(W)
        BY <3>2, <3>3 DEF TableEntries, NonEmpty
      <4>2. PICK y \in Before(i - 1) : W[x] = T[y]
        BY <1>7, <4>1
      <4>3. y \in 0 .. n - 1 /\ T[y] # Empty /\ y # i - 1
        BY <1>3, <1>5, <4>2 DEF Before
      <4> QED
        BY <2>2, <3>1, <4>2, <4>3 DEF Unique
    <3>4. Alike(m, W, k) = {x \in 0 .. m - 1 : W[x] = Empty}
      BY <3>3 DEF Alike
    <3>5. f[i] = [W EXCEPT ![q] = mp]
      BY <1>2, <2>2, <3>4 DEF Moved, FirstEmpty, Finds
    <3>6. q \in 0 .. m - 1 /\ W[q] = Empty
      BY <1>1, <3>1, <3>2, <3>3, FindIs
    <3> DEFINE U == f[i]
    <3>7. Cardinality(NonEmpty(U)) = Cardinality(NonEmpty(W)) + 1
      <4> HIDE DEF W, q, U, mp
      <4> QED
        BY <1>1, <3>1, <3>2, <3>5, <3>6, OneMore, ZenonT(40) DEF U
    <3>8. Cardinality(NonEmpty(U)) = Cardinality(Before(i))
      <4>1. Cardinality(Before(i)) = Cardinality(Before(i - 1)) + 1
        BY <1>5, <2>2, FS_AddElement, ZenonT(40)
      <4> QED
        BY <1>7, <3>7, <4>1
    <3>9. U \in Table(m)
      <4>1. i \in 0 .. n
        OBVIOUS
      <4> QED
        BY <1>2, <4>1
    <3>10. HasRoom(m, U)
      <4>1. Cardinality(NonEmpty(U)) < m
        BY <1>5, <1>7, <3>7
      <4> QED
        BY <1>1, <3>9, <4>1, RoomIs
    <3>11. SoundTable(h, m, U)
      <4> HIDE DEF W, U, mp
      <4> QED
        BY <1>1, <3>1, <3>2, <3>5, <3>10, PutIs DEF U
    <3>12. TableEntries(U) = {T[y] : y \in Before(i)}
      <4>1. /\ DOMAIN U = 0 .. m - 1 /\ U[q] = mp /\ mp # Empty
            /\ \A x \in 0 .. m - 1 : x # q => U[x] = W[x]
        BY <2>2, <3>2, <3>5, <3>6
      <4>2. TableEntries(U) = TableEntries(W) \cup {mp}
        <5> HIDE DEF W, U, mp, q
        <5> QED
          BY <3>2, <3>6, <4>1 DEF TableEntries, NonEmpty
      <4>3. {T[y] : y \in Before(i)} = {T[y] : y \in Before(i - 1)} \cup {mp}
        BY <1>5, <2>2
      <4> QED
        BY <1>7, <4>2, <4>3
    <3> QED
      BY <3>8, <3>11, <3>12
  <2> QED
    BY <2>1, <2>2
<1>8. Grown(n, f[n])
  <2> DEFINE P == {i \in 0 .. n : Grown(i, f[i])}
  <2> HIDE DEF Grown
  <2>1. 0 \in P
    BY <1>6
  <2>2. \A i \in 1 .. n : i - 1 \in P => i \in P
    BY <1>7
  <2>3. 0 .. n \subseteq P
    <3> HIDE DEF P
    <3> QED
      BY <2>1, <2>2, Inductive
  <2>4. n \in 0 .. n
    OBVIOUS
  <2> QED
    BY <2>3, <2>4
<1> QED
  BY <1>2, <1>4, <1>8 DEF TableEntries

-----------------------------------------------------------------------------
(* Removing *)

\* A turn of the rehashing loop, for a hash function and a size.
HasKey(n, W, k) == {x \in 0 .. n - 1 : W[x] = Empty \/ W[x].key = k}
ChainEnd(h, n, W, q) == FirstFrom(W, Home(h, n, W[q].key), HasKey(n, W, W[q].key))
Rehashed(h, n, W, q) ==
    IF W[ChainEnd(h, n, W, q)] = Empty THEN [W EXCEPT ![ChainEnd(h, n, W, q)] = W[q], ![q] = Empty] ELSE W

\* States of the loop: the table, and whether the next gap was reached.
States(n) == {[tab |-> W, over |-> b] : W \in Table(n), b \in BOOLEAN}

\* A turn d positions on from the one emptied.
Turned(h, n, p, d, s) ==
    IF s.over \/ s.tab[(p + d) % n] = Empty THEN [tab |-> s.tab, over |-> TRUE]
    ELSE [tab |-> Rehashed(h, n, s.tab, (p + d) % n), over |-> FALSE]

\* Rehash is Rehashed.
LEMMA RehashedIs ==
    ASSUME NEW h, hash = h, NEW n \in Nat \ {0}, NEW W \in Table(n), NEW q \in 0 .. n - 1
    PROVE  Rehash(W, q) = Rehashed(h, n, W, q) /\ Rehashed(h, n, W, q) \in Table(n)
<1>1. DOMAIN W = 0 .. n - 1 /\ Size(W) = n
  BY FS_Interval DEF Table, Size
<1>2. Rehash(W, q) = Rehashed(h, n, W, q)
  BY <1>1 DEF Rehash, Rehashed, ChainEnd, HasKey, Position, Home
<1>3. W[q] \in Mapping \cup {Empty}
  BY CellIs
<1>4. \A to : [W EXCEPT ![to] = W[q], ![q] = Empty] \in Table(n)
  BY <1>1, <1>3 DEF Table
<1> QED
  BY <1>2, <1>4 DEF Rehashed

\* What Deleted does, turn by turn.
LEMMA DeleteTurns ==
    ASSUME NEW h, hash = h, NEW n \in Nat \ {0}, NEW T \in Table(n), NEW p \in 0 .. n - 1
    PROVE  \E f \in [0 .. n - 1 -> States(n)] :
               /\ f[0] = [tab |-> [T EXCEPT ![p] = Empty], over |-> FALSE]
               /\ Deleted(T, p) = f[n - 1].tab
               /\ \A d \in 1 .. n - 1 : f[d] = Turned(h, n, p, d, f[d - 1])
<1> DEFINE s0 == [tab |-> [T EXCEPT ![p] = Empty], over |-> FALSE]
           Turn(d, s) ==
               IF s.over \/ s.tab[(p + d) % Size(T)] = Empty THEN [s EXCEPT !.over = TRUE]
               ELSE [s EXCEPT !.tab = Rehash(@, (p + d) % Size(T))]
           Body(f) == [d \in 0 .. Size(T) - 1 |-> IF d = 0 THEN s0 ELSE Turn(d, f[d - 1])]
           f0 == CHOOSE f : f = Body(f)
           step == [d \in 1 .. n - 1 |-> [s \in States(n) |-> Turn(d, s)]]
<1>1. Size(T) = n /\ n - 1 \in Nat
  BY FS_Interval DEF Table, Size
<1>2. Deleted(T, p) = f0[n - 1].tab
  BY <1>1 DEF Deleted
<1>0. \A W \in Table(n), b \in BOOLEAN : [tab |-> W, over |-> b] \in States(n)
  BY DEF States
<1>3. s0 \in States(n)
  <2>1. [T EXCEPT ![p] = Empty] \in Table(n)
    BY DEF Table
  <2> QED
    BY <1>0, <2>1
<1>4. ASSUME NEW d \in 1 .. n - 1, NEW s \in States(n)
      PROVE  Turn(d, s) \in States(n) /\ Turn(d, s) = Turned(h, n, p, d, s)
  <2> DEFINE q == (p + d) % n
  <2>1. PICK W \in Table(n), b \in BOOLEAN : s = [tab |-> W, over |-> b]
    BY DEF States
  <2>2. q \in 0 .. n - 1
    BY Round
  <2>3. Rehash(W, q) = Rehashed(h, n, W, q) /\ Rehashed(h, n, W, q) \in Table(n)
    BY <2>2, RehashedIs
  <2> HIDE DEF q
  <2>4. CASE s.over \/ s.tab[q] = Empty
    <3>1. Turn(d, s) = [tab |-> W, over |-> TRUE]
      BY <1>1, <2>1, <2>4 DEF q
    <3>2. Turned(h, n, p, d, s) = [tab |-> W, over |-> TRUE]
      BY <2>1, <2>4 DEF q, Turned
    <3> QED
      BY <1>0, <3>1, <3>2
  <2>5. CASE ~ (s.over \/ s.tab[q] = Empty)
    <3>1. Turn(d, s) = [tab |-> Rehash(W, q), over |-> FALSE]
      BY <1>1, <2>1, <2>5 DEF q
    <3>2. Turned(h, n, p, d, s) = [tab |-> Rehashed(h, n, W, q), over |-> FALSE]
      BY <2>1, <2>5 DEF q, Turned
    <3> QED
      BY <1>0, <2>3, <3>1, <3>2
  <2> QED
    BY <2>4, <2>5
<1> HIDE DEF Turn, s0
<1>5. step \in [1 .. n - 1 -> [States(n) -> States(n)]]
  BY <1>4
<1>6. \E f : f = Body(f)
  <2>1. PICK f : Recurs(f, States(n), s0, n - 1, step)
    <3> HIDE DEF step
    <3> QED
      BY <1>1, <1>3, <1>5, Recursion
  <2>2. /\ f \in [0 .. n - 1 -> States(n)] /\ f[0] = s0
        /\ \A d \in 0 .. n - 1 : d # 0 => d \in 1 .. n - 1 /\ f[d] = Turn(d, f[d - 1])
    <3>1. f \in [0 .. n - 1 -> States(n)] /\ f[0] = s0 /\ \A d \in 1 .. n - 1 : f[d] = step[d][f[d - 1]]
      BY <2>1 DEF Recurs
    <3>2. ASSUME NEW d \in 0 .. n - 1, d # 0 PROVE d \in 1 .. n - 1 /\ f[d] = Turn(d, f[d - 1])
      <4>1. d \in 1 .. n - 1 /\ d - 1 \in 0 .. n - 1
        BY <3>2
      <4>2. f[d - 1] \in States(n)
        BY <3>1, <4>1
      <4> QED
        BY <3>1, <4>1, <4>2
    <3> QED
      BY <3>1, <3>2
  <2>3. f = Body(f)
    BY <1>1, <2>2
  <2> QED
    BY <2>3
<1>7. f0 = Body(f0)
  <2> HIDE DEF Body
  <2> QED
    BY <1>6
<1> HIDE DEF f0
<1>8. /\ DOMAIN f0 = 0 .. n - 1 /\ f0[0] = s0
      /\ \A d \in 1 .. n - 1 : f0[d] = Turn(d, f0[d - 1])
  <2>1. 0 \in 0 .. n - 1 /\ \A d \in 1 .. n - 1 : d \in 0 .. n - 1 /\ d # 0
    OBVIOUS
  <2> QED
    BY <1>1, <1>7, <2>1
<1>9. f0 = [d \in 0 .. n - 1 |-> f0[d]]
  BY <1>1, <1>7, <1>8
<1> HIDE DEF Body, step
<1>10. f0 \in [0 .. n - 1 -> States(n)]
  <2> DEFINE P == {d \in 0 .. n - 1 : f0[d] \in States(n)}
  <2>1. 0 \in P
    BY <1>3, <1>8
  <2>2. \A d \in 1 .. n - 1 : d - 1 \in P => d \in P
    BY <1>4, <1>8
  <2>3. 0 .. n - 1 \subseteq P
    <3> HIDE DEF P
    <3> QED
      BY <1>1, <2>1, <2>2, Inductive
  <2> QED
    BY <1>9, <2>3
<1>11. \A d \in 1 .. n - 1 : f0[d] = Turned(h, n, p, d, f0[d - 1])
  BY <1>4, <1>8, <1>10
<1> QED
  BY <1>2, <1>8, <1>10, <1>11 DEF s0

\* Going from p round: a way that reaches q beyond e without passing e starts beyond e.
LEMMA FartherOn ==
    ASSUME NEW n \in Nat \ {0}, NEW p \in 0 .. n - 1, NEW e \in 0 .. n - 1, NEW q \in 0 .. n - 1,
           NEW a \in 0 .. n - 1, NEW x \in 0 .. n - 1,
           Dist(n, p, e) < Dist(n, p, q), ~ Dist(n, a, e) < Dist(n, a, q), Dist(n, a, x) < Dist(n, a, q)
    PROVE  Dist(n, p, e) < Dist(n, p, x)
BY DEF Dist

\* Going from p round: a way that reaches q before c without passing e beyond c does not
\* pass c either.
LEMMA Around ==
    ASSUME NEW n \in Nat \ {0}, NEW p \in 0 .. n - 1, NEW e \in 0 .. n - 1, NEW q \in 0 .. n - 1,
           NEW a \in 0 .. n - 1, NEW c \in 0 .. n - 1,
           Dist(n, p, q) < Dist(n, p, c), Dist(n, p, c) < Dist(n, p, e), ~ Dist(n, a, e) < Dist(n, a, q)
    PROVE  ~ Dist(n, a, c) < Dist(n, a, q)
BY DEF Dist

\* The table W after d turns of the loop, when T[p] was removed and m is the distance to the
\* next gap of T: what is further than d is as it was,
Kept(n, T, p, d, W) == \A x \in 0 .. n - 1 : d < Dist(n, p, x) => W[x] = T[x]

\* the chains lead to what is not further, and to what is beyond the gap,
Chained(h, n, p, m, d, W) ==
    \A q \in 0 .. n - 1 :
        W[q] # Empty /\ (Dist(n, p, q) <= d \/ m < Dist(n, p, q)) => LinkedAt(h, n, W, q)

\* and what was there is there, but for T[p], and has moved towards p or not at all.
Back(n, T, p, W) ==
    /\ \A x \in 0 .. n - 1 : W[x] # Empty =>
           \E y \in 0 .. n - 1 : y # p /\ T[y] = W[x] /\ Dist(n, p, x) <= Dist(n, p, y)
    /\ \A y \in 0 .. n - 1 : y # p /\ T[y] # Empty =>
           \E x \in 0 .. n - 1 : W[x] = T[y] /\ Dist(n, p, x) <= Dist(n, p, y)

\* All of it, with the number of mappings: the loop invariant.
Loop(h, n, T, p, m, d, W) ==
    /\ W \in Table(n) /\ Unique(n, W)
    /\ Cardinality(NonEmpty(W)) = Cardinality(NonEmpty(T)) - 1
    /\ Kept(n, T, p, d, W) /\ Chained(h, n, p, m, d, W) /\ Back(n, T, p, W)

\* It holds when the mapping at p is taken out.
LEMMA LoopBegins ==
    ASSUME NEW h \in Hashes, NEW n \in Nat \ {0}, NEW T, SoundTable(h, n, T),
           NEW p \in 0 .. n - 1, T[p] # Empty, NEW e \in 0 .. n - 1, T[e] = Empty,
           NEW W, W = [T EXCEPT ![p] = Empty]
    PROVE  Loop(h, n, T, p, Dist(n, p, e), 0, W)
<1>1. T \in Table(n) /\ Unique(n, T) /\ Linked(h, n, T) /\ DOMAIN T = 0 .. n - 1
  BY DEF SoundTable, Table
<1>2. W \in Table(n) /\ W[p] = Empty /\ \A x \in 0 .. n - 1 : x # p => W[x] = T[x]
  BY <1>1 DEF Table
<1>3. \A x \in 0 .. n - 1 : Dist(n, p, x) \in 0 .. n - 1
  BY Round, Zenon
<1>4. Dist(n, p, p) = 0
  BY DEF Dist
<1>5. \A x \in 0 .. n - 1 : Dist(n, p, x) <= 0 => x = p
  BY DEF Dist
<1>6. Unique(n, W)
  BY <1>1, <1>2 DEF Unique
<1>7. Kept(n, T, p, 0, W)
  BY <1>2, <1>4 DEF Kept
<1>8. Chained(h, n, p, Dist(n, p, e), 0, W)
  <2> SUFFICES ASSUME NEW q \in 0 .. n - 1, W[q] # Empty,
                      Dist(n, p, q) <= 0 \/ Dist(n, p, e) < Dist(n, p, q),
                      NEW x \in 0 .. n - 1,
                      Dist(n, Home(h, n, W[q].key), x) < Dist(n, Home(h, n, W[q].key), q)
               PROVE  W[x] # Empty
    BY DEF Chained, LinkedAt
  <2> DEFINE a == Home(h, n, W[q].key)
  <2>1. q # p /\ W[q] = T[q] /\ Dist(n, p, e) < Dist(n, p, q)
    BY <1>2, <1>5
  <2>2. a \in 0 .. n - 1
    BY <1>2, CellIs, HomeIs
  <2>3. T[x] # Empty /\ ~ Dist(n, a, e) < Dist(n, a, q)
    BY <1>1, <2>1 DEF Linked, LinkedAt
  <2>4. Dist(n, p, e) < Dist(n, p, x)
    <3> HIDE DEF a
    <3> QED
      BY <2>1, <2>2, <2>3, FartherOn DEF a
  <2>5. x # p
    BY <1>3, <1>4, <2>4
  <2> QED
    BY <1>2, <2>3, <2>5
<1>9. Back(n, T, p, W)
  BY <1>2, <1>3 DEF Back
<1>10. Cardinality(NonEmpty(W)) = Cardinality(NonEmpty(T)) - 1
  BY <1>1, OneLess
<1> QED
  BY <1>2, <1>6, <1>7, <1>8, <1>9, <1>10 DEF Loop

\* A turn before the gap is reached.
LEMMA LoopGoesOn ==
    ASSUME NEW h \in Hashes, NEW n \in Nat \ {0}, NEW T, SoundTable(h, n, T),
           NEW p \in 0 .. n - 1, T[p] # Empty, NEW e \in 0 .. n - 1, T[e] = Empty,
           NEW c \in 0 .. n - 1, T[c] # Empty, 0 < Dist(n, p, c), Dist(n, p, c) < Dist(n, p, e),
           NEW W, Loop(h, n, T, p, Dist(n, p, e), Dist(n, p, c) - 1, W)
    PROVE  Loop(h, n, T, p, Dist(n, p, e), Dist(n, p, c), Rehashed(h, n, W, c)) /\ W[c] # Empty
<1> DEFINE m == Dist(n, p, e)
           d == Dist(n, p, c)
           mp == W[c]
           a == Home(h, n, mp.key)
           to == ChainEnd(h, n, W, c)
           V == Rehashed(h, n, W, c)
<1>1. T \in Table(n) /\ Unique(n, T) /\ Linked(h, n, T) /\ DOMAIN T = 0 .. n - 1
  BY DEF SoundTable, Table
<1>2. /\ W \in Table(n) /\ Unique(n, W) /\ Cardinality(NonEmpty(W)) = Cardinality(NonEmpty(T)) - 1
      /\ Kept(n, T, p, d - 1, W) /\ Chained(h, n, p, m, d - 1, W) /\ Back(n, T, p, W)
  BY DEF Loop
<1>3. \A x \in 0 .. n - 1 : Dist(n, p, x) \in 0 .. n - 1 /\ Dist(n, p, x) \in Int
  <2>1. \A x \in 0 .. n - 1 : Dist(n, p, x) \in 0 .. n - 1
    BY Round, Zenon
  <2> QED
    BY <2>1
<1>4. \A x, y \in 0 .. n - 1 : Dist(n, p, x) = Dist(n, p, y) => x = y
  BY Round, Zenon
<1>5. mp = T[c] /\ W[e] = Empty /\ DOMAIN W = 0 .. n - 1 /\ c # p
  <2>1. d - 1 < d /\ d - 1 < m
    BY <1>3
  <2>2. Dist(n, p, p) = 0
    BY DEF Dist
  <2> QED
    BY <1>2, <2>1, <2>2 DEF Kept, Table
<1>6. mp \in Mapping /\ mp.key \in Keys /\ mp # Empty /\ a \in 0 .. n - 1
  BY <1>1, <1>5, CellIs, HomeIs
<1>7. /\ \A x \in 0 .. n - 1 : Dist(n, a, x) \in 0 .. n - 1 /\ Dist(n, a, x) \in Int
      /\ \A x, y \in 0 .. n - 1 : Dist(n, a, x) = Dist(n, a, y) => x = y
  <2> HIDE DEF a
  <2>1. \A x \in 0 .. n - 1 : Dist(n, a, x) \in 0 .. n - 1
    BY <1>6, Round, Zenon
  <2>2. \A x, y \in 0 .. n - 1 : Dist(n, a, x) = Dist(n, a, y) => x = y
    BY <1>6, Round, Zenon
  <2> QED
    BY <2>1, <2>2
<1>8. /\ to \in 0 .. n - 1 /\ (W[to] = Empty \/ W[to].key = mp.key)
      /\ \A x \in 0 .. n - 1 : Dist(n, a, x) < Dist(n, a, to) => W[x] # Empty /\ W[x].key # mp.key
  <2> DEFINE stops == HasKey(n, W, mp.key)
  <2>1. stops \subseteq 0 .. n - 1 /\ c \in stops
    BY DEF HasKey
  <2>2. to \in 0 .. n - 1 /\ IsFirst(n, a, stops, to)
    <3>1. to = FirstFrom(W, a, stops)
      BY DEF ChainEnd
    <3> HIDE DEF stops, a, to
    <3> QED
      BY <1>5, <1>6, <2>1, <3>1, FirstIs
  <2> HIDE DEF a, to
  <2> QED
    BY <2>2 DEF IsFirst, HasKey
<1> HIDE DEF to
<1>9. ~ Dist(n, a, c) < Dist(n, a, to)
  BY <1>8
<1>10. CASE W[to] # Empty
  <2>1. to = c
    BY <1>2, <1>6, <1>8, <1>10 DEF Unique
  <2>2. V = W
    BY <1>10 DEF Rehashed, to
  <2>3. Kept(n, T, p, d, W)
    BY <1>2, <1>3 DEF Kept
  <2>4. Chained(h, n, p, m, d, W)
    <3> SUFFICES ASSUME NEW q \in 0 .. n - 1, W[q] # Empty, Dist(n, p, q) <= d \/ m < Dist(n, p, q)
                 PROVE  LinkedAt(h, n, W, q)
      BY DEF Chained
    <3>1. CASE q = c
      BY <1>8, <2>1, <3>1 DEF LinkedAt
    <3>2. CASE q # c
      <4>1. Dist(n, p, q) <= d - 1 \/ m < Dist(n, p, q)
        BY <1>3, <1>4, <3>2
      <4> QED
        BY <1>2, <4>1 DEF Chained
    <3> QED
      BY <3>1, <3>2
  <2> QED
    BY <1>2, <1>6, <2>2, <2>3, <2>4 DEF Loop
<1>11. CASE W[to] = Empty
  <2>1. to # c /\ Dist(n, a, to) < Dist(n, a, c)
    BY <1>6, <1>7, <1>8, <1>9, <1>11
  <2>2. T[to] # Empty
    BY <1>1, <1>5, <1>8, <2>1 DEF Linked, LinkedAt
  <2>3. Dist(n, p, to) <= d - 1
    BY <1>2, <1>3, <1>8, <1>11, <2>2 DEF Kept
  <2> DEFINE U == [W EXCEPT ![to] = mp]
  <2>4. V = [U EXCEPT ![c] = Empty]
    BY <1>5, <1>8, <1>11 DEF Rehashed, to
  <2>5. /\ V \in Table(n) /\ V[to] = mp /\ V[c] = Empty
        /\ \A x \in 0 .. n - 1 : x # to /\ x # c => V[x] = W[x]
    <3> HIDE DEF V, mp
    <3> QED
      BY <1>2, <1>5, <1>6, <1>8, <2>1, <2>4 DEF Table
  <2>6. Cardinality(NonEmpty(V)) = Cardinality(NonEmpty(T)) - 1
    <3>1. U \in Table(n) /\ U[c] = mp
      <4> HIDE DEF mp
      <4> QED
        BY <1>2, <1>5, <1>6, <1>8, <2>1 DEF Table, mp
    <3>2. Cardinality(NonEmpty(U)) = Cardinality(NonEmpty(W)) + 1
      <4> HIDE DEF mp
      <4> QED
        BY <1>2, <1>6, <1>8, <1>11, OneMore
    <3>3. Cardinality(NonEmpty(V)) = Cardinality(NonEmpty(U)) - 1
      <4> HIDE DEF mp, U, V
      <4> QED
        BY <1>6, <2>4, <3>1, OneLess
    <3>4. Cardinality(NonEmpty(T)) \in Nat
      BY <1>1, RoomIs
    <3> QED
      BY <1>2, <3>2, <3>3, <3>4
  <2> HIDE DEF V, U
  <2>7. Unique(n, V)
    <3> SUFFICES ASSUME NEW x \in 0 .. n - 1, NEW y \in 0 .. n - 1, V[x] # Empty, V[y] # Empty,
                        TestName[V[x].key] = TestName[V[y].key]
                 PROVE  x = y
      BY DEF Unique
    <3>1. x # c /\ y # c
      BY <2>5
    <3>2. CASE x = to
      BY <1>2, <1>6, <2>5, <3>1, <3>2 DEF Unique
    <3>3. CASE y = to
      BY <1>2, <1>6, <2>5, <3>1, <3>3 DEF Unique
    <3>4. CASE x # to /\ y # to
      BY <1>2, <2>5, <3>1, <3>4 DEF Unique
    <3> QED
      BY <3>2, <3>3, <3>4
  <2>8. Kept(n, T, p, d, V)
    <3> SUFFICES ASSUME NEW x \in 0 .. n - 1, d < Dist(n, p, x) PROVE V[x] = T[x]
      BY DEF Kept
    <3>1. x # to /\ x # c /\ d - 1 < Dist(n, p, x)
      BY <1>3, <1>8, <2>3
    <3> QED
      BY <1>2, <2>5, <3>1 DEF Kept
  <2>9. Chained(h, n, p, m, d, V)
    <3> SUFFICES ASSUME NEW q \in 0 .. n - 1, V[q] # Empty, Dist(n, p, q) <= d \/ m < Dist(n, p, q),
                        NEW x \in 0 .. n - 1,
                        Dist(n, Home(h, n, V[q].key), x) < Dist(n, Home(h, n, V[q].key), q)
                 PROVE  V[x] # Empty
      BY DEF Chained, LinkedAt
    <3>1. q # c
      BY <2>5
    <3>2. CASE q = to
      <4>1. Dist(n, a, x) < Dist(n, a, to)
        BY <2>5, <3>2
      <4>2. x # to /\ x # c
        BY <1>7, <1>8, <1>9, <4>1
      <4> QED
        BY <1>8, <2>5, <4>1, <4>2
    <3>3. CASE q # to
      <4> DEFINE b == Home(h, n, W[q].key)
      <4>1. V[q] = W[q] /\ W[q] # Empty
        BY <2>5, <3>1, <3>3
      <4>2. Dist(n, p, q) <= d - 1 \/ m < Dist(n, p, q)
        BY <1>3, <1>4, <3>1
      <4>3. \A y \in 0 .. n - 1 : Dist(n, b, y) < Dist(n, b, q) => W[y] # Empty
        BY <1>2, <4>1, <4>2 DEF Chained, LinkedAt
      <4>4. ~ Dist(n, b, e) < Dist(n, b, q)
        BY <1>5, <4>3
      <4>5. b \in 0 .. n - 1
        BY <1>2, <4>1, CellIs, HomeIs
      <4>6. Dist(n, b, x) < Dist(n, b, q) /\ W[x] # Empty
        BY <4>1, <4>3
      <4> HIDE DEF b
      <4>7. x # c
        <5>1. CASE Dist(n, p, q) <= d - 1
          <6>1. Dist(n, p, q) < Dist(n, p, c)
            BY <1>3, <5>1
          <6> QED
            BY <4>4, <4>5, <4>6, <6>1, Around
        <5>2. CASE m < Dist(n, p, q)
          <6>1. m < Dist(n, p, x)
            BY <4>4, <4>5, <4>6, <5>2, FartherOn
          <6> QED
            BY <1>3, <6>1
        <5> QED
          BY <4>2, <5>1, <5>2
      <4> QED
        BY <1>6, <2>5, <4>6, <4>7
    <3> QED
      BY <3>2, <3>3
  <2>10. Back(n, T, p, V)
    <3>1. ASSUME NEW x \in 0 .. n - 1, V[x] # Empty
          PROVE  \E y \in 0 .. n - 1 : y # p /\ T[y] = V[x] /\ Dist(n, p, x) <= Dist(n, p, y)
      <4>1. CASE x = to
        <5>1. V[x] = T[c] /\ Dist(n, p, x) <= d
          BY <1>3, <1>5, <1>8, <2>3, <2>5, <4>1
        <5> QED
          BY <1>5, <5>1
      <4>2. CASE x # to
        BY <1>2, <2>5, <3>1, <4>2 DEF Back
      <4> QED
        BY <4>1, <4>2
    <3>2. ASSUME NEW y \in 0 .. n - 1, y # p, T[y] # Empty
          PROVE  \E x \in 0 .. n - 1 : V[x] = T[y] /\ Dist(n, p, x) <= Dist(n, p, y)
      <4>1. PICK x \in 0 .. n - 1 : W[x] = T[y] /\ Dist(n, p, x) <= Dist(n, p, y)
        BY <1>2, <3>2 DEF Back
      <4>2. CASE x = c
        <5>1. Dist(n, p, to) <= Dist(n, p, y)
          BY <1>3, <1>8, <2>3, <4>1, <4>2
        <5> QED
          BY <1>8, <2>5, <4>1, <4>2, <5>1
      <4>3. CASE x # c
        BY <1>11, <2>5, <3>2, <4>1, <4>3
      <4> QED
        BY <4>2, <4>3
    <3> QED
      BY <3>1, <3>2 DEF Back
  <2> QED
    BY <1>6, <2>5, <2>6, <2>7, <2>8, <2>9, <2>10 DEF Loop, V
<1> QED
  BY <1>10, <1>11

\* Removing the mapping at p, with the rehashing, leaves a table whose chains lead to every
\* other mapping; those have moved towards p, if at all.
LEMMA DeletedIs ==
    ASSUME NEW h \in Hashes, hash = h, NEW n \in Nat \ {0}, NEW T, SoundTable(h, n, T),
           NEW p \in 0 .. n - 1, T[p] # Empty
    PROVE  /\ SoundTable(h, n, Deleted(T, p)) /\ Back(n, T, p, Deleted(T, p))
           /\ Cardinality(NonEmpty(Deleted(T, p))) = Cardinality(NonEmpty(T)) - 1
<1>1. T \in Table(n) /\ HasRoom(n, T) /\ DOMAIN T = 0 .. n - 1
  BY DEF SoundTable, Table
<1>2. PICK f \in [0 .. n - 1 -> States(n)] :
          /\ f[0] = [tab |-> [T EXCEPT ![p] = Empty], over |-> FALSE]
          /\ Deleted(T, p) = f[n - 1].tab
          /\ \A d \in 1 .. n - 1 : f[d] = Turned(h, n, p, d, f[d - 1])
  BY <1>1, DeleteTurns
<1>3. /\ \A x \in 0 .. n - 1 : Dist(n, p, x) \in 0 .. n - 1 /\ (p + Dist(n, p, x)) % n = x
      /\ \A d \in 0 .. n - 1 : (p + d) % n \in 0 .. n - 1 /\ Dist(n, p, (p + d) % n) = d
      /\ \A x, y \in 0 .. n - 1 : Dist(n, p, x) = Dist(n, p, y) => x = y
  BY Round, Zenon
<1>4. PICK e \in 0 .. n - 1 : T[e] = Empty /\ \A x \in 0 .. n - 1 : Dist(n, p, x) < Dist(n, p, e) => T[x] # Empty
  <2> DEFINE stops == {x \in 0 .. n - 1 : T[x] = Empty}
             q == FirstFrom(T, p, stops)
  <2>1. stops \subseteq 0 .. n - 1 /\ stops # {}
    BY <1>1 DEF HasRoom
  <2>2. q \in 0 .. n - 1 /\ IsFirst(n, p, stops, q)
    <3> HIDE DEF stops
    <3> QED
      BY <1>1, <2>1, FirstIs
  <2> HIDE DEF q
  <2> QED
    BY <2>2 DEF IsFirst
<1> DEFINE m == Dist(n, p, e)
<1>5. m \in 1 .. n - 1
  <2>1. Dist(n, p, p) = 0 /\ p # e
    BY <1>4 DEF Dist
  <2>2. m # 0 /\ m \in 0 .. n - 1
    BY <1>3, <2>1
  <2> HIDE DEF m
  <2> QED
    BY <2>2
<1> DEFINE Before(d) == ~ f[d].over /\ Loop(h, n, T, p, m, d, f[d].tab)
           After(d) == f[d].over /\ Loop(h, n, T, p, m, m - 1, f[d].tab)
           P == {d \in 0 .. n - 1 : IF d < m THEN Before(d) ELSE After(d)}
<1>6. 0 \in P
  <2>1. Before(0)
    <3>1. \A W : W = [T EXCEPT ![p] = Empty] => Loop(h, n, T, p, m, 0, W)
      BY <1>4, LoopBegins
    <3>2. f[0].tab = [T EXCEPT ![p] = Empty] /\ ~ f[0].over
      BY <1>2
    <3> QED
      BY <3>1, <3>2
  <2>2. 0 < m
    BY <1>5
  <2> QED
    BY <2>1, <2>2
<1>7. ASSUME NEW d \in 1 .. n - 1, d - 1 \in P PROVE d \in P
  <2> DEFINE c == (p + d) % n
             s == f[d - 1]
  <2>1. d \in 0 .. n - 1 /\ c \in 0 .. n - 1 /\ Dist(n, p, c) = d /\ m \in Int
    <3>1. d \in 0 .. n - 1
      OBVIOUS
    <3>2. m \in Int
      BY <1>5
    <3> QED
      BY <1>3, <3>1, <3>2, Zenon
  <2>2. f[d] = Turned(h, n, p, d, s)
    BY <1>2
  <2>3. CASE d < m
    <3>1. Before(d - 1)
      <4>1. d - 1 < m
        BY <2>1, <2>3
      <4> HIDE DEF Before, After
      <4> QED
        BY <1>7, <4>1
    <3>2. T[c] # Empty
      BY <1>4, <2>1, <2>3
    <3>3. Loop(h, n, T, p, Dist(n, p, e), Dist(n, p, c) - 1, s.tab)
      BY <2>1, <3>1
    <3>4. Loop(h, n, T, p, Dist(n, p, e), Dist(n, p, c), Rehashed(h, n, s.tab, c)) /\ s.tab[c] # Empty
      <4>1. 0 < Dist(n, p, c) /\ Dist(n, p, c) < Dist(n, p, e)
        BY <2>1, <2>3
      <4> HIDE DEF c, s, m
      <4> QED
        BY <1>4, <2>1, <3>2, <3>3, <4>1, LoopGoesOn
    <3>5. f[d] = [tab |-> Rehashed(h, n, s.tab, c), over |-> FALSE]
      BY <2>2, <3>1, <3>4 DEF Turned
    <3>6. Before(d)
      BY <2>1, <3>4, <3>5
    <3> HIDE DEF Before, After
    <3> QED
      BY <2>1, <2>3, <3>6
  <2>4. CASE ~ d < m
    <3>1. s.over \/ s.tab[c] = Empty
      <4>1. CASE d - 1 < m
        <5>1. d = m /\ c = e
          BY <1>3, <2>1, <2>4, <4>1, SMTT(30)
        <5>2. Before(d - 1)
          <6> HIDE DEF Before, After
          <6> QED
            BY <1>7, <4>1
        <5>3. Kept(n, T, p, d - 1, s.tab)
          BY <5>2 DEF Loop
        <5>4. d - 1 < Dist(n, p, e)
          BY <2>1, <5>1
        <5>5. s.tab[e] = T[e]
          BY <5>3, <5>4 DEF Kept
        <5> QED
          BY <1>4, <5>1, <5>5
      <4>2. CASE ~ d - 1 < m
        <5>1. After(d - 1)
          <6> HIDE DEF Before, After
          <6> QED
            BY <1>7, <4>2
        <5> QED
          BY <5>1
      <4> QED
        BY <4>1, <4>2
    <3>2. f[d] = [tab |-> s.tab, over |-> TRUE]
      BY <2>2, <3>1 DEF Turned
    <3>3. Loop(h, n, T, p, m, m - 1, s.tab)
      <4>1. CASE d - 1 < m
        <5>1. d - 1 = m - 1
          BY <2>1, <2>4, <4>1
        <5>2. Before(d - 1)
          <6> HIDE DEF Before, After
          <6> QED
            BY <1>7, <4>1
        <5> QED
          BY <5>1, <5>2
      <4>2. CASE ~ d - 1 < m
        <5>1. After(d - 1)
          <6> HIDE DEF Before, After
          <6> QED
            BY <1>7, <4>2
        <5> QED
          BY <5>1
      <4> QED
        BY <4>1, <4>2
    <3>4. After(d)
      BY <3>2, <3>3
    <3> HIDE DEF Before, After
    <3> QED
      BY <2>1, <2>4, <3>4
  <2> QED
    BY <2>3, <2>4
<1>8. After(n - 1)
  <2>1. 0 .. n - 1 \subseteq P
    <3>1. n - 1 \in Nat
      OBVIOUS
    <3> HIDE DEF P
    <3> QED
      BY <1>6, <1>7, <3>1, Inductive
  <2>2. n - 1 \in 0 .. n - 1 /\ ~ n - 1 < m
    BY <1>5
  <2> HIDE DEF Before, After
  <2> QED
    BY <2>1, <2>2
<1> DEFINE D == Deleted(T, p)
<1>9. Loop(h, n, T, p, m, m - 1, D)
  BY <1>2, <1>8
<1> HIDE DEF D
<1>10. /\ D \in Table(n) /\ Unique(n, D) /\ Kept(n, T, p, m - 1, D) /\ Chained(h, n, p, m, m - 1, D)
       /\ Back(n, T, p, D) /\ Cardinality(NonEmpty(D)) = Cardinality(NonEmpty(T)) - 1
  BY <1>9 DEF Loop
<1>11. D[e] = Empty
  BY <1>4, <1>5, <1>10 DEF Kept
<1>12. Linked(h, n, D)
  <2> SUFFICES ASSUME NEW q \in 0 .. n - 1, D[q] # Empty PROVE LinkedAt(h, n, D, q)
    BY DEF Linked
  <2>1. q # e /\ Dist(n, p, q) # m
    BY <1>3, <1>11
  <2>2. Dist(n, p, q) \in Int /\ m \in Int
    <3>1. Dist(n, p, q) \in 0 .. n - 1
      BY <1>3
    <3> QED
      BY <1>5, <3>1
  <2>3. Dist(n, p, q) <= m - 1 \/ m < Dist(n, p, q)
    BY <2>1, <2>2
  <2> QED
    BY <1>10, <2>3 DEF Chained
<1>13. SoundTable(h, n, D)
  BY <1>10, <1>11, <1>12 DEF SoundTable, HasRoom
<1> QED
  BY <1>10, <1>13 DEF D

-----------------------------------------------------------------------------
(* Contents *)

\* The mappings of C whose key is not k.
LessKey(C, k) == {c \in C : TestName[c.key] # TestName[k]}

\* D is C with the mapping mp instead of any whose key tests equal.
Replaced(C, D, mp) == D = LessKey(C, mp.key) \cup {mp}

\* What a put makes of the contents.
LEMMA PutContents ==
    ASSUME NEW h \in Hashes, NEW n \in Nat \ {0}, NEW T, SoundTable(h, n, T), NEW mp \in Mapping,
           NEW U, U = [T EXCEPT ![Finds(h, n, T, mp.key)] = mp]
    PROVE  Replaced(TableEntries(T), TableEntries(U), mp)
<1> DEFINE k == mp.key
           q == Finds(h, n, T, k)
<1>1. k \in Keys /\ mp # Empty
  BY Mappings
<1>2. T \in Table(n) /\ HasRoom(n, T) /\ DOMAIN T = 0 .. n - 1
  BY DEF SoundTable, Table
<1>3. q \in 0 .. n - 1 /\ (T[q] # Empty => TestName[T[q].key] = TestName[k])
  BY <1>1, <1>2, FindIs
<1>4. \A y \in 0 .. n - 1 : T[y] # Empty /\ TestName[T[y].key] = TestName[k] => y = q
  BY <1>1, FindThat
<1> HIDE DEF q
<1>5. DOMAIN U = 0 .. n - 1 /\ U[q] = mp /\ \A x \in 0 .. n - 1 : x # q => U[x] = T[x]
  BY <1>2, <1>3 DEF q
<1>6. ASSUME NEW c \in TableEntries(U) PROVE c \in LessKey(TableEntries(T), k) \cup {mp}
  <2>1. PICK x \in 0 .. n - 1 : U[x] # Empty /\ c = U[x]
    BY <1>5 DEF TableEntries, NonEmpty
  <2>2. CASE x = q
    BY <1>5, <2>1, <2>2
  <2>3. CASE x # q
    <3>1. c = T[x] /\ T[x] # Empty /\ TestName[c.key] # TestName[k]
      BY <1>4, <1>5, <2>1, <2>3
    <3> QED
      BY <1>2, <3>1 DEF TableEntries, NonEmpty, LessKey
  <2> QED
    BY <2>2, <2>3
<1>7. ASSUME NEW c \in LessKey(TableEntries(T), k) PROVE c \in TableEntries(U)
  <2>1. PICK x \in 0 .. n - 1 : T[x] # Empty /\ c = T[x] /\ TestName[T[x].key] # TestName[k]
    BY <1>2 DEF TableEntries, NonEmpty, LessKey
  <2>2. U[x] = c /\ c # Empty
    BY <1>3, <1>5, <2>1
  <2> QED
    BY <1>5, <2>2 DEF TableEntries, NonEmpty
<1>8. mp \in TableEntries(U)
  BY <1>1, <1>3, <1>5 DEF TableEntries, NonEmpty
<1> QED
  BY <1>6, <1>7, <1>8 DEF Replaced

\* What a removal makes of the contents.
LEMMA DeletedContents ==
    ASSUME NEW n \in Nat \ {0}, NEW T \in Table(n), Unique(n, T), NEW p \in 0 .. n - 1, T[p] # Empty,
           NEW D \in Table(n), Back(n, T, p, D), NEW k, TestName[T[p].key] = TestName[k]
    PROVE  TableEntries(D) = LessKey(TableEntries(T), k)
<1>1. DOMAIN T = 0 .. n - 1 /\ DOMAIN D = 0 .. n - 1
  BY DEF Table
<1>2. ASSUME NEW c \in TableEntries(D) PROVE c \in LessKey(TableEntries(T), k)
  <2>1. PICK x \in 0 .. n - 1 : D[x] # Empty /\ c = D[x]
    BY <1>1 DEF TableEntries, NonEmpty
  <2>2. PICK y \in 0 .. n - 1 : y # p /\ T[y] = c
    BY <2>1 DEF Back
  <2>3. TestName[T[y].key] # TestName[k]
    BY <2>1, <2>2 DEF Unique
  <2> QED
    BY <1>1, <2>1, <2>2, <2>3 DEF TableEntries, NonEmpty, LessKey
<1>3. ASSUME NEW c \in LessKey(TableEntries(T), k) PROVE c \in TableEntries(D)
  <2>1. PICK y \in 0 .. n - 1 : T[y] # Empty /\ c = T[y] /\ y # p
    BY <1>1 DEF TableEntries, NonEmpty, LessKey
  <2>2. PICK x \in 0 .. n - 1 : D[x] = c
    BY <2>1 DEF Back
  <2> QED
    BY <1>1, <2>1, <2>2 DEF TableEntries, NonEmpty
<1> QED
  BY <1>2, <1>3

\* The next mapping from position p on.
LEMMA NextIs ==
    ASSUME NEW n \in Nat \ {0}, NEW T \in Table(n), NEW p \in 0 .. n
    PROVE  /\ NextFrom(T, p) \in p .. n
           /\ NextFrom(T, p) # n => T[NextFrom(T, p)] # Empty
           /\ \A x \in NonEmpty(T) : p <= x => NextFrom(T, p) <= x
<1>1. DOMAIN T = 0 .. n - 1 /\ Size(T) = n
  BY FS_Interval DEF Table, Size
<1>2. CASE Following(T, p) = {}
  <2>1. NextFrom(T, p) = n /\ \A x \in NonEmpty(T) : ~ p <= x
    BY <1>1, <1>2 DEF NextFrom, Following
  <2> QED
    BY <2>1
<1>3. CASE Following(T, p) # {}
  <2>1. Following(T, p) \subseteq 0 .. n - 1 /\ n - 1 \in Nat
    BY <1>1 DEF Following, NonEmpty
  <2>2. \E q \in Following(T, p) : \A r \in Following(T, p) : q <= r
    BY <1>3, <2>1, Least
  <2>3. NextFrom(T, p) \in Following(T, p) /\ \A r \in Following(T, p) : NextFrom(T, p) <= r
    BY <1>3, <2>2 DEF NextFrom
  <2>4. /\ NextFrom(T, p) \in 0 .. n - 1 /\ p <= NextFrom(T, p) /\ T[NextFrom(T, p)] # Empty
        /\ \A x \in NonEmpty(T) : p <= x => NextFrom(T, p) <= x
    BY <1>1, <2>3 DEF Following, NonEmpty
  <2> QED
    BY <2>4
<1> QED
  BY <1>2, <1>3

\* prime_size.
LEMMA PrimeIs ==
    ASSUME NEW size, NEW from \in Nat, Sufficient(size, from) # {}
    PROVE  /\ prime_size(size, from) \in from + 1 .. Len(Primes)
           /\ Primes[prime_size(size, from)] \in Nat \ {0, 1}
           /\ Primes[prime_size(size, from)] >= size
<1>1. Len(Primes) \in Nat /\ \A i \in 1 .. Len(Primes) : Primes[i] \in Nat \ {0, 1}
  BY PrimesAssumption
<1>2. Sufficient(size, from) \subseteq 0 .. Len(Primes)
  BY <1>1 DEF Sufficient
<1>3. \E i \in Sufficient(size, from) : \A j \in Sufficient(size, from) : i <= j
  BY <1>1, <1>2, Least
<1>4. prime_size(size, from) \in Sufficient(size, from)
  BY <1>3 DEF prime_size
<1> QED
  BY <1>1, <1>4 DEF Sufficient

-----------------------------------------------------------------------------
(* The invariant *)

\* The chains of the table lead to every mapping, no key is there twice, and there is a gap.
TableInv ==
    /\ hash \in Hashes /\ offset \in 1 .. Len(Primes)
    /\ SoundTable(hash, Primes[offset], mappings)
    /\ count = Cardinality(NonEmpty(mappings))

\* What a running hash_table_map has not visited is where it is or further on.
VisitInv ==
    /\ iter \in -1 .. Primes[offset] /\ (iter = -1 => todo = {})
    /\ iter \in 0 .. Primes[offset] - 1 => mappings[iter] # Empty
    /\ \A k \in todo : k \in seen \/ \E x \in NonEmpty(mappings) : iter <= x /\ mappings[x].key = k

\* The inductive invariant.
HashInv == TableInv /\ VisitInv

\* What it says of the size, the count and find_mapping.
LEMMA SizeIs ==
    ASSUME TableInv
    PROVE  /\ Primes[offset] \in Nat \ {0, 1} /\ Len(Primes) \in Nat
           /\ mappings \in Table(Primes[offset]) /\ Size(mappings) = Primes[offset]
           /\ DOMAIN mappings = 0 .. Primes[offset] - 1
           /\ Unique(Primes[offset], mappings) /\ HasRoom(Primes[offset], mappings)
           /\ count \in Nat /\ count < Primes[offset]
           /\ \A k : find_mapping(mappings, k) = Finds(hash, Primes[offset], mappings, k)
<1>1. Primes[offset] \in Nat \ {0, 1} /\ Len(Primes) \in Nat
  BY PrimesAssumption DEF TableInv
<1>2. /\ mappings \in Table(Primes[offset])
      /\ Unique(Primes[offset], mappings) /\ HasRoom(Primes[offset], mappings)
  BY DEF TableInv, SoundTable
<1>3. DOMAIN mappings = 0 .. Primes[offset] - 1 /\ Size(mappings) = Primes[offset]
  <2>1. DOMAIN mappings = 0 .. Primes[offset] - 1
    BY <1>2 DEF Table
  <2>2. Size(mappings) = Primes[offset]
    BY <1>1, <1>2, FindingIs
  <2> QED
    BY <2>1, <2>2
<1>4. count \in Nat /\ count < Primes[offset]
  BY <1>1, <1>2, RoomIs DEF TableInv
<1>5. \A k : find_mapping(mappings, k) = Finds(hash, Primes[offset], mappings, k)
  BY <1>1, <1>2, FindingIs
<1> QED
  BY <1>1, <1>2, <1>3, <1>4, <1>5

\* It holds of a new table.
LEMMA InitInv == HashInit => HashInv
<1> SUFFICES ASSUME NEW h \in Hashes, NEW prealloc \in Prealloc, hash_table_new(h, prealloc)
             PROVE  HashInv
  BY DEF HashInit
<1> DEFINE size == (4 * prealloc) \div 3 + 1
           i == prime_size(size, 0)
<1>1. /\ Sufficient(size, 0) # {} /\ hash = h /\ offset = i /\ mappings = EmptyTable(Primes[i])
      /\ count = 0 /\ iter = -1 /\ todo = {}
  BY DEF hash_table_new
<1> HIDE DEF size
<1>2. i \in 1 .. Len(Primes) /\ Primes[i] \in Nat \ {0}
  BY <1>1, PrimeIs
<1> HIDE DEF i
<1>3. SoundTable(h, Primes[i], EmptyTable(Primes[i])) /\ Cardinality(NonEmpty(EmptyTable(Primes[i]))) = 0
  BY <1>2, EmptyIs
<1> QED
  BY <1>1, <1>2, <1>3 DEF HashInv, TableInv, VisitInv

\* Where no map runs there is nothing left to visit.
LEMMA IterIdle ==
    ASSUME VisitInv, TableInv', iter = -1, iter' = -1, todo' = todo
    PROVE  HashInv'
<1>1. Primes[offset'] \in Nat \ {0, 1}
  BY PrimesAssumption DEF TableInv
<1> QED
  BY <1>1 DEF HashInv, VisitInv

\* A put leaves a sound table with the new mapping and the others.
LEMMA PutStep ==
    ASSUME TableInv, NEW k \in Keys, NEW v \in Values, hash_table_put(k, v)
    PROVE  /\ TableInv'
           /\ Replaced(TableEntries(mappings), TableEntries(mappings'), [key |-> k, value |-> v])
<1> DEFINE n == Primes[offset]
           new == [key |-> k, value |-> v]
           p == Finds(hash, n, mappings, k)
           i == prime_size(2 * n, offset)
           G == grow_hash_table(mappings, Primes[i])
<1>1. /\ n \in Nat \ {0, 1} /\ mappings \in Table(n) /\ Size(mappings) = n /\ offset \in Nat
      /\ Unique(n, mappings) /\ HasRoom(n, mappings) /\ count \in Nat /\ count < n
      /\ find_mapping(mappings, k) = p /\ SoundTable(hash, n, mappings) /\ hash \in Hashes
      /\ count = Cardinality(NonEmpty(mappings)) /\ offset \in 1 .. Len(Primes)
  BY SizeIs DEF TableInv
<1>2. new \in Mapping /\ new.key = k
  BY DEF Mapping
<1>3. p \in 0 .. n - 1
  BY <1>1, FindIs
<1> HIDE DEF n, new, p
<1>0. n \in Nat \ {0} /\ p = Finds(hash, n, mappings, new.key)
  BY <1>1, <1>2 DEF p
<1>4. CASE /\ mappings[p] # Empty
           /\ mappings' = [mappings EXCEPT ![p] = new]
           /\ UNCHANGED <<count, offset, hash>>
  <2>1. NonEmpty(mappings') = NonEmpty(mappings)
    <3>1. DOMAIN mappings = 0 .. n - 1 /\ new # Empty
      BY <1>1, <1>2, Mappings DEF Table
    <3> QED
      BY <1>3, <1>4, <3>1 DEF NonEmpty
  <2>2. mappings' \in Table(n)
    BY <1>1, <1>2, <1>3, <1>4 DEF Table
  <2>3. HasRoom(n, mappings')
    BY <1>1, <2>1, <2>2, RoomIs
  <2>4. SoundTable(hash, n, mappings')
    BY <1>1, <1>2, <1>4, <2>3, PutIs DEF p
  <2>5. Replaced(TableEntries(mappings), TableEntries(mappings'), new)
    BY <1>0, <1>1, <1>2, <1>4, PutContents
  <2> QED
    BY <1>1, <1>4, <2>1, <2>4, <2>5 DEF TableInv, n, new
<1>5. CASE /\ mappings[p] = Empty /\ count < Threshold(n)
           /\ mappings' = [mappings EXCEPT ![p] = new]
           /\ count' = count + 1 /\ UNCHANGED <<offset, hash>>
  <2>1. Cardinality(NonEmpty(mappings')) = count + 1
    BY <1>1, <1>2, <1>3, <1>5, OneMore
  <2>2. mappings' \in Table(n)
    BY <1>1, <1>2, <1>3, <1>5 DEF Table
  <2>3. count + 1 < n
    BY <1>1, <1>5 DEF Threshold
  <2>4. HasRoom(n, mappings')
    BY <1>1, <2>1, <2>2, <2>3, RoomIs
  <2>5. SoundTable(hash, n, mappings')
    BY <1>1, <1>2, <1>5, <2>4, PutIs DEF p
  <2>6. Replaced(TableEntries(mappings), TableEntries(mappings'), new)
    BY <1>0, <1>1, <1>2, <1>5, PutContents
  <2> QED
    BY <1>1, <1>5, <2>1, <2>5, <2>6 DEF TableInv, n, new
<1>6. CASE /\ mappings[p] = Empty /\ Sufficient(2 * n, offset) # {}
           /\ mappings' = [G EXCEPT ![find_mapping(G, k)] = new]
           /\ count' = count + 1 /\ offset' = i /\ UNCHANGED hash
  <2> DEFINE m == Primes[i]
             q == Finds(hash, m, G, k)
  <2>1. i \in 1 .. Len(Primes) /\ m \in Nat \ {0, 1} /\ n < m
    <3>1. i \in offset + 1 .. Len(Primes) /\ m \in Nat \ {0, 1} /\ m >= 2 * n
      BY <1>1, <1>6, PrimeIs
    <3>2. Len(Primes) \in Nat
      BY PrimesAssumption
    <3> HIDE DEF i
    <3> QED
      BY <1>1, <3>1, <3>2
  <2> HIDE DEF m, i
  <2>2. SoundTable(hash, m, G) /\ TableEntries(G) = TableEntries(mappings) /\ Cardinality(NonEmpty(G)) = count
    BY <1>1, <2>1, GrownIs DEF m
  <2> HIDE DEF G
  <2>3. G \in Table(m) /\ HasRoom(m, G)
    BY <2>2 DEF SoundTable
  <2>4. find_mapping(G, k) = q
    BY <2>1, <2>3, FindingIs
  <2>5. q \in 0 .. m - 1 /\ (G[q] # Empty => TestName[G[q].key] = TestName[k])
    BY <1>1, <2>1, <2>3, FindIs
  <2> HIDE DEF q
  <2>6. G[q] = Empty
    <3> SUFFICES ASSUME G[q] # Empty PROVE FALSE
      OBVIOUS
    <3>1. G[q] \in TableEntries(mappings)
      BY <2>2, <2>3, <2>5 DEF TableEntries, NonEmpty, Table
    <3>2. PICK x \in 0 .. n - 1 : mappings[x] # Empty /\ mappings[x] = G[q]
      BY <1>1, <3>1 DEF TableEntries, NonEmpty, Table
    <3>3. x = p
      BY <1>1, <2>5, <3>2, FindThat DEF p
    <3> QED
      BY <1>6, <3>2, <3>3
  <2>7. mappings' = [G EXCEPT ![q] = new]
    BY <1>6, <2>4
  <2>8. Cardinality(NonEmpty(mappings')) = count + 1
    BY <1>2, <2>1, <2>2, <2>3, <2>5, <2>6, <2>7, OneMore
  <2>9. mappings' \in Table(m)
    BY <1>2, <2>3, <2>7 DEF Table
  <2>10. HasRoom(m, mappings')
    <3>1. count + 1 < m
      BY <1>1, <2>1
    <3> QED
      BY <2>1, <2>8, <2>9, <3>1, RoomIs
  <2>11. SoundTable(hash, m, mappings')
    BY <1>1, <1>2, <2>1, <2>2, <2>7, <2>10, PutIs DEF q
  <2>12. Replaced(TableEntries(mappings), TableEntries(mappings'), new)
    <3>1. q = Finds(hash, m, G, new.key) /\ m \in Nat \ {0}
      BY <1>2, <2>1 DEF q
    <3> QED
      BY <1>1, <1>2, <2>2, <2>7, <3>1, PutContents
  <2> QED
    BY <1>1, <1>6, <2>1, <2>8, <2>11, <2>12 DEF TableInv, m, new
<1> QED
  BY <1>1, <1>4, <1>5, <1>6 DEF hash_table_put, new

\* Removal leaves a sound table without the key and with the others.
LEMMA RemoveStep ==
    ASSUME TableInv, NEW k \in Keys, Removed(k), UNCHANGED <<hash, offset>>
    PROVE  /\ TableInv' /\ TableEntries(mappings') = LessKey(TableEntries(mappings), k)
           /\ \A p \in NonEmpty(mappings) :
                  TestName[mappings[p].key] = TestName[k] => Back(Primes[offset], mappings, p, mappings')
<1> DEFINE n == Primes[offset]
           q == Finds(hash, n, mappings, k)
<1>1. /\ n \in Nat \ {0, 1} /\ mappings \in Table(n) /\ Size(mappings) = n
      /\ Unique(n, mappings) /\ HasRoom(n, mappings) /\ count \in Nat /\ count < n
      /\ find_mapping(mappings, k) = q /\ SoundTable(hash, n, mappings) /\ hash \in Hashes
      /\ count = Cardinality(NonEmpty(mappings)) /\ DOMAIN mappings = 0 .. n - 1
  BY SizeIs DEF TableInv
<1>2. q \in 0 .. n - 1 /\ (mappings[q] # Empty => TestName[mappings[q].key] = TestName[k])
  BY <1>1, FindIs
<1>3. \A p \in NonEmpty(mappings) : TestName[mappings[p].key] = TestName[k] => p = q
  BY <1>1, FindThat DEF NonEmpty
<1> HIDE DEF n, q
<1>4. CASE mappings[q] # Empty
  <2>1. mappings' = Deleted(mappings, q) /\ count' = count - 1
    BY <1>1, <1>4 DEF Removed, hash_table_contains
  <2>2. /\ SoundTable(hash, n, mappings') /\ Back(n, mappings, q, mappings')
        /\ Cardinality(NonEmpty(mappings')) = count - 1
    BY <1>1, <1>2, <1>4, <2>1, DeletedIs
  <2>3. mappings' \in Table(n)
    BY <2>2 DEF SoundTable
  <2>4. TableEntries(mappings') = LessKey(TableEntries(mappings), k)
    BY <1>1, <1>2, <1>4, <2>2, <2>3, DeletedContents
  <2> QED
    BY <1>1, <1>3, <2>1, <2>2, <2>4 DEF TableInv, n
<1>5. CASE mappings[q] = Empty
  <2>1. UNCHANGED <<mappings, count>>
    BY <1>1, <1>5 DEF Removed, hash_table_contains
  <2>2. \A p \in NonEmpty(mappings) : TestName[mappings[p].key] # TestName[k]
    BY <1>3, <1>5 DEF NonEmpty
  <2>3. TableEntries(mappings) = LessKey(TableEntries(mappings), k)
    BY <2>2 DEF TableEntries, LessKey
  <2> QED
    BY <2>1, <2>2, <2>3 DEF TableInv
<1> QED
  BY <1>4, <1>5

\* A visit of hash_table_map, with the removal of what is visited or not.
LEMMA VisitStep ==
    ASSUME HashInv, NEW remove \in BOOLEAN, MapVisit(remove)
    PROVE  /\ HashInv'
           /\ mappings' # mappings =>
                  \E k \in Keys : TableEntries(mappings') = LessKey(TableEntries(mappings), k)
<1> DEFINE n == Primes[offset]
           key == mappings[iter].key
<1>1. /\ n \in Nat \ {0, 1} /\ mappings \in Table(n) /\ DOMAIN mappings = 0 .. n - 1
      /\ TableInv /\ VisitInv
  BY SizeIs DEF HashInv
<1>2. /\ iter \in 0 .. n - 1 /\ seen' = seen \cup {key} /\ UNCHANGED <<hash, offset, todo>>
      /\ IF remove THEN Removed(key) ELSE UNCHANGED <<mappings, count>>
      /\ iter' = IF mappings'[iter] # Empty /\ mappings'[iter].key # key THEN iter
                 ELSE NextFrom(mappings', iter + 1)
  BY <1>1 DEF MapVisit
<1>3. mappings[iter] # Empty /\ key \in Keys /\ iter \in NonEmpty(mappings)
  BY <1>1, <1>2, CellIs DEF VisitInv, NonEmpty
\* What is there after the visit and was not visited is as far on as it was, or nearer.
<1>4. /\ TableInv'
      /\ \A x \in 0 .. n - 1 : mappings[x] # Empty /\ x # iter /\ iter <= x =>
             \E y \in 0 .. n - 1 : mappings'[y] = mappings[x] /\ iter <= y
      /\ mappings' # mappings => TableEntries(mappings') = LessKey(TableEntries(mappings), key)
  <2>1. CASE remove
    <3>1. Removed(key)
      BY <1>2, <2>1
    <3>2. /\ TableInv' /\ TableEntries(mappings') = LessKey(TableEntries(mappings), key)
          /\ Back(n, mappings, iter, mappings')
      BY <1>1, <1>2, <1>3, <3>1, RemoveStep
    <3>3. ASSUME NEW x \in 0 .. n - 1, mappings[x] # Empty, x # iter, iter <= x
          PROVE  \E y \in 0 .. n - 1 : mappings'[y] = mappings[x] /\ iter <= y
      <4>1. PICK y \in 0 .. n - 1 : mappings'[y] = mappings[x] /\ Dist(n, iter, y) <= Dist(n, iter, x)
        BY <3>2, <3>3 DEF Back
      <4>2. iter <= y
        BY <1>1, <1>2, <3>3, <4>1 DEF Dist
      <4> QED
        BY <4>1, <4>2
    <3> QED
      BY <3>2, <3>3
  <2>2. CASE ~ remove
    <3>1. UNCHANGED <<mappings, count>>
      BY <1>2, <2>2
    <3>2. TableInv'
      BY <1>1, <1>2, <3>1 DEF TableInv
    <3> QED
      BY <3>1, <3>2
  <2> QED
    BY <2>1, <2>2
<1> HIDE DEF n, key
<1>5. mappings' \in Table(n) /\ DOMAIN mappings' = 0 .. n - 1
  BY <1>2, <1>4 DEF TableInv, SoundTable, Table, n
<1>6. /\ iter' \in iter .. n /\ (iter' # n => mappings'[iter'] # Empty)
      /\ \A y \in 0 .. n - 1 :
             mappings'[y] # Empty /\ mappings'[y].key # key /\ iter <= y => iter' <= y
  <2>1. CASE mappings'[iter] # Empty /\ mappings'[iter].key # key
    BY <1>1, <1>2, <2>1
  <2>2. CASE ~ (mappings'[iter] # Empty /\ mappings'[iter].key # key)
    <3>1. iter' = NextFrom(mappings', iter + 1) /\ iter + 1 \in 0 .. n
      BY <1>1, <1>2, <2>2
    <3> DEFINE nx == NextFrom(mappings', iter + 1)
    <3>2. /\ nx \in iter + 1 .. n /\ (nx # n => mappings'[nx] # Empty)
          /\ \A y \in NonEmpty(mappings') : iter + 1 <= y => nx <= y
      BY <1>1, <1>5, <3>1, NextIs
    <3> HIDE DEF nx
    <3>3. ASSUME NEW y \in 0 .. n - 1, mappings'[y] # Empty, mappings'[y].key # key, iter <= y
          PROVE  nx <= y
      <4>1. y # iter /\ iter + 1 <= y
        BY <1>2, <2>2, <3>3
      <4>2. y \in NonEmpty(mappings')
        BY <1>5, <3>3 DEF NonEmpty
      <4> QED
        BY <3>2, <4>1, <4>2
    <3> QED
      BY <1>2, <3>1, <3>2, <3>3 DEF nx
  <2> QED
    BY <2>1, <2>2
<1>7. ASSUME NEW k \in todo', k \notin seen'
      PROVE  \E y \in NonEmpty(mappings') : iter' <= y /\ mappings'[y].key = k
  <2>1. k \in todo /\ k \notin seen /\ k # key
    BY <1>2, <1>7
  <2>2. PICK x \in NonEmpty(mappings) : iter <= x /\ mappings[x].key = k
    BY <1>1, <2>1 DEF VisitInv
  <2>3. x \in 0 .. n - 1 /\ mappings[x] # Empty /\ x # iter
    BY <1>1, <2>1, <2>2 DEF NonEmpty, key
  <2>4. PICK y \in 0 .. n - 1 : mappings'[y] = mappings[x] /\ iter <= y
    BY <1>4, <2>2, <2>3
  <2>5. mappings'[y] # Empty /\ mappings'[y].key = k /\ iter' <= y
    BY <1>6, <2>1, <2>2, <2>3, <2>4
  <2> QED
    BY <1>5, <2>5 DEF NonEmpty
<1>8. VisitInv'
  <2>1. iter' \in -1 .. n /\ iter' # -1 /\ (iter' \in 0 .. n - 1 => mappings'[iter'] # Empty)
    BY <1>1, <1>2, <1>6
  <2> QED
    BY <1>2, <1>7, <2>1 DEF VisitInv, n
<1> QED
  BY <1>3, <1>4, <1>8 DEF HashInv

\* hash_table_map begins: everything is at its first position or further on.
LEMMA MapBeginStep == HashInv /\ MapBegin => HashInv'
<1> SUFFICES ASSUME HashInv, MapBegin PROVE HashInv'
  OBVIOUS
<1> DEFINE n == Primes[offset]
           nx == NextFrom(mappings, 0)
<1>1. n \in Nat \ {0, 1} /\ mappings \in Table(n) /\ DOMAIN mappings = 0 .. n - 1 /\ TableInv
  BY SizeIs DEF HashInv
<1>2. TableInv' /\ UNCHANGED <<mappings, offset>>
  BY <1>1 DEF MapBegin, TableInv
<1> HIDE DEF n
<1>3. /\ nx \in 0 .. n /\ (nx # n => mappings[nx] # Empty)
      /\ \A x \in NonEmpty(mappings) : nx <= x
  <2>1. 0 \in 0 .. n /\ \A x \in NonEmpty(mappings) : 0 <= x
    BY <1>1 DEF NonEmpty
  <2> QED
    BY <1>1, <2>1, NextIs
<1> HIDE DEF nx
<1>4. iter' = nx /\ todo' = {mappings[p].key : p \in NonEmpty(mappings)}
  BY DEF MapBegin, nx
<1>5. VisitInv'
  BY <1>1, <1>2, <1>3, <1>4 DEF VisitInv, n
<1> QED
  BY <1>2, <1>5 DEF HashInv

\* hash_table_clear.
LEMMA ClearStep ==
    ASSUME TableInv, hash_table_clear
    PROVE  TableInv' /\ TableEntries(mappings') = {}
<1> DEFINE n == Primes[offset]
<1>1. n \in Nat \ {0} /\ Size(mappings) = n
  BY SizeIs
<1>2. mappings' = EmptyTable(n) /\ count' = 0 /\ UNCHANGED <<hash, offset>>
  BY <1>1 DEF hash_table_clear
<1> HIDE DEF n
<1>3. SoundTable(hash, n, mappings') /\ NonEmpty(mappings') = {} /\ Cardinality(NonEmpty(mappings')) = 0
  BY <1>1, <1>2, EmptyIs
<1>4. TableEntries(mappings') = {}
  BY <1>3 DEF TableEntries
<1> QED
  BY <1>2, <1>3, <1>4 DEF TableInv, n

\* hash_table_map returns.
LEMMA MapReturnStep == HashInv /\ MapReturn => HashInv'
<1> SUFFICES ASSUME HashInv, MapReturn PROVE HashInv'
  OBVIOUS
<1>1. Primes[offset] \in Nat \ {0, 1} /\ TableInv
  BY SizeIs DEF HashInv
<1> QED
  BY <1>1 DEF HashInv, TableInv, VisitInv, MapReturn

\* The invariant is inductive.
LEMMA InvStep == HashInv /\ [HashNext]_hvars => HashInv'
<1> SUFFICES ASSUME HashInv, [HashNext]_hvars PROVE HashInv'
  OBVIOUS
<1>1. TableInv /\ VisitInv
  BY DEF HashInv
<1>2. ASSUME NEW k \in Keys, NEW v \in Values, hash_table_put(k, v) PROVE HashInv'
  <2>1. TableInv'
    BY <1>1, <1>2, PutStep
  <2>2. iter = -1 /\ iter' = -1 /\ todo' = todo
    BY <1>2 DEF hash_table_put
  <2> QED
    BY <1>1, <2>1, <2>2, IterIdle
<1>3. ASSUME NEW k \in Keys, hash_table_remove(k) PROVE HashInv'
  <2>1. iter = -1 /\ Removed(k) /\ UNCHANGED <<hash, offset, iter, todo>>
    BY <1>3 DEF hash_table_remove
  <2>2. TableInv'
    BY <1>1, <2>1, RemoveStep
  <2> QED
    BY <1>1, <2>1, <2>2, IterIdle
<1>4. CASE hash_table_clear
  <2>1. TableInv'
    BY <1>1, <1>4, ClearStep
  <2>2. iter = -1 /\ iter' = -1 /\ todo' = todo
    BY <1>4 DEF hash_table_clear
  <2> QED
    BY <1>1, <2>1, <2>2, IterIdle
<1>5. ASSUME NEW remove \in BOOLEAN, MapVisit(remove) PROVE HashInv'
  BY <1>5, VisitStep
<1>6. CASE UNCHANGED hvars
  BY <1>1, <1>6 DEF hvars, HashInv, TableInv, VisitInv
<1> QED
  BY <1>2, <1>3, <1>4, <1>5, <1>6, MapBeginStep, MapReturnStep DEF HashNext, string_set_add

\* HashInv implies TableSound.
LEMMA InvSound == HashInv => TableSound
<1> SUFFICES ASSUME HashInv PROVE TableSound
  OBVIOUS
<1> DEFINE n == Primes[offset]
<1>1. /\ n \in Nat \ {0, 1} /\ mappings \in Table(n) /\ Size(mappings) = n
      /\ DOMAIN mappings = 0 .. n - 1 /\ count \in Nat /\ count < n
      /\ \A k : find_mapping(mappings, k) = Finds(hash, n, mappings, k)
      /\ SoundTable(hash, n, mappings) /\ hash \in Hashes /\ count = Cardinality(NonEmpty(mappings))
  BY SizeIs DEF HashInv, TableInv
<1>2. /\ iter \in -1 .. n
      /\ \A k \in todo : k \in seen \/ \E x \in NonEmpty(mappings) : iter <= x /\ mappings[x].key = k
  BY DEF HashInv, VisitInv
<1> HIDE DEF n
<1>3. AllFound
  <2> SUFFICES ASSUME NEW p \in NonEmpty(mappings) PROVE find_mapping(mappings, mappings[p].key) = p
    BY DEF AllFound
  <2>1. p \in 0 .. n - 1 /\ mappings[p] # Empty
    BY <1>1 DEF NonEmpty
  <2>2. mappings[p].key \in Keys
    BY <1>1, <2>1, CellIs
  <2>3. Finds(hash, n, mappings, mappings[p].key) = p
    BY <1>1, <2>1, <2>2, FindThat
  <2> QED
    BY <1>1, <2>3
<1>4. Room
  BY <1>1 DEF Room
<1>5. MapVisitsAll
  <2> SUFFICES ASSUME iter = n, NEW k \in todo, k \notin seen PROVE FALSE
    BY <1>1 DEF MapVisitsAll
  <2>1. PICK x \in NonEmpty(mappings) : iter <= x
    BY <1>2
  <2>2. x \in 0 .. n - 1
    BY <1>1 DEF NonEmpty
  <2> QED
    BY <1>1, <2>1, <2>2
<1> QED
  BY <1>3, <1>4, <1>5 DEF TableSound

\* However the entries of a probe chain move when others are removed or the table grows
\* (hash_table_remove, grow_hash_table), every search of find_mapping ends where its key is
\* and every hash_table_map misses none.
THEOREM ChainsKept == HashSpec => []TableSound
<1>1. HashSpec => []HashInv
  BY InitInv, InvStep, PTL DEF HashSpec
<1> QED
  BY <1>1, InvSound, PTL

-----------------------------------------------------------------------------
(* The map the table stands for *)

\* F is the map of the mappings C.
IsMap(C, F) ==
    /\ F = [nm \in {TestName[c.key] : c \in C} |-> F[nm]]
    /\ \A c \in C : F[TestName[c.key]] = c

\* What KeyMap's map is, for a hash function and a size.
Shows(h, n, T) ==
    [nm \in {TestName[k] : k \in {l \in Keys : T[Finds(h, n, T, l)] # Empty}} |->
        T[Finds(h, n, T, CHOOSE k \in Keys : TestName[k] = nm)]]

\* KeyMap's map.
Shown ==
    [n \in {TestName[k] : k \in Found} |->
        mappings[find_mapping(mappings, CHOOSE k \in Keys : TestName[k] = n)]]

\* What find_mapping shows of a sound table is the map of its contents.
LEMMA ShowsIs ==
    ASSUME NEW h \in Hashes, NEW n \in Nat \ {0}, NEW T, SoundTable(h, n, T)
    PROVE  IsMap(TableEntries(T), Shows(h, n, T))
<1> DEFINE There == {l \in Keys : T[Finds(h, n, T, l)] # Empty}
           Names == {TestName[k] : k \in There}
           At(nm) == T[Finds(h, n, T, CHOOSE k \in Keys : TestName[k] = nm)]
<1>1. T \in Table(n) /\ HasRoom(n, T) /\ DOMAIN T = 0 .. n - 1
  BY DEF SoundTable, Table
<1>2. ASSUME NEW x \in 0 .. n - 1, T[x] # Empty
      PROVE  TestName[T[x].key] \in Names /\ At(TestName[T[x].key]) = T[x]
  <2> DEFINE k == CHOOSE k \in Keys : TestName[k] = TestName[T[x].key]
  <2>1. T[x].key \in Keys
    BY <1>1, <1>2, CellIs
  <2>2. k \in Keys /\ TestName[k] = TestName[T[x].key]
    BY <2>1
  <2>3. Finds(h, n, T, T[x].key) = x
    BY <1>2, <2>1, FindThat
  <2>4. Finds(h, n, T, k) = x
    <3> HIDE DEF k
    <3> QED
      BY <1>2, <2>2, FindThat
  <2> QED
    BY <1>2, <2>1, <2>3, <2>4
<1>3. {TestName[c.key] : c \in TableEntries(T)} = Names
  <2>1. ASSUME NEW c \in TableEntries(T) PROVE TestName[c.key] \in Names
    <3>1. PICK x \in 0 .. n - 1 : T[x] # Empty /\ c = T[x]
      BY <1>1 DEF TableEntries, NonEmpty
    <3> HIDE DEF Names
    <3> QED
      BY <1>2, <3>1
  <2>2. ASSUME NEW nm \in Names PROVE \E c \in TableEntries(T) : nm = TestName[c.key]
    <3>1. PICK k \in Keys : T[Finds(h, n, T, k)] # Empty /\ nm = TestName[k]
      OBVIOUS
    <3>2. Finds(h, n, T, k) \in 0 .. n - 1 /\ TestName[T[Finds(h, n, T, k)].key] = TestName[k]
      BY <1>1, <3>1, FindIs
    <3>3. T[Finds(h, n, T, k)] \in TableEntries(T)
      BY <1>1, <3>1, <3>2 DEF TableEntries, NonEmpty
    <3> QED
      BY <3>1, <3>2, <3>3
  <2> HIDE DEF Names
  <2> QED
    BY <2>1, <2>2
<1>4. Shows(h, n, T) = [nm \in Names |-> At(nm)]
  BY DEF Shows
<1>5. ASSUME NEW c \in TableEntries(T) PROVE Shows(h, n, T)[TestName[c.key]] = c
  <2>1. PICK x \in 0 .. n - 1 : T[x] # Empty /\ c = T[x]
    BY <1>1 DEF TableEntries, NonEmpty
  <2> HIDE DEF Names, At
  <2> QED
    BY <1>2, <1>4, <2>1
<1> HIDE DEF Names, At
<1> QED
  BY <1>3, <1>4, <1>5 DEF IsMap

\* KeyMap's map is what find_mapping shows of the present table,
LEMMA ShownIs == HashInv => Shown = Shows(hash, Primes[offset], mappings)
<1> SUFFICES ASSUME HashInv PROVE Shown = Shows(hash, Primes[offset], mappings)
  OBVIOUS
<1>1. \A k : find_mapping(mappings, k) = Finds(hash, Primes[offset], mappings, k)
  BY SizeIs DEF HashInv
<1> QED
  BY <1>1 DEF Shown, Shows, Found, hash_table_contains

\* and so the map of its contents.
LEMMA ShownMap == HashInv => IsMap(TableEntries(mappings), Shown)
BY ShownIs, ShowsIs, SizeIs DEF HashInv, TableInv

\* One map for the same mappings.
LEMMA SameMap ==
    ASSUME NEW C, NEW F, NEW G, IsMap(C, F), IsMap(C, G)
    PROVE  F = G
<1> DEFINE Names == {TestName[c.key] : c \in C}
<1>1. \A nm \in Names : F[nm] = G[nm]
  BY DEF IsMap
<1>2. F = [nm \in Names |-> F[nm]] /\ G = [nm \in Names |-> G[nm]]
  BY Zenon DEF IsMap
<1> HIDE DEF Names
<1> QED
  BY <1>1, <1>2

\* What KeyMap's Put and Remove make of the map F.
PutIn(F, nm, mp) == [n \in DOMAIN F \cup {nm} |-> IF n = nm THEN mp ELSE F[n]]
TakenOut(F, nm) == [n \in DOMAIN F \ {nm} |-> F[n]]

\* A put makes the map Put does,
LEMMA PutMap ==
    ASSUME NEW C, NEW D, NEW F, NEW G, IsMap(C, F), IsMap(D, G), NEW mp, Replaced(C, D, mp)
    PROVE  G = PutIn(F, TestName[mp.key], mp)
<1> DEFINE Put == [nm \in DOMAIN F \cup {TestName[mp.key]} |-> IF nm = TestName[mp.key] THEN mp ELSE F[nm]]
<1>1. DOMAIN F = {TestName[c.key] : c \in C} /\ \A c \in C : F[TestName[c.key]] = c
  BY DEF IsMap
<1>2. DOMAIN Put = {TestName[c.key] : c \in D}
  BY <1>1 DEF Replaced, LessKey
<1>3. ASSUME NEW c \in D PROVE Put[TestName[c.key]] = c
  BY <1>1 DEF Replaced, LessKey
<1>4. IsMap(D, Put)
  <2>1. Put = [nm \in DOMAIN Put |-> Put[nm]]
    OBVIOUS
  <2> HIDE DEF Put
  <2> QED
    BY <1>2, <1>3, <2>1 DEF IsMap
<1> QED
  BY <1>4, SameMap DEF PutIn

\* and a removal the map Remove does.
LEMMA RemoveMap ==
    ASSUME NEW C, NEW F, NEW G, NEW k, IsMap(C, F), IsMap(LessKey(C, k), G)
    PROVE  G = TakenOut(F, TestName[k])
<1> DEFINE Rest == [nm \in DOMAIN F \ {TestName[k]} |-> F[nm]]
           D == LessKey(C, k)
<1>1. DOMAIN F = {TestName[c.key] : c \in C} /\ \A c \in C : F[TestName[c.key]] = c
  BY DEF IsMap
<1>2. DOMAIN Rest = {TestName[c.key] : c \in D}
  BY <1>1 DEF LessKey
<1>3. ASSUME NEW c \in D PROVE Rest[TestName[c.key]] = c
  BY <1>1 DEF LessKey
<1>4. IsMap(D, Rest)
  <2>1. Rest = [nm \in DOMAIN Rest |-> Rest[nm]]
    OBVIOUS
  <2> HIDE DEF Rest
  <2> QED
    BY <1>2, <1>3, <2>1 DEF IsMap
<1> QED
  BY <1>4, SameMap DEF TakenOut

\* The steps of KeyMap, of its map.
LEMMA AbstractSteps ==
    ASSUME Shown' # Shown
    PROVE  /\ \A k \in Keys, v \in Values :
                  Shown' = PutIn(Shown, TestName[k], [key |-> k, value |-> v]) => Implements!Next
           /\ \A k \in Keys : Shown' = TakenOut(Shown, TestName[k]) => Implements!Next
           /\ Shown' = [n \in {} |-> {}] => Implements!Next
<1>1. ASSUME NEW k \in Keys, NEW v \in Values,
             Shown' = PutIn(Shown, TestName[k], [key |-> k, value |-> v])
      PROVE  Implements!Next
  <2>1. Implements!Put(k, v)
    BY <1>1 DEF Implements!Put, Shown, PutIn
  <2> QED
    BY <2>1 DEF Implements!Next, Shown
<1>2. ASSUME NEW k \in Keys, Shown' = TakenOut(Shown, TestName[k])
      PROVE  Implements!Next
  <2>1. Implements!Remove(k)
    BY <1>2 DEF Implements!Remove, Shown, Implements!Restrict, TakenOut
  <2> QED
    BY <2>1 DEF Implements!Next, Shown
<1>3. ASSUME Shown' = [n \in {} |-> {}] PROVE Implements!Next
  <2>1. Implements!Clear
    BY <1>3 DEF Implements!Clear, Shown
  <2> QED
    BY <2>1 DEF Implements!Next, Shown
<1> QED
  BY <1>1, <1>2, <1>3

\* A new table is the empty map.
LEMMA InitMap == HashInit => Implements!Init
<1> SUFFICES ASSUME HashInit PROVE Shown = [n \in {} |-> {}]
  BY DEF Implements!Init, Shown
<1>1. HashInv
  BY InitInv
<1>2. PICK i : mappings = EmptyTable(Primes[i]) /\ i = offset
  BY DEF HashInit, hash_table_new
<1>3. NonEmpty(mappings) = {}
  BY <1>1, <1>2, SizeIs, EmptyIs DEF HashInv
<1>4. TableEntries(mappings) = {}
  BY <1>3 DEF TableEntries
<1>5. IsMap({}, Shown)
  BY <1>1, <1>4, ShownMap
<1>6. IsMap({}, [n \in {} |-> {}])
  BY DEF IsMap
<1> QED
  BY <1>5, <1>6, SameMap

\* Every step of the table is a step of the map, or leaves it as it is.
LEMMA StepMap == HashInv /\ HashInv' /\ [HashNext]_hvars => [Implements!Next]_Shown
<1> SUFFICES ASSUME HashInv, [HashNext]_hvars,
                    NEW F, F = Shown', IsMap(TableEntries(mappings), Shown), IsMap(TableEntries(mappings'), F),
                    F # Shown
             PROVE  Implements!Next
  <2>1. HashInv' => IsMap(TableEntries(mappings), Shown)'
    BY ShownMap, PTL
  <2>2. ASSUME HashInv, HashInv' PROVE IsMap(TableEntries(mappings), Shown) /\ IsMap(TableEntries(mappings'), Shown')
    BY <2>1, <2>2, ShownMap
  <2> QED
    BY <2>2
<1>1. TableInv /\ Shown' # Shown
  BY DEF HashInv
<1>2. ASSUME NEW k \in Keys, NEW v \in Values, hash_table_put(k, v) PROVE Implements!Next
  <2>1. Replaced(TableEntries(mappings), TableEntries(mappings'), [key |-> k, value |-> v])
    BY <1>1, <1>2, PutStep
  <2> DEFINE mp == [key |-> k, value |-> v]
  <2>2. mp.key = k
    OBVIOUS
  <2> HIDE DEF mp
  <2>3. F = PutIn(Shown, TestName[k], mp)
    BY <2>1, <2>2, PutMap DEF mp
  <2> QED
    BY <1>1, <2>3, AbstractSteps DEF mp
<1>3. ASSUME NEW k \in Keys, TableEntries(mappings') = LessKey(TableEntries(mappings), k) PROVE Implements!Next
  <2>1. F = TakenOut(Shown, TestName[k])
    BY <1>3, RemoveMap
  <2> QED
    BY <1>1, <2>1, AbstractSteps
<1>4. CASE mappings' = mappings
  BY <1>4, SameMap
<1>5. ASSUME NEW k \in Keys, hash_table_remove(k) PROVE Implements!Next
  <2>1. Removed(k) /\ UNCHANGED <<hash, offset>>
    BY <1>5 DEF hash_table_remove
  <2> QED
    BY <1>1, <1>3, <2>1, RemoveStep
<1>6. CASE hash_table_clear
  <2>1. IsMap({}, F)
    BY <1>1, <1>6, ClearStep
  <2>2. IsMap({}, [n \in {} |-> {}])
    BY DEF IsMap
  <2>3. F = [n \in {} |-> {}]
    BY <2>1, <2>2, SameMap
  <2> QED
    BY <1>1, <2>3, AbstractSteps
<1>7. ASSUME NEW remove \in BOOLEAN, MapVisit(remove) PROVE Implements!Next
  BY <1>3, <1>4, <1>7, VisitStep
<1>8. CASE MapBegin \/ MapReturn \/ UNCHANGED hvars
  BY <1>4, <1>8 DEF MapBegin, MapReturn, hvars
<1> QED
  BY <1>2, <1>5, <1>6, <1>7, <1>8 DEF HashNext, string_set_add

\* The table is a map from keys, up to the equality of the test function, to the last mapping
\* put: no put, growth, removal with its rehashing, or removal from within hash_table_map
\* loses, duplicates or revives an entry.
THEOREM TableIsMap == HashSpec => Refines
<1>1. HashSpec => []HashInv
  BY InitInv, InvStep, PTL DEF HashSpec
<1> QED
  BY <1>1, InitMap, StepMap, PTL DEF HashSpec, Refines, Implements!Spec, Shown
====
