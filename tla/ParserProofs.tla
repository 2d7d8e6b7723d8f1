---------------------------- MODULE ParserProofs ----------------------------
(***************************************************************************)
(* What is read character by character or word by word, proved.            *)
(*                                                                         *)
(* Getopt, for every argv, set of options and ordering:                    *)
(* ArgumentsInOrder.  exchange turns its loop until the two segments have  *)
(* changed places (ExchangedIs).  Between two calls the scan has read what *)
(* the pass has that moves nothing (ScanAt): the answers, and the words    *)
(* that it keeps together before optind; nothing behind has been touched.  *)
(* The pass is a recursive function; that there is one is derived from the *)
(* well-foundedness of inclusion on finite sets (Iteration), and what it   *)
(* does with words by induction over an interval (Inductive).              *)
(*                                                                         *)
(* Headers, for every list of fields and all contents: FieldsKept.  Parse  *)
(* reads a field as it was written but for the colons of its value         *)
(* (FieldRead), hence an answer line by line (AnswerParsed); a header sent *)
(* is made of lines, none of them empty (HeaderLined).                     *)
(*                                                                         *)
(* Options: what is locked or refused stays (RefusedOrLockedKept), one     *)
(* lemma for all that a command may change, and the search in a table that *)
(* ascends finds what is in it (EveryCommandFound), by induction over the  *)
(* length of a range.  A number is read a character at a time (Read), what *)
(* is around it is stripped (StrippedText), and the command makes of it    *)
(* what it means (RateMeant, TimeMeant), which NumbersInv keeps.           *)
(*                                                                         *)
(* Url, for every scheme and port: UrlTakenApart.  The places where the    *)
(* parts of a URL begin are named once (LayOut); each search stops at the  *)
(* separator it is for (PlaceFound and what follows), so each part is cut  *)
(* out as it was put in (AuthorityRead, PathRead, FileFound).              *)
(***************************************************************************)
EXTENDS Getopt, Headers, Options, Url, HashProofs, SequenceTheorems, TLAPS

-----------------------------------------------------------------------------
(* Loops                                                                   *)

\* A loop that is written as a recursive function on all numbers: step makes each value
\* of the one before.
Iterates(f, S, s0, step) ==
    f \in [Nat -> S] /\ f[0] = s0 /\ \A i \in Nat : f[i + 1] = step[f[i]]

\* There is such a function.
LEMMA Iteration ==
    ASSUME NEW S, NEW s0 \in S, NEW step \in [S -> S]
    PROVE  \E f : Iterates(f, S, s0, step)
<1> DEFINE steps(n) == [i \in 1 .. n |-> step]
           F(n) == CHOOSE f : Recurs(f, S, s0, n, steps(n))
           g == [n \in Nat |-> F(n)[n]]
<1>1. ASSUME NEW n \in Nat
      PROVE  /\ F(n) \in [0 .. n -> S] /\ F(n)[0] = s0
             /\ \A i \in 1 .. n : F(n)[i] = step[F(n)[i - 1]]
  <2>1. steps(n) \in [1 .. n -> [S -> S]]
    OBVIOUS
  <2>2. \E f : Recurs(f, S, s0, n, steps(n))
    <3> HIDE DEF steps
    <3> QED
      BY <2>1, Recursion, Zenon
  <2>3. Recurs(F(n), S, s0, n, steps(n))
    <3> HIDE DEF steps
    <3> QED
      BY <2>2
  <2> HIDE DEF F
  <2> QED
    BY <2>3 DEF Recurs
<1> HIDE DEF F
<1>2. ASSUME NEW n \in Nat PROVE F(n + 1)[n] = F(n)[n]
  <2> DEFINE P == {i \in 0 .. n : F(n + 1)[i] = F(n)[i]}
  <2>0. n + 1 \in Nat
    OBVIOUS
  <2>f. /\ F(n + 1)[0] = s0
        /\ \A i \in 1 .. n + 1 : F(n + 1)[i] = step[F(n + 1)[i - 1]]
    BY <2>0, <1>1
  <2>1. 0 \in P
    BY <1>1, <2>f
  <2>2. \A i \in 1 .. n : i - 1 \in P => i \in P
    <3> SUFFICES ASSUME NEW i \in 1 .. n, i - 1 \in P PROVE i \in P
      OBVIOUS
    <3>1. i \in 1 .. n + 1 /\ i \in 0 .. n
      OBVIOUS
    <3>2. F(n + 1)[i] = step[F(n + 1)[i - 1]]
      BY <3>1, <2>f
    <3>3. F(n)[i] = step[F(n)[i - 1]]
      BY <1>1
    <3>4. F(n + 1)[i - 1] = F(n)[i - 1]
      OBVIOUS
    <3> QED
      BY <3>1, <3>2, <3>3, <3>4
  <2>3. 0 .. n \subseteq P
    <3> HIDE DEF P
    <3> QED
      BY <2>1, <2>2, Inductive
  <2>4. n \in 0 .. n
    OBVIOUS
  <2> QED
    BY <2>3, <2>4
<1>3. g \in [Nat -> S] /\ g[0] = s0
  <2>1. \A n \in Nat : F(n)[n] \in S
    <3> SUFFICES ASSUME NEW n \in Nat PROVE F(n)[n] \in S
      OBVIOUS
    <3>1. F(n) \in [0 .. n -> S] /\ n \in 0 .. n
      BY <1>1
    <3> QED
      BY <3>1
  <2> QED
    BY <1>1, <2>1
<1>4. ASSUME NEW n \in Nat PROVE g[n + 1] = step[g[n]]
  <2>1. n + 1 \in Nat /\ n + 1 \in 1 .. n + 1 /\ (n + 1) - 1 = n
    OBVIOUS
  <2>2. F(n + 1)[n + 1] = step[F(n + 1)[n]]
    BY <1>1, <2>1
  <2> QED
    BY <1>2, <2>1, <2>2
<1> QED
  BY <1>3, <1>4 DEF Iterates

-----------------------------------------------------------------------------
(* exchange: one turn of its loop                                          *)

\* What exchange promises: the segments from b to m and from m to t change places.
Rotated(a, b, m, t) ==
    [k \in DOMAIN a |-> IF b <= k /\ k < b + (t - m) THEN a[k + (m - b)]
                        ELSE IF b + (t - m) <= k /\ k < t THEN a[k - (t - m)] ELSE a[k]]

Segments(n, E) ==
    {x \in [a : [1 .. n -> E], bottom : Int, middle : Int, top : Int] :
        1 <= x.bottom /\ x.bottom <= x.middle /\ x.middle <= x.top /\ x.top <= n + 1}

SwapsTo(s, a, i, j, len, n, E) ==
    /\ s \in [1 .. n -> E]
    /\ \A k \in 1 .. n :
          /\ i <= k /\ k < i + len => s[k] = a[k - i + j]
          /\ j <= k /\ k < j + len => s[k] = a[k - j + i]
          /\ k < i \/ (i + len <= k /\ k < j) \/ j + len <= k => s[k] = a[k]

\* Swapping two stretches of the same length, the first before the second.
LEMMA SwappedIs ==
    ASSUME NEW E, NEW n \in Nat, NEW a \in [1 .. n -> E], NEW i \in Int, NEW j \in Int, NEW len \in Int,
           1 <= i, i + len <= j, j + len <= n + 1
    PROVE  SwapsTo(Swapped(a, i, j, len), a, i, j, len, n, E)
<1> DEFINE s == Swapped(a, i, j, len)
<1>1. s = [k \in 1 .. n |-> IF k \in i .. i + len - 1 THEN a[k - i + j]
                            ELSE IF k \in j .. j + len - 1 THEN a[k - j + i] ELSE a[k]]
  BY DEF Swapped
<1>2. \A k \in 1 .. n : (k \in i .. i + len - 1 => k - i + j \in 1 .. n) /\ (k \in j .. j + len - 1 => k - j + i \in 1 .. n)
  OBVIOUS
<1>3. s \in [1 .. n -> E]
  BY <1>1, <1>2
<1> HIDE DEF s
<1>4. ASSUME NEW k \in 1 .. n
      PROVE  /\ i <= k /\ k < i + len => s[k] = a[k - i + j]
             /\ j <= k /\ k < j + len => s[k] = a[k - j + i]
             /\ k < i \/ (i + len <= k /\ k < j) \/ j + len <= k => s[k] = a[k]
  <2>1. s[k] = IF k \in i .. i + len - 1 THEN a[k - i + j]
               ELSE IF k \in j .. j + len - 1 THEN a[k - j + i] ELSE a[k]
    BY <1>1
  <2>2. /\ k \in i .. i + len - 1 <=> i <= k /\ k < i + len
        /\ k \in j .. j + len - 1 <=> j <= k /\ k < j + len
    OBVIOUS
  <2> QED
    BY <2>1, <2>2
<1> QED
  BY <1>3, <1>4 DEF s, SwapsTo

\* A turn keeps what the whole rotation will be, and has less to do after it.
LEMMA OneTurn ==
    ASSUME NEW E, NEW n \in Nat, NEW x \in Segments(n, E),
           x.bottom < x.middle, x.middle < x.top
    PROVE  /\ SwapShorter(x) \in Segments(n, E)
           /\ SwapShorter(x).top - SwapShorter(x).bottom < x.top - x.bottom
           /\ Rotated(SwapShorter(x).a, SwapShorter(x).bottom, SwapShorter(x).middle, SwapShorter(x).top)
                = Rotated(x.a, x.bottom, x.middle, x.top)
<1> PICK a \in [1 .. n -> E], b \in Int, m \in Int, t \in Int :
        x = [a |-> a, bottom |-> b, middle |-> m, top |-> t]
  BY DEF Segments
<1>1. 1 <= b /\ b < m /\ m < t /\ t <= n + 1
  BY DEF Segments
<1> DEFINE below == m - b
           above == t - m
<1>t. below \in Int /\ above \in Int /\ below > 0 /\ above > 0
  BY <1>1
<1>2. CASE above > below
  <2> DEFINE s == Swapped(a, b, t - below, below)
  <2>1. SwapShorter(x) = [a |-> s, bottom |-> b, middle |-> m, top |-> t - below]
    <3>1. x.a = a /\ x.bottom = b /\ x.middle = m /\ x.top = t
      OBVIOUS
    <3>2. SwapShorter(x) = [x EXCEPT !.a = Swapped(@, x.bottom, x.top - below, below), !.top = @ - below]
      BY <1>t, <1>2, <3>1 DEF SwapShorter
    <3> QED
      BY <3>1, <3>2
  <2>a. b \in Int /\ t - below \in Int /\ below \in Int /\ 1 <= b /\ b + below <= t - below /\ (t - below) + below <= n + 1
    BY <1>1, <1>2
  <2>2. /\ s \in [1 .. n -> E]
        /\ \A k \in 1 .. n :
              /\ b <= k /\ k < b + below => s[k] = a[k - b + (t - below)]
              /\ t - below <= k /\ k < (t - below) + below => s[k] = a[k - (t - below) + b]
              /\ k < b \/ (b + below <= k /\ k < t - below) \/ (t - below) + below <= k => s[k] = a[k]
    <3>1. SwapsTo(Swapped(a, b, t - below, below), a, b, t - below, below, n, E)
      <4> HIDE DEF below
      <4> QED
        BY <2>a, SwappedIs, Zenon
    <3>2. SwapsTo(s, a, b, t - below, below, n, E)
      BY <3>1
    <3> HIDE DEF s, below
    <3> QED
      BY <3>2 DEF SwapsTo
  <2> HIDE DEF s
  <2>3. SwapShorter(x) \in Segments(n, E)
    BY <2>1, <2>2, <1>1, <1>2 DEF Segments
  <2>4. SwapShorter(x).top - SwapShorter(x).bottom < x.top - x.bottom
    BY <2>1, <1>t, <1>1
  <2>5. ASSUME NEW k \in 1 .. n
        PROVE  (IF b <= k /\ k < b + ((t - below) - m) THEN s[k + (m - b)]
                ELSE IF b + ((t - below) - m) <= k /\ k < t - below THEN s[k - ((t - below) - m)] ELSE s[k])
             = (IF b <= k /\ k < b + (t - m) THEN a[k + (m - b)]
                ELSE IF b + (t - m) <= k /\ k < t THEN a[k - (t - m)] ELSE a[k])
    <3>1. CASE b <= k /\ k < b + ((t - below) - m)
      <4>1. k + (m - b) \in 1 .. n /\ b + below <= k + (m - b) /\ k + (m - b) < t - below
        BY <3>1, <1>1, <1>2
      <4>2. s[k + (m - b)] = a[k + (m - b)]
        BY <4>1, <2>2
      <4>3. k < b + (t - m)
        BY <3>1, <1>1
      <4> QED
        BY <3>1, <4>2, <4>3
    <3>2. CASE b + ((t - below) - m) <= k /\ k < t - below
      <4> DEFINE l == k - ((t - below) - m)
      <4>1. l \in 1 .. n /\ b <= l /\ l < b + below /\ l - b + (t - below) = k + (m - b)
        BY <3>2, <1>1, <1>2
      <4>2. s[l] = a[k + (m - b)]
        <5> HIDE DEF l
        <5>1. s[l] = a[l - b + (t - below)]
          BY <4>1, <2>2
        <5> QED
          BY <4>1, <5>1
      <4>3. b <= k /\ k < b + (t - m) /\ ~ (k < b + ((t - below) - m))
        BY <3>2, <1>1, <1>2
      <4> QED
        BY <3>2, <4>2, <4>3
    <3>3. CASE t - below <= k /\ k < t
      <4>1. s[k] = a[k - (t - below) + b]
        BY <3>3, <2>2, <1>1
      <4>2. k - (t - below) + b = k - (t - m)
        BY <1>1
      <4>3. b + (t - m) <= k /\ ~ (k < b + ((t - below) - m)) /\ ~ (k < b + (t - m)) /\ ~ (k < t - below)
        BY <3>3, <1>1, <1>2
      <4> QED
        BY <3>3, <4>1, <4>2, <4>3
    <3>4. CASE k < b \/ t <= k
      <4>1. s[k] = a[k]
        BY <3>4, <2>2, <1>1
      <4> QED
        BY <3>4, <4>1, <1>1, <1>2
    <3> QED
      BY <3>1, <3>2, <3>3, <3>4, <1>1
  <2>6. Rotated(s, b, m, t - below) = Rotated(a, b, m, t)
    BY <2>5, <2>2 DEF Rotated
  <2> QED
    BY <2>1, <2>3, <2>4, <2>6
<1>3. CASE ~ (above > below)
  <2> DEFINE s == Swapped(a, b, m, above)
             c == b + above
  <2>1. SwapShorter(x) = [a |-> s, bottom |-> c, middle |-> m, top |-> t]
    <3>1. x.a = a /\ x.bottom = b /\ x.middle = m /\ x.top = t
      OBVIOUS
    <3>2. SwapShorter(x) = [x EXCEPT !.a = Swapped(@, x.bottom, x.middle, above), !.bottom = @ + above]
      BY <1>t, <1>3, <3>1 DEF SwapShorter
    <3> QED
      BY <3>1, <3>2
  <2>a. b \in Int /\ m \in Int /\ above \in Int /\ 1 <= b /\ b + above <= m /\ m + above <= n + 1
    BY <1>1, <1>3
  <2>2. /\ s \in [1 .. n -> E]
        /\ \A k \in 1 .. n :
              /\ b <= k /\ k < b + above => s[k] = a[k - b + m]
              /\ m <= k /\ k < m + above => s[k] = a[k - m + b]
              /\ k < b \/ (b + above <= k /\ k < m) \/ m + above <= k => s[k] = a[k]
    <3>1. SwapsTo(Swapped(a, b, m, above), a, b, m, above, n, E)
      <4> HIDE DEF above
      <4> QED
        BY <2>a, SwappedIs, Zenon
    <3>2. SwapsTo(s, a, b, m, above, n, E)
      BY <3>1
    <3> HIDE DEF s, above
    <3> QED
      BY <3>2 DEF SwapsTo
  <2> HIDE DEF s
  <2>3. SwapShorter(x) \in Segments(n, E)
    BY <2>1, <2>2, <1>1, <1>3 DEF Segments
  <2>4. SwapShorter(x).top - SwapShorter(x).bottom < x.top - x.bottom
    BY <2>1, <1>t, <1>1
  <2>5. ASSUME NEW k \in 1 .. n
        PROVE  (IF c <= k /\ k < c + (t - m) THEN s[k + (m - c)]
                ELSE IF c + (t - m) <= k /\ k < t THEN s[k - (t - m)] ELSE s[k])
             = (IF b <= k /\ k < b + (t - m) THEN a[k + (m - b)]
                ELSE IF b + (t - m) <= k /\ k < t THEN a[k - (t - m)] ELSE a[k])
    <3>1. CASE b <= k /\ k < c
      <4>1. s[k] = a[k - b + m] /\ k - b + m = k + (m - b)
        BY <3>1, <2>2, <1>1
      <4> QED
        BY <3>1, <4>1, <1>1, <1>t
    <3>2. CASE c <= k /\ k < c + (t - m)
      <4>1. CASE k + (m - c) < m
        BY <4>1, <3>2, <1>1, <1>t
      <4>2. /\ k + (m - c) \in 1 .. n /\ m <= k + (m - c) /\ k + (m - c) < m + above
            /\ (k + (m - c)) - m + b = k - (t - m)
        BY <3>2, <1>1, <1>3
      <4>3. s[k + (m - c)] = a[(k + (m - c)) - m + b]
        BY <4>2, <2>2
      <4>4. ~ (k < b + (t - m)) /\ b + (t - m) <= k /\ k < t
        BY <3>2, <1>1, <1>3
      <4> QED
        BY <3>2, <4>2, <4>3, <4>4
    <3>3. CASE c + (t - m) <= k /\ k < t
      <4>1. /\ k - (t - m) \in 1 .. n /\ b + above <= k - (t - m) /\ k - (t - m) < m
        BY <3>3, <1>1, <1>3
      <4>2. s[k - (t - m)] = a[k - (t - m)]
        BY <4>1, <2>2
      <4>4. ~ (k < b + (t - m)) /\ b + (t - m) <= k /\ k < t /\ ~ (k < c + (t - m))
        BY <3>3, <1>1, <1>3
      <4> QED
        BY <3>3, <4>2, <4>4
    <3>4. CASE k < b \/ t <= k
      <4>1. s[k] = a[k]
        BY <3>4, <2>2, <1>1
      <4> QED
        BY <3>4, <4>1, <1>1, <1>3
    <3> QED
      BY <3>1, <3>2, <3>3, <3>4, <1>1
  <2>6. Rotated(s, c, m, t) = Rotated(a, b, m, t)
    <3> HIDE DEF c
    <3> QED
      BY <2>5, <2>2 DEF Rotated
  <2> QED
    BY <2>1, <2>3, <2>4, <2>6
<1> QED
  BY <1>2, <1>3

-----------------------------------------------------------------------------
(* exchange: all turns                                                     *)

\* If one of the two segments is empty, nothing changes places.
LEMMA RotatedNothing ==
    ASSUME NEW E, NEW n \in Nat, NEW x \in Segments(n, E), ~ (x.bottom < x.middle /\ x.middle < x.top)
    PROVE  Rotated(x.a, x.bottom, x.middle, x.top) = x.a
<1> PICK a \in [1 .. n -> E], b \in Int, m \in Int, t \in Int :
        x = [a |-> a, bottom |-> b, middle |-> m, top |-> t]
  BY DEF Segments
<1>1. 1 <= b /\ b <= m /\ m <= t /\ t <= n + 1 /\ (b = m \/ m = t)
  BY DEF Segments
<1>2. ASSUME NEW k \in 1 .. n
      PROVE  (IF b <= k /\ k < b + (t - m) THEN a[k + (m - b)]
              ELSE IF b + (t - m) <= k /\ k < t THEN a[k - (t - m)] ELSE a[k]) = a[k]
  <2>1. CASE b = m
    <3>1. k + (m - b) = k /\ ~ (b + (t - m) <= k /\ k < t)
      BY <2>1, <1>1
    <3> QED
      BY <3>1
  <2>2. CASE m = t
    <3>1. k - (t - m) = k /\ ~ (b <= k /\ k < b + (t - m))
      BY <2>2, <1>1
    <3> QED
      BY <3>1
  <2> QED
    BY <1>1, <2>1, <2>2
<1>3. Rotated(a, b, m, t) = [k \in 1 .. n |-> a[k]]
  BY <1>2 DEF Rotated
<1> QED
  BY <1>3

\* exchange is the rotation, by enough turns of its loop.
LEMMA ExchangedIs ==
    ASSUME NEW E, NEW n \in Nat, NEW a \in [1 .. n -> E],
           NEW b \in Int, NEW m \in Int, NEW t \in Int, 1 <= b, b <= m, m <= t, t <= n + 1
    PROVE  Exchanged(a, b, m, t) = Rotated(a, b, m, t)
<1> DEFINE N == t - b
           S == Segments(n, E)
           s0 == [a |-> a, bottom |-> b, middle |-> m, top |-> t]
           Body(f) == [i \in 0 .. N |-> IF i = 0 THEN s0 ELSE SwapShorter(f[i - 1])]
           f0 == CHOOSE f : f = Body(f)
           step == [i \in 1 .. N |-> [x \in S |-> SwapShorter(x)]]
<1>1. N \in Nat
  OBVIOUS
<1>2. Exchanged(a, b, m, t) = f0[N].a
  BY DEF Exchanged
<1>3. s0 \in S
  BY DEF Segments
<1>4. ASSUME NEW x \in S, ~ (x.bottom < x.middle /\ x.middle < x.top)
      PROVE  SwapShorter(x) = x
  <2>1. x.bottom \in Int /\ x.middle \in Int /\ x.top \in Int
    BY DEF Segments
  <2>2. x.middle - x.bottom <= 0 \/ x.top - x.middle <= 0
    BY <1>4, <2>1
  <2> QED
    BY <2>2 DEF SwapShorter
<1>5. ASSUME NEW x \in S PROVE SwapShorter(x) \in S
  <2>1. CASE x.bottom < x.middle /\ x.middle < x.top
    BY <2>1, OneTurn
  <2>2. CASE ~ (x.bottom < x.middle /\ x.middle < x.top)
    BY <2>2, <1>4
  <2> QED
    BY <2>1, <2>2
<1>6. step \in [1 .. N -> [S -> S]]
  <2> HIDE DEF S, N
  <2> QED
    BY <1>5
<1>7. \E f : Recurs(f, S, s0, N, step)
  <2> HIDE DEF S, N, step, s0
  <2> QED
    BY <1>1, <1>3, <1>6, Recursion, Zenon
<1>8. PICK g : g \in [0 .. N -> S] /\ g[0] = s0 /\ \A i \in 1 .. N : g[i] = SwapShorter(g[i - 1])
  <2> PICK g : Recurs(g, S, s0, N, step)
    BY <1>7
  <2> HIDE DEF S, s0, N
  <2>1. g \in [0 .. N -> S] /\ g[0] = s0 /\ \A i \in 1 .. N : g[i] = step[i][g[i - 1]]
    BY DEF Recurs
  <2>2. ASSUME NEW i \in 1 .. N PROVE g[i] = SwapShorter(g[i - 1])
    <3>1. i - 1 \in 0 .. N
      BY <1>1
    <3>2. g[i - 1] \in S
      BY <3>1, <2>1
    <3> QED
      BY <2>1, <3>2
  <2> QED
    BY <2>1, <2>2
<1>9. f0 \in [0 .. N -> S] /\ f0[0] = s0 /\ \A i \in 1 .. N : f0[i] = SwapShorter(f0[i - 1])
  <2> HIDE DEF S, N, s0
  <2>1. g = Body(g)
    <3>1. \A i \in 0 .. N : i # 0 => i \in 1 .. N
      BY <1>1
    <3> QED
      BY <1>8, <3>1
  <2>2. f0 = Body(f0)
    <3> HIDE DEF Body
    <3> QED
      BY <2>1
  <2> HIDE DEF f0
  <2>3. DOMAIN f0 = 0 .. N
    BY <2>2
  <2>4. f0[0] = s0
    <3>1. 0 \in 0 .. N
      BY <1>1
    <3> QED
      BY <2>2, <3>1
  <2>5. ASSUME NEW i \in 1 .. N PROVE f0[i] = SwapShorter(f0[i - 1])
    <3>1. i \in 0 .. N /\ i # 0
      BY <1>1
    <3> QED
      BY <2>2, <3>1
  <2>6. \A i \in 0 .. N : f0[i] \in S
    <3> DEFINE P == {i \in 0 .. N : f0[i] \in S}
    <3>1. 0 \in P
      BY <2>4, <1>3, <1>1
    <3>2. \A i \in 1 .. N : i - 1 \in P => i \in P
      BY <2>5, <1>5, <1>1
    <3>3. 0 .. N \subseteq P
      <4> HIDE DEF P
      <4> QED
        BY <1>1, <3>1, <3>2, Inductive
    <3> QED
      BY <3>3
  <2> QED
    BY <2>2, <2>3, <2>4, <2>5, <2>6
<1> DEFINE F(x) == Rotated(x.a, x.bottom, x.middle, x.top)
           Live(x) == x.bottom < x.middle /\ x.middle < x.top
           P == {i \in 0 .. N : F(f0[i]) = F(s0) /\ (Live(f0[i]) => f0[i].top - f0[i].bottom <= N - i)}
<1> HIDE DEF f0
<1>10. 0 \in P
  BY <1>1, <1>9
<1>11. \A i \in 1 .. N : i - 1 \in P => i \in P
  <2> SUFFICES ASSUME NEW i \in 1 .. N, i - 1 \in P PROVE i \in P
    OBVIOUS
  <2>1. i \in 0 .. N /\ i - 1 \in 0 .. N /\ f0[i] = SwapShorter(f0[i - 1])
    BY <1>9, <1>1
  <2>2. PICK x : x = f0[i - 1] /\ x \in S
    BY <2>1, <1>9
  <2>3. F(x) = F(s0) /\ (Live(x) => x.top - x.bottom <= N - (i - 1))
    BY <2>2
  <2>4. CASE ~ Live(x)
    BY <2>1, <2>2, <2>3, <2>4, <1>4
  <2>5. CASE Live(x)
    <3>1. /\ SwapShorter(x) \in Segments(n, E)
          /\ SwapShorter(x).top - SwapShorter(x).bottom < x.top - x.bottom
          /\ F(SwapShorter(x)) = F(x)
      BY <2>5, <2>2, OneTurn
    <3>2. F(f0[i]) = F(s0)
      BY <3>1, <2>1, <2>2, <2>3, Zenon
    <3>3. f0[i].top - f0[i].bottom <= N - i
      <4>1. x.top \in Int /\ x.bottom \in Int /\ SwapShorter(x).top \in Int /\ SwapShorter(x).bottom \in Int
        BY <2>2, <3>1 DEF Segments
      <4>2. x.top - x.bottom <= N - (i - 1)
        BY <2>3, <2>5
      <4>3. SwapShorter(x).top - SwapShorter(x).bottom <= N - i
        <5>1. \A u, v, w, z \in Int : w - z <= N - (i - 1) /\ u - v < w - z => u - v <= N - i
          OBVIOUS
        <5>2. SwapShorter(x).top - SwapShorter(x).bottom < x.top - x.bottom
          BY <3>1
        <5> HIDE DEF P, N, F
        <5> QED
          BY <4>1, <4>2, <5>1, <5>2, Zenon
      <4> QED
        BY <4>3, <2>1, <2>2
    <3> QED
      BY <2>1, <3>2, <3>3
  <2> QED
    BY <2>4, <2>5
<1>12. N \in P
  <2>1. 0 .. N \subseteq P
    <3> HIDE DEF P, N
    <3> QED
      BY <1>1, <1>10, <1>11, Inductive
  <2> QED
    BY <2>1, <1>1
<1>13. PICK x : x = f0[N] /\ x \in S
  BY <1>9, <1>1
<1>14. F(x) = F(s0) /\ (Live(x) => x.top - x.bottom <= N - N)
  BY <1>12, <1>13
<1>15. ~ Live(x)
  <2>1. x.top \in Int /\ x.bottom \in Int /\ x.middle \in Int
    BY <1>13 DEF Segments
  <2> QED
    BY <2>1, <1>14, <1>1
<1>16. F(x) = x.a
  BY <1>13, <1>15, RotatedNothing
<1>17. F(s0) = Rotated(a, b, m, t)
  OBVIOUS
<1> QED
  BY <1>2, <1>13, <1>14, <1>16, <1>17

-----------------------------------------------------------------------------
(* The types of answers                                                    *)

Orderings == {"permute", "require", "return"}
Kinds == {"word", "dashes", "short", "long", "nothing", "value", "rest"}
OptNames == STRING \cup {"?", "word"}
ArgSet == [kind : Kinds, text : Seq(STRING), value : BOOLEAN]
Answers == [opt : OptNames, arg : ArgSet, left : Seq(STRING), next : {0, 1, 2}]
PassStates ==
    [i : Nat \ {0}, letters : Seq(STRING), answers : Seq(Answers), words : Seq(Elements),
     rest : Seq(Elements), stage : {"reading", "done"}]

\* What one option leaves: more letters only of the same element; an argument from the
\* following one only if there is one.
GoodAnswer(a, following) ==
    /\ a \in Answers
    /\ a.next = 2 => following # <<>>
    /\ a.left # <<>> => a.next = 0

\* What GetoptAssumption says of an element of argv.
LEMMA ElementIs ==
    ASSUME NEW e \in Elements
    PROVE  e \in ArgSet /\ (e.kind \in {"short", "long"} => e.text # <<>>)
BY GetoptAssumption DEF ArgSet, Kinds

\* No argument is an argument that an answer may have.
LEMMA NothingIs == Nothing \in ArgSet
BY EmptySeq DEF Nothing, Element, ArgSet, Kinds

\* The two ways an answer is made.
LEMMA AnswerIs ==
    ASSUME NEW op \in OptNames, NEW arg \in ArgSet, NEW left \in Seq(STRING), NEW next \in {0, 1, 2},
           NEW following, next = 2 => following # <<>>, left # <<>> => next = 0
    PROVE  GoodAnswer(Answer(op, arg, left, next), following)
BY DEF GoodAnswer, Answer, Answers

\* An answer that is the last of its element.
LEMMA LastAnswerIs ==
    ASSUME NEW op \in OptNames, NEW arg \in ArgSet, NEW following
    PROVE  GoodAnswer(Answer(op, arg, <<>>, 1), following)
<1>1. <<>> \in Seq(STRING) /\ 1 \in {0, 1, 2} /\ (1 = 2 => following # <<>>) /\ (<<>> # <<>> => 1 = 0)
  BY EmptySeq
<1> QED
  BY <1>1, AnswerIs, Zenon

\* An option that is not accepted is still an answer, and the scan goes on behind it.
LEMMA BadIs ==
    ASSUME NEW left \in Seq(STRING), NEW next \in {0, 1}, NEW following, left # <<>> => next = 0
    PROVE  GoodAnswer(Bad(left, next), following)
<1>1. "?" \in OptNames /\ next \in {0, 1, 2} /\ (next = 2 => following # <<>>)
  BY DEF OptNames
<1> QED
  BY <1>1, NothingIs, AnswerIs DEF Bad

\* A long option is answered, and takes the next element only if there is one.
LEMMA LongOptionIs ==
    ASSUME NEW e \in Elements, e.kind = "long",
           NEW following, following = <<>> \/ \E x \in Elements : following = <<x>>
    PROVE  GoodAnswer(LongOption(e, following), following)
<1> DEFINE name  == e.text[1]
           fits  == IF name \in DOMAIN Abbreviated THEN Abbreviated[name] ELSE <<>>
           exact == name \in DOMAIN LongOpts
           found == IF exact THEN name ELSE fits[1]
<1>1. e.text \in Seq(STRING)
  BY ElementIs DEF ArgSet
<1>e. <<>> \in Seq(STRING)
  BY EmptySeq
<1>2. CASE ~ exact /\ Len(fits) # 1
  <2>1. LongOption(e, following) = Bad(<<>>, 1)
    BY <1>2 DEF LongOption
  <2> QED
    BY <2>1, <1>e, BadIs
<1>3. CASE ~ (~ exact /\ Len(fits) # 1)
  <2>1. found \in OptNames
    <3>1. CASE exact
      BY <3>1, GetoptAssumption DEF OptNames
    <3>2. CASE ~ exact
      <4>1. Len(fits) = 1
        BY <3>2, <1>3
      <4>2. name \in DOMAIN Abbreviated
        <5>1. Len(<<>>) = 0
          OBVIOUS
        <5> QED
          BY <4>1, <5>1
      <4>3. fits \in Seq(DOMAIN LongOpts)
        BY <4>2, GetoptAssumption
      <4>4. fits[1] \in DOMAIN LongOpts
        <5> HIDE DEF fits
        <5> QED
          BY <4>1, <4>3, ElementOfSeq
      <4> QED
        BY <3>2, <4>4, GetoptAssumption DEF OptNames
    <3> QED
      BY <3>1, <3>2
  <2>2. LongOption(e, following) =
            IF e.value THEN IF LongOpts[found] = "no" THEN Bad(<<>>, 1)
                            ELSE Answer(found, Element("value", e.text, TRUE), <<>>, 1)
            ELSE IF LongOpts[found] # "required" THEN Answer(found, Nothing, <<>>, 1)
            ELSE IF following = <<>> THEN Bad(<<>>, 1)
            ELSE Answer(found, following[1], <<>>, 2)
    BY <1>3 DEF LongOption
  <2> HIDE DEF found
  <2>3. GoodAnswer(Bad(<<>>, 1), following)
    BY <1>e, BadIs
  <2>4. GoodAnswer(Answer(found, Element("value", e.text, TRUE), <<>>, 1), following)
    <3>1. Element("value", e.text, TRUE) \in ArgSet
      BY <1>1 DEF Element, ArgSet, Kinds
    <3> QED
      BY <2>1, <3>1, LastAnswerIs, Zenon
  <2>5. GoodAnswer(Answer(found, Nothing, <<>>, 1), following)
    BY <2>1, NothingIs, LastAnswerIs, Zenon
  <2>6. ASSUME following # <<>> PROVE GoodAnswer(Answer(found, following[1], <<>>, 2), following)
    <3>1. following[1] \in ArgSet
      BY <2>6, ElementIs
    <3> QED
      BY <2>1, <2>6, <3>1, <1>e, AnswerIs
  <2> QED
    BY <2>2, <2>3, <2>4, <2>5, <2>6
<1> QED
  BY <1>2, <1>3

\* So is an option character, and what is left of its group is read next.
LEMMA ShortOptionIs ==
    ASSUME NEW letters \in Seq(STRING), letters # <<>>,
           NEW following, following = <<>> \/ \E x \in Elements : following = <<x>>
    PROVE  GoodAnswer(ShortOption(letters, following), following)
<1> DEFINE c    == Head(letters)
           rest == Tail(letters)
           here == IF rest = <<>> THEN 1 ELSE 0
<1>1. c \in OptNames /\ rest \in Seq(STRING)
  BY HeadTailProperties DEF OptNames
<1>e. <<>> \in Seq(STRING)
  BY EmptySeq
<1>2. ShortOption(letters, following) =
          IF c \notin DOMAIN ShortOpts THEN Bad(rest, here)
          ELSE IF ShortOpts[c] = "no" THEN Answer(c, Nothing, rest, here)
          ELSE IF rest # <<>> THEN Answer(c, Element("rest", rest, FALSE), <<>>, 1)
          ELSE IF ShortOpts[c] = "optional" THEN Answer(c, Nothing, <<>>, 1)
          ELSE IF following = <<>> THEN Bad(<<>>, 1)
          ELSE Answer(c, following[1], <<>>, 2)
  BY DEF ShortOption
<1>h. here \in {0, 1} /\ here \in {0, 1, 2} /\ (rest # <<>> => here = 0) /\ here # 2
  OBVIOUS
<1> HIDE DEF c, rest, here
<1>3. GoodAnswer(Bad(rest, here), following) /\ GoodAnswer(Bad(<<>>, 1), following)
  BY <1>1, <1>e, <1>h, BadIs
<1>4. GoodAnswer(Answer(c, Nothing, rest, here), following) /\ GoodAnswer(Answer(c, Nothing, <<>>, 1), following)
  <2>1. here \in {0, 1, 2} /\ (here = 2 => following # <<>>) /\ (rest # <<>> => here = 0)
    BY <1>h
  <2>2. GoodAnswer(Answer(c, Nothing, rest, here), following)
    BY <1>1, <2>1, NothingIs, AnswerIs, Zenon
  <2> QED
    BY <1>1, <2>2, NothingIs, LastAnswerIs, Zenon
<1>5. GoodAnswer(Answer(c, Element("rest", rest, FALSE), <<>>, 1), following)
  <2>1. Element("rest", rest, FALSE) \in ArgSet
    BY <1>1 DEF Element, ArgSet, Kinds
  <2> QED
    BY <1>1, <2>1, LastAnswerIs, Zenon
<1>6. ASSUME following # <<>> PROVE GoodAnswer(Answer(c, following[1], <<>>, 2), following)
  <2>1. following[1] \in ArgSet
    BY <1>6, ElementIs
  <2> QED
    BY <1>1, <1>6, <2>1, <1>e, AnswerIs
<1> QED
  BY <1>2, <1>3, <1>4, <1>5, <1>6

\* So is every option.
LEMMA OneOptionIs ==
    ASSUME NEW e \in Elements, NEW letters \in Seq(STRING),
           letters = <<>> => e.kind \in {"short", "long"},
           NEW following, following = <<>> \/ \E x \in Elements : following = <<x>>
    PROVE  GoodAnswer(OneOption(e, letters, following), following)
<1>1. CASE e.kind = "long"
  BY <1>1, LongOptionIs DEF OneOption
<1>2. CASE e.kind # "long"
  <2> DEFINE l == IF letters = <<>> THEN e.text ELSE letters
  <2>1. l \in Seq(STRING) /\ l # <<>>
    BY <1>2, ElementIs DEF ArgSet
  <2>2. OneOption(e, letters, following) = ShortOption(l, following)
    BY <1>2 DEF OneOption
  <2> HIDE DEF l
  <2> QED
    BY <2>1, <2>2, ShortOptionIs
<1> QED
  BY <1>1, <1>2

-----------------------------------------------------------------------------
(* The pass that moves nothing                                             *)

Behind(args, i) == IF i < Len(args) THEN <<args[i + 1]>> ELSE <<>>

\* What may be an argument of the i-th element is the next one or nothing.
LEMMA FollowingIs ==
    ASSUME NEW g \in Seq(Elements), NEW i \in Nat
    PROVE  /\ Behind(g, i) = <<>> \/ \E x \in Elements : Behind(g, i) = <<x>>
           /\ Behind(g, i) # <<>> => i < Len(g)
<1>1. CASE i < Len(g)
  <2>1. i + 1 \in 1 .. Len(g)
    BY <1>1
  <2>2. g[i + 1] \in Elements
    BY <2>1, ElementOfSeq
  <2> QED
    BY <1>1, <2>2 DEF Behind
<1>2. CASE ~ (i < Len(g))
  BY <1>2 DEF Behind
<1> QED
  BY <1>1, <1>2

\* What one step of the pass makes of p: it is past the last one; a "--", with what is
\* behind it; a word; an option.
PastLast(p) == [p EXCEPT !.stage = "done"]
RestFrom(g, p, i) == [p EXCEPT !.rest = SubSeq(g, i, Len(g)), !.stage = "done"]
WordSkipped(g, p) == [p EXCEPT !.i = @ + 1, !.words = Append(@, g[p.i])]
WordRead(g, p) == [p EXCEPT !.i = @ + 1, !.answers = Append(@, Answer("word", g[p.i], <<>>, 1))]
OptionRead(g, p) ==
    LET a == OneOption(g[p.i], p.letters, Behind(g, p.i))
    IN  [p EXCEPT !.i = @ + a.next, !.letters = a.left, !.answers = Append(@, a)]

\* The pass ends behind the last element.
LEMMA FurtherPastLast ==
    ASSUME NEW g, NEW o, NEW p, p.stage = "reading", p.i > Len(g)
    PROVE  Further(g, o, p) = PastLast(p)
BY DEF Further, PastLast

\* The pass ends at a "--".
LEMMA FurtherDashes ==
    ASSUME NEW g, NEW o, NEW p, p.stage = "reading", ~ (p.i > Len(g)), p.letters = <<>>, g[p.i].kind = "dashes"
    PROVE  Further(g, o, p) = RestFrom(g, p, p.i + 1)
BY DEF Further, RestFrom

\* A word, under the three orderings.
LEMMA FurtherWord ==
    ASSUME NEW g, NEW o, NEW p, p.stage = "reading", ~ (p.i > Len(g)), p.letters = <<>>, g[p.i].kind = "word"
    PROVE  /\ o = "permute" => Further(g, o, p) = WordSkipped(g, p)
           /\ o = "require" => Further(g, o, p) = RestFrom(g, p, p.i)
           /\ o = "return" => Further(g, o, p) = WordRead(g, p)
<1>1. Further(g, o, p) = CASE o = "permute" -> WordSkipped(g, p)
                           [] o = "require" -> RestFrom(g, p, p.i)
                           [] o = "return" -> WordRead(g, p)
  BY DEF Further, IsWord, WordSkipped, RestFrom, WordRead
<1> QED
  BY <1>1

\* An option.
LEMMA FurtherOption ==
    ASSUME NEW g, NEW o, NEW p, p.stage = "reading", ~ (p.i > Len(g)),
           p.letters # <<>> \/ g[p.i].kind \notin {"dashes", "word"}
    PROVE  Further(g, o, p) = OptionRead(g, p)
BY DEF Further, IsWord, OptionRead, Behind

\* A step of the pass leads to a state of the pass.
LEMMA FurtherIs ==
    ASSUME NEW g \in Seq(Elements), NEW o \in Orderings, NEW p \in PassStates
    PROVE  Further(g, o, p) \in PassStates
<1>o. CASE p.stage = "done"
  BY <1>o DEF Further
<1>n. CASE p.stage = "reading"
  <2>1. p.i \in Nat \ {0} /\ p.i + 1 \in Nat \ {0} /\ Len(g) \in Nat
    BY DEF PassStates
  <2>2. CASE p.i > Len(g)
    <3>1. Further(g, o, p) = PastLast(p)
      BY <1>n, <2>2, FurtherPastLast, Zenon
    <3> QED
      BY <3>1 DEF PassStates, PastLast
  <2>3. CASE ~ (p.i > Len(g))
    <3>1. p.i \in 1 .. Len(g)
      BY <2>1, <2>3
    <3>2. g[p.i] \in Elements
      BY <3>1, ElementOfSeq
    <3>3. SubSeq(g, p.i + 1, Len(g)) \in Seq(Elements) /\ SubSeq(g, p.i, Len(g)) \in Seq(Elements)
      <4>1. \A i \in p.i + 1 .. Len(g) : g[i] \in Elements
        BY <3>1, ElementOfSeq
      <4>2. \A i \in p.i .. Len(g) : g[i] \in Elements
        BY <3>1, ElementOfSeq
      <4> QED
        BY <4>1, <4>2, <3>1, SubSeqProperties
    <3>4. CASE p.letters = <<>> /\ g[p.i].kind = "dashes"
      <4>1. Further(g, o, p) = RestFrom(g, p, p.i + 1)
        BY <1>n, <2>3, <3>4, FurtherDashes, Zenon
      <4> QED
        BY <4>1, <3>3 DEF PassStates, RestFrom
    <3>5. CASE p.letters = <<>> /\ g[p.i].kind = "word"
      <4>1. CASE o = "permute"
        <5>1. Further(g, o, p) = WordSkipped(g, p)
          BY <1>n, <2>3, <3>5, <4>1, FurtherWord, Zenon
        <5>2. Append(p.words, g[p.i]) \in Seq(Elements)
          BY <3>2, AppendProperties DEF PassStates
        <5> QED
          BY <5>1, <5>2, <2>1 DEF PassStates, WordSkipped
      <4>2. CASE o = "require"
        <5>1. Further(g, o, p) = RestFrom(g, p, p.i)
          BY <1>n, <2>3, <3>5, <4>2, FurtherWord, Zenon
        <5> QED
          BY <5>1, <3>3 DEF PassStates, RestFrom
      <4>3. CASE o = "return"
        <5>1. Further(g, o, p) = WordRead(g, p)
          BY <1>n, <2>3, <3>5, <4>3, FurtherWord, Zenon
        <5>2. Answer("word", g[p.i], <<>>, 1) \in Answers
          <6>1. "word" \in OptNames /\ g[p.i] \in ArgSet
            BY <3>2, ElementIs DEF OptNames
          <6>2. GoodAnswer(Answer("word", g[p.i], <<>>, 1), <<>>)
            BY <6>1, LastAnswerIs, Zenon
          <6> QED
            BY <6>2 DEF GoodAnswer
        <5>3. Append(p.answers, Answer("word", g[p.i], <<>>, 1)) \in Seq(Answers)
          BY <5>2, AppendProperties DEF PassStates
        <5> QED
          BY <5>1, <5>3, <2>1 DEF PassStates, WordRead
      <4> QED
        BY <4>1, <4>2, <4>3 DEF Orderings
    <3>6. CASE p.letters # <<>> \/ g[p.i].kind \notin {"dashes", "word"}
      <4> DEFINE a == OneOption(g[p.i], p.letters, Behind(g, p.i))
      <4>1. Further(g, o, p) = OptionRead(g, p)
        BY <1>n, <2>3, <3>6, FurtherOption, Zenon
      <4>2. p.letters \in Seq(STRING) /\ (p.letters = <<>> => g[p.i].kind \in {"short", "long"})
        BY <3>2, <3>6, GetoptAssumption DEF PassStates
      <4>3. a \in Answers
        BY <2>1, <3>2, <4>2, FollowingIs, OneOptionIs DEF GoodAnswer
      <4>4. a.next \in {0, 1, 2} /\ a.left \in Seq(STRING)
        BY <4>3 DEF Answers
      <4>5. Append(p.answers, a) \in Seq(Answers)
        BY <4>3, AppendProperties DEF PassStates
      <4>6. p.i + a.next \in Nat \ {0}
        BY <4>4, <2>1
      <4>7. OptionRead(g, p) = [p EXCEPT !.i = @ + a.next, !.letters = a.left, !.answers = Append(@, a)]
        BY DEF OptionRead
      <4> HIDE DEF a
      <4> QED
        BY <4>1, <4>4, <4>5, <4>6, <4>7, ZenonT(40) DEF PassStates
    <3> QED
      BY <3>4, <3>5, <3>6
  <2> QED
    BY <2>2, <2>3
<1> QED
  BY <1>o, <1>n DEF PassStates

\* The pass starts in a state of the pass.
LEMMA PassStartIs == PassStart \in PassStates
BY EmptySeq DEF PassStart, PassStates

\* The states of the pass are a recursive function of the number of its steps.
LEMMA PassIs ==
    ASSUME NEW g \in Seq(Elements), NEW o \in Orderings
    PROVE  /\ Pass(g, o, 0) = PassStart
           /\ \A n \in Nat : Pass(g, o, n) \in PassStates /\ Pass(g, o, n + 1) = Further(g, o, Pass(g, o, n))
<1> DEFINE step == [p \in PassStates |-> Further(g, o, p)]
           Body(f) == [k \in Nat |-> IF k = 0 THEN PassStart ELSE Further(g, o, f[k - 1])]
           f0 == CHOOSE f : f = Body(f)
<1>1. \A n : Pass(g, o, n) = f0[n]
  BY DEF Pass
<1>2. step \in [PassStates -> PassStates]
  BY FurtherIs
<1>3. PICK f : Iterates(f, PassStates, PassStart, step)
  <2> HIDE DEF step
  <2> QED
    BY <1>2, PassStartIs, Iteration, Zenon
<1>4. f \in [Nat -> PassStates] /\ f[0] = PassStart /\ \A i \in Nat : f[i + 1] = Further(g, o, f[i])
  BY <1>3 DEF Iterates
<1>5. f = Body(f)
  <2>1. ASSUME NEW k \in Nat, k # 0 PROVE f[k] = Further(g, o, f[k - 1])
    <3>1. k - 1 \in Nat /\ (k - 1) + 1 = k
      BY <2>1
    <3> QED
      BY <3>1, <1>4
  <2> QED
    BY <1>4, <2>1
<1>6. f0 = Body(f0)
  <2> HIDE DEF Body
  <2> QED
    BY <1>5
<1> HIDE DEF f0
<1>7. f0[0] = PassStart
  BY <1>6
<1>8. ASSUME NEW i \in Nat PROVE f0[i + 1] = Further(g, o, f0[i])
  <2>1. i + 1 \in Nat /\ i + 1 # 0 /\ (i + 1) - 1 = i
    OBVIOUS
  <2>2. f0[i + 1] = Further(g, o, f0[(i + 1) - 1])
    BY <2>1, <1>6
  <2> QED
    BY <2>1, <2>2
<1>9. ASSUME NEW n \in Nat PROVE f0[n] \in PassStates
  <2> DEFINE P == {i \in 0 .. n : f0[i] \in PassStates}
  <2>1. 0 \in P
    BY <1>7, PassStartIs
  <2>2. \A i \in 1 .. n : i - 1 \in P => i \in P
    <3> SUFFICES ASSUME NEW i \in 1 .. n, i - 1 \in P PROVE i \in P
      OBVIOUS
    <3>1. i - 1 \in Nat /\ (i - 1) + 1 = i /\ i \in 0 .. n
      OBVIOUS
    <3>2. f0[i] = Further(g, o, f0[i - 1])
      BY <3>1, <1>8
    <3> QED
      BY <3>1, <3>2, FurtherIs
  <2>3. 0 .. n \subseteq P
    <3> HIDE DEF P
    <3> QED
      BY <2>1, <2>2, Inductive
  <2>4. n \in 0 .. n
    OBVIOUS
  <2> QED
    BY <2>3, <2>4
<1> QED
  BY <1>1, <1>7, <1>8, <1>9

-----------------------------------------------------------------------------
(* The pass over words                                                     *)

\* The same elements in two places.
LEMMA SameSubSeq ==
    ASSUME NEW S, NEW a \in Seq(S), NEW b \in Seq(S), NEW i \in Int, NEW j \in Int, NEW d \in Int,
           1 <= i, j <= Len(a), 1 <= i - d, j - d <= Len(b), \A k \in i .. j : a[k] = b[k - d]
    PROVE  SubSeq(a, i, j) = SubSeq(b, i - d, j - d)
<1> DEFINE x == SubSeq(a, i, j)
           y == SubSeq(b, i - d, j - d)
<1>0. Len(a) \in Nat /\ Len(b) \in Nat
  BY LenProperties
<1>1. \A k \in i .. j : a[k] \in S
  BY <1>0, ElementOfSeq
<1>2. \A k \in i - d .. j - d : b[k] \in S
  BY <1>0, ElementOfSeq
<1>3. /\ x \in Seq(S) /\ Len(x) = (IF i <= j THEN j - i + 1 ELSE 0)
      /\ \A k \in 1 .. j - i + 1 : x[k] = a[i + k - 1]
  BY <1>1, SubSeqProperties
<1>4. /\ y \in Seq(S) /\ Len(y) = (IF i - d <= j - d THEN (j - d) - (i - d) + 1 ELSE 0)
      /\ \A k \in 1 .. (j - d) - (i - d) + 1 : y[k] = b[(i - d) + k - 1]
  <2> DEFINE id == i - d
             jd == j - d
  <2>1. id \in Int /\ jd \in Int /\ \A k \in id .. jd : b[k] \in S
    BY <1>2
  <2> HIDE DEF id, jd
  <2>2. /\ SubSeq(b, id, jd) \in Seq(S) /\ Len(SubSeq(b, id, jd)) = (IF id <= jd THEN jd - id + 1 ELSE 0)
        /\ \A k \in 1 .. jd - id + 1 : SubSeq(b, id, jd)[k] = b[id + k - 1]
    BY <2>1, SubSeqProperties
  <2> QED
    BY <2>2 DEF id, jd
<1> HIDE DEF x, y
<1>5. Len(x) = Len(y)
  BY <1>3, <1>4
<1>6. ASSUME NEW k \in 1 .. Len(x) PROVE x[k] = y[k]
  <2>1. i <= j /\ k \in 1 .. j - i + 1 /\ k \in 1 .. (j - d) - (i - d) + 1
    BY <1>3, <1>6
  <2>2. x[k] = a[i + k - 1] /\ y[k] = b[(i - d) + k - 1]
    BY <2>1, <1>3, <1>4
  <2>3. i + k - 1 \in i .. j /\ (i + k - 1) - d = (i - d) + k - 1
    BY <2>1
  <2> QED
    BY <2>2, <2>3
<1>7. x = y
  BY <1>3, <1>4, <1>5, <1>6, SeqEqual
<1> QED
  BY <1>7 DEF x, y

\* OptNames for the two operators: the provers take them apart where they see them.
Joined(a, b) == a \o b
Longer(a, e) == Append(a, e)

\* An element at the end of two sequences.
LEMMA AppendBehind ==
    ASSUME NEW S, NEW a \in Seq(S), NEW b \in Seq(S), NEW e \in S
    PROVE  Longer(Joined(a, b), e) = Joined(a, Longer(b, e))
<1> DEFINE c == <<e>>
<1>1. c \in Seq(S)
  OBVIOUS
<1>2. a \o b \in Seq(S)
  BY ConcatProperties
<1>3. Append(a \o b, e) = (a \o b) \o c /\ Append(b, e) = b \o c
  BY <1>2, AppendIsConcat
<1> HIDE DEF c
<1>4. (a \o b) \o c = a \o (b \o c)
  BY <1>1, ConcatAssociative
<1> QED
  BY <1>3, <1>4 DEF Joined, Longer

\* A stretch of g, one longer.
LEMMA AppendNext ==
    ASSUME NEW S, NEW a \in Seq(S), NEW g \in Seq(S), NEW i \in 1 .. Len(g), NEW j \in i .. Len(g)
    PROVE  Append(a \o SubSeq(g, i, j - 1), g[j]) = a \o SubSeq(g, i, j)
<1> DEFINE b == SubSeq(g, i, j - 1)
<1>1. Len(g) \in Nat /\ i \in Int /\ j - 1 \in Int /\ j \in 1 .. Len(g) /\ \A l \in i .. j - 1 : l \in 1 .. Len(g)
  BY LenProperties
<1>2. \A l \in i .. j - 1 : g[l] \in S
  BY <1>1, ElementOfSeq
<1>3. b \in Seq(S)
  BY <1>1, <1>2, SubSeqProperties
<1>4. g[j] \in S
  BY <1>1, ElementOfSeq
<1>5. SubSeq(g, i, j) = Append(b, g[j])
  <2>1. SubSeq(g, i, j) = b \o <<g[j]>>
    BY SubSeqRecursiveSecond
  <2> QED
    BY <1>3, <1>4, <2>1, AppendIsConcat
<1> DEFINE e == g[j]
<1>6. e \in S
  BY <1>4
<1> HIDE DEF b, e
<1>7. Longer(Joined(a, b), e) = Joined(a, Longer(b, e))
  BY <1>3, <1>6, AppendBehind
<1>8. SubSeq(g, i, j) = Longer(b, e)
  BY <1>5 DEF Longer, e
<1>9. Append(a \o b, e) = Longer(Joined(a, b), e)
  BY DEF Longer, Joined
<1>10. a \o SubSeq(g, i, j) = Joined(a, Longer(b, e))
  BY <1>8 DEF Joined
<1>11. Append(a \o b, e) = a \o SubSeq(g, i, j)
  BY <1>7, <1>9, <1>10, Zenon
<1> QED
  BY <1>11 DEF b, e

\* The pass p, had it got to i with these words.
MovedOn(p, i, words) == [p EXCEPT !.i = i, !.words = words]

\* A pass that has gone over words, field by field.
LEMMA MovedOnIs ==
    ASSUME NEW p \in PassStates, NEW i, NEW words
    PROVE  MovedOn(p, i, words) =
               [i |-> i, letters |-> p.letters, answers |-> p.answers, words |-> words, rest |-> p.rest,
                stage |-> p.stage]
<1> DEFINE q == [p EXCEPT !.i = i]
<1>1. q = [i |-> i, letters |-> p.letters, answers |-> p.answers, words |-> p.words, rest |-> p.rest,
           stage |-> p.stage]
  BY DEF PassStates
<1> HIDE DEF q
<1>2. [q EXCEPT !.words = words] =
          [i |-> i, letters |-> p.letters, answers |-> p.answers, words |-> words, rest |-> p.rest,
           stage |-> p.stage]
  BY <1>1
<1> QED
  BY <1>2 DEF q, MovedOn

\* The pass goes over words one by one.
LEMMA PassWords ==
    ASSUME NEW g \in Seq(Elements), NEW n \in Nat, NEW p, p = Pass(g, "permute", n),
           p.stage = "reading", p.letters = <<>>, NEW stop \in Int, p.i <= stop, stop <= Len(g) + 1,
           \A i \in p.i .. stop - 1 : IsWord(g[i])
    PROVE  Pass(g, "permute", n + (stop - p.i)) =
               MovedOn(p, stop, p.words \o SubSeq(g, p.i, stop - 1))
<1>0. "permute" \in Orderings
  BY DEF Orderings
<1>1. p \in PassStates
  BY <1>0, PassIs
<1>2. PICK i \in Nat \ {0}, replies \in Seq(Answers), words \in Seq(Elements), rest \in Seq(Elements) :
        p = [i |-> i, letters |-> <<>>, answers |-> replies, words |-> words, rest |-> rest, stage |-> "reading"]
  BY <1>1 DEF PassStates
<1> DEFINE At(k) == [i |-> i + k, letters |-> <<>>, answers |-> replies,
                     words |-> words \o SubSeq(g, i, i + k - 1), rest |-> rest, stage |-> "reading"]
           N == stop - i
           P == {k \in 0 .. N : Pass(g, "permute", n + k) = At(k)}
<1>3. N \in Nat /\ Len(g) \in Nat /\ p.i = i
  BY <1>2, LenProperties
<1>4. 0 \in P
  <2>1. SubSeq(g, i, i + 0 - 1) = <<>>
    <3>1. i + 0 - 1 < i /\ i + 0 - 1 \in Int
      OBVIOUS
    <3> QED
      BY <3>1, SubSeqEmpty
  <2>2. words \o <<>> = words
    BY ConcatEmptySeq
  <2>3. At(0) = p
    BY <1>2, <2>1, <2>2
  <2> QED
    BY <2>3, <1>3
<1>5. \A k \in 1 .. N : k - 1 \in P => k \in P
  <2> SUFFICES ASSUME NEW k \in 1 .. N, k - 1 \in P PROVE k \in P
    OBVIOUS
  <2> DEFINE q == At(k - 1)
             j == i + (k - 1)
  <2>1. Pass(g, "permute", n + (k - 1)) = q
    OBVIOUS
  <2>2. n + (k - 1) \in Nat /\ (n + (k - 1)) + 1 = n + k
    BY <1>3
  <2>3. Pass(g, "permute", n + k) = Further(g, "permute", q)
    BY <1>0, <2>1, <2>2, PassIs
  <2>4. j \in 1 .. Len(g) /\ j \in i .. stop - 1 /\ j \in i .. Len(g)
    BY <1>3
  <2>5. q.stage = "reading" /\ ~ (q.i > Len(g)) /\ q.letters = <<>> /\ q.i = j
    BY <2>4, <1>3
  <2>6. g[j].kind = "word" /\ g[j] \in Elements
    BY <2>4, <1>3, ElementOfSeq DEF IsWord
  <2>7. Further(g, "permute", q) = WordSkipped(g, q)
    <3> HIDE DEF q, j
    <3> QED
      BY <2>5, <2>6, FurtherWord
  <2>8. q.words \in Seq(Elements) /\ q.words = words \o SubSeq(g, i, j - 1) /\ SubSeq(g, i, j - 1) \in Seq(Elements)
    <3>1. \A l \in i .. j - 1 : g[l] \in Elements
      BY <2>4, <1>3, ElementOfSeq
    <3>2. SubSeq(g, i, j - 1) \in Seq(Elements)
      <4> HIDE DEF j
      <4> QED
        BY <2>4, <3>1, SubSeqProperties
    <3> DEFINE b == SubSeq(g, i, j - 1)
               w == words \o b
    <3>3. w \in Seq(Elements)
      <4>1. b \in Seq(Elements)
        BY <3>2
      <4> HIDE DEF b
      <4> QED
        BY <4>1, ConcatProperties
    <3>4. q.words = w
      BY SMTT(30)
    <3> HIDE DEF w, q
    <3> QED
      BY <3>2, <3>3, <3>4 DEF w
  <2>9. Append(q.words, g[j]) = words \o SubSeq(g, i, i + k - 1)
    <3> HIDE DEF q
    <3>1. j = i + k - 1 /\ i \in 1 .. Len(g)
      BY <2>4, <1>3
    <3> HIDE DEF j
    <3>2. Append(words \o SubSeq(g, i, j - 1), g[j]) = words \o SubSeq(g, i, j)
      BY <2>4, <3>1, AppendNext, ZenonT(40)
    <3> QED
      BY <2>8, <3>1, <3>2
  <2>10. WordSkipped(g, q) = At(k)
    <3>1. WordSkipped(g, q) = [q EXCEPT !.i = j + 1, !.words = Append(q.words, g[j])]
      BY <2>5 DEF WordSkipped
    <3>2. j + 1 = i + k
      OBVIOUS
    <3> HIDE DEF j
    <3> QED
      BY <3>1, <3>2, <2>9
  <2> QED
    BY <2>3, <2>7, <2>10
<1>6. N \in P
  <2>1. 0 .. N \subseteq P
    <3> HIDE DEF P, N
    <3> QED
      BY <1>3, <1>4, <1>5, Inductive
  <2>2. N \in 0 .. N
    BY <1>3
  <2> HIDE DEF P, N
  <2> QED
    BY <2>1, <2>2
<1>7. At(N) = MovedOn(p, stop, p.words \o SubSeq(g, p.i, stop - 1))
  <2>1. i + N = stop /\ i + N - 1 = stop - 1
    OBVIOUS
  <2>2. At(N) = [i |-> stop, letters |-> <<>>, answers |-> replies,
                 words |-> words \o SubSeq(g, i, stop - 1), rest |-> rest, stage |-> "reading"]
    <3> HIDE DEF N
    <3> QED
      BY <2>1
  <2>3. p.i = i /\ p.words = words /\ p.letters = <<>> /\ p.answers = replies /\ p.rest = rest /\ p.stage = "reading"
    BY <1>2
  <2> DEFINE w == p.words \o SubSeq(g, p.i, stop - 1)
  <2>4. w = words \o SubSeq(g, i, stop - 1)
    BY <2>3, Zenon
  <2> HIDE DEF w, At
  <2>5. MovedOn(p, stop, w) =
            [i |-> stop, letters |-> p.letters, answers |-> p.answers, words |-> w, rest |-> p.rest, stage |-> p.stage]
    BY <1>1, MovedOnIs, Zenon
  <2>6. MovedOn(p, stop, w) = At(N)
    BY <2>2, <2>3, <2>4, <2>5, Zenon
  <2> QED
    BY <2>6 DEF w
<1> QED
  BY <1>6, <1>7, <1>3

-----------------------------------------------------------------------------
(* What exchange does to a scan                                            *)

Scans == [argv : {a \in Seq(Elements) : Len(a) = Len(given)}, optind : Int, first : Int, last : Int]

\* The marks are in order.
MarksInOrder(s) == 1 <= s.first /\ s.first <= s.last /\ s.last <= s.optind /\ s.optind <= argc

\* x is s with its words before optind, what was there moved before them.
WordsMoved(s, x) ==
    /\ x \in Scans /\ x.optind = s.optind /\ x.first = s.optind - (s.last - s.first)
    /\ \A k \in x.first .. s.optind - 1 : x.argv[k] = s.argv[k - (s.optind - s.last)]
    /\ \A k \in s.optind .. Len(given) : x.argv[k] = s.argv[k]

\* exchange moves the words behind the options read since, and keeps both in their order.
LEMMA ExchangeIs ==
    ASSUME given \in Seq(Elements), NEW s \in Scans, MarksInOrder(s)
    PROVE  WordsMoved(s, Exchange(s)) /\ Exchange(s).last = s.optind
<1> PICK a \in Seq(Elements), t \in Int, b \in Int, m \in Int :
        Len(a) = Len(given) /\ s = [argv |-> a, optind |-> t, first |-> b, last |-> m]
  BY DEF Scans
<1> DEFINE n == Len(given)
           r == Rotated(a, b, m, t)
<1>1. n \in Nat /\ a \in [1 .. n -> Elements] /\ DOMAIN a = 1 .. n
  BY LenProperties
<1>2. 1 <= b /\ b <= m /\ m <= t /\ t <= n + 1
  BY DEF MarksInOrder, argc
<1>3. Exchanged(a, b, m, t) = r
  <2> HIDE DEF n
  <2> QED
    BY <1>1, <1>2, ExchangedIs, ZenonT(40)
<1> DEFINE x == [argv |-> r, optind |-> t, first |-> b + (t - m), last |-> t]
<1>4. Exchange(s) = x
  <2> HIDE DEF r
  <2> DEFINE f == Exchanged(a, b, m, t)
  <2>1. f = r
    BY <1>3
  <2>2. Exchange(s) = [[[s EXCEPT !.argv = f] EXCEPT !.first = b + (t - m)] EXCEPT !.last = t]
    BY DEF Exchange
  <2> HIDE DEF f
  <2> DEFINE y == [s EXCEPT !.argv = f]
             z == [y EXCEPT !.first = b + (t - m)]
  <2>3. y = [argv |-> f, optind |-> t, first |-> b, last |-> m]
    OBVIOUS
  <2> HIDE DEF y
  <2>4. z = [argv |-> f, optind |-> t, first |-> b + (t - m), last |-> m]
    BY <2>3
  <2> HIDE DEF z
  <2>5. [z EXCEPT !.last = t] = x
    BY <2>1, <2>4
  <2> QED
    BY <2>2, <2>5 DEF y, z
<1>5. r = [k \in 1 .. n |-> IF b <= k /\ k < b + (t - m) THEN a[k + (m - b)]
                            ELSE IF b + (t - m) <= k /\ k < t THEN a[k - (t - m)] ELSE a[k]]
  BY <1>1 DEF Rotated
<1>6. \A k \in 1 .. n : r[k] \in Elements
  <2> SUFFICES ASSUME NEW k \in 1 .. n PROVE r[k] \in Elements
    OBVIOUS
  <2>1. r[k] = IF b <= k /\ k < b + (t - m) THEN a[k + (m - b)]
               ELSE IF b + (t - m) <= k /\ k < t THEN a[k - (t - m)] ELSE a[k]
    BY <1>5
  <2>2. b <= k /\ k < b + (t - m) => k + (m - b) \in 1 .. n
    BY <1>1, <1>2
  <2>3. b + (t - m) <= k /\ k < t => k - (t - m) \in 1 .. n
    BY <1>1, <1>2
  <2> QED
    BY <2>1, <2>2, <2>3, <1>1
<1>7. r \in Seq(Elements) /\ Len(r) = n
  <2>1. r \in [1 .. n -> Elements]
    BY <1>5, <1>6
  <2> HIDE DEF r
  <2>2. r \in Seq(Elements)
    BY <1>1, <2>1, SeqDef
  <2>3. Len(r) = n
    <3>1. DOMAIN r = 1 .. Len(r) /\ Len(r) \in Nat
      BY <2>2, LenProperties
    <3>2. DOMAIN r = 1 .. n
      BY <2>1
    <3>3. \A p, q \in Nat : 1 .. p = 1 .. q => p <= q
      <4> SUFFICES ASSUME NEW p \in Nat, NEW q \in Nat, 1 .. p = 1 .. q, ~ (p <= q) PROVE FALSE
        OBVIOUS
      <4>1. p \in 1 .. p /\ p \notin 1 .. q
        OBVIOUS
      <4> QED
        BY <4>1
    <3>4. Len(r) <= n /\ n <= Len(r)
      <4> HIDE DEF n
      <4> QED
        BY <3>1, <3>2, <3>3, <1>1
    <3> DEFINE l == Len(r)
    <3>5. l \in Nat /\ n \in Nat /\ l <= n /\ n <= l
      BY <3>1, <3>4, <1>1
    <3> HIDE DEF l, n
    <3>6. l = n
      BY <3>5
    <3> QED
      BY <3>6 DEF l
  <2> QED
    BY <2>2, <2>3
<1>8. \A k \in b + (t - m) .. t - 1 : r[k] = a[k - (t - m)]
  <2> SUFFICES ASSUME NEW k \in b + (t - m) .. t - 1 PROVE r[k] = a[k - (t - m)]
    OBVIOUS
  <2>1. k \in 1 .. n /\ ~ (k < b + (t - m)) /\ b + (t - m) <= k /\ k < t
    BY <1>2
  <2> QED
    BY <2>1, <1>5
<1>9. \A k \in t .. n : r[k] = a[k]
  <2> SUFFICES ASSUME NEW k \in t .. n PROVE r[k] = a[k]
    OBVIOUS
  <2>1. k \in 1 .. n /\ ~ (k < b + (t - m)) /\ ~ (k < t)
    BY <1>2
  <2> QED
    BY <2>1, <1>5
<1> HIDE DEF r
<1>10. x \in Scans
  BY <1>7 DEF Scans
<1>11. b + (t - m) = t - (m - b)
  OBVIOUS
<1>12. WordsMoved(s, x)
  BY <1>8, <1>9, <1>10, <1>11 DEF WordsMoved
<1> QED
  BY <1>4, <1>12

\* The words are those that were there.
LEMMA MovedWords ==
    ASSUME given \in Seq(Elements), NEW s \in Scans, MarksInOrder(s), NEW x, WordsMoved(s, x)
    PROVE  SubSeq(x.argv, x.first, s.optind - 1) = SubSeq(s.argv, s.first, s.last - 1)
<1> DEFINE i == x.first
           j == s.optind - 1
           d == s.optind - s.last
<1>1. /\ s.optind \in Int /\ s.first \in Int /\ s.last \in Int /\ s.argv \in Seq(Elements)
      /\ x.argv \in Seq(Elements) /\ Len(s.argv) = Len(given) /\ Len(x.argv) = Len(given)
      /\ Len(given) \in Nat
  BY LenProperties DEF Scans, WordsMoved
<1>2. i = s.optind - (s.last - s.first)
  BY DEF WordsMoved
<1>3. 1 <= s.first /\ s.first <= s.last /\ s.last <= s.optind /\ s.optind <= Len(given) + 1
  BY DEF MarksInOrder, argc
<1>4. /\ i \in Int /\ j \in Int /\ d \in Int /\ 1 <= i /\ j <= Len(x.argv) /\ 1 <= i - d
      /\ j - d <= Len(s.argv) /\ i - d = s.first /\ j - d = s.last - 1
  BY <1>1, <1>2, <1>3
<1>5. \A k \in i .. j : x.argv[k] = s.argv[k - d]
  BY DEF WordsMoved
<1> HIDE DEF i, j, d
<1>6. SubSeq(x.argv, i, j) = SubSeq(s.argv, i - d, j - d)
  BY <1>1, <1>4, <1>5, SameSubSeq
<1> QED
  BY <1>4, <1>6 DEF i, j, d

-----------------------------------------------------------------------------
(* Skipping words                                                          *)

\* Where the pass is that has read what the scan s has: letters are left of its element.
Reached(s, letters) ==
    [i |-> s.optind, letters |-> letters, answers |-> returned,
     words |-> SubSeq(s.argv, s.first, s.last - 1), rest |-> <<>>, stage |-> "reading"]

\* What holds between two calls: nothing from optind on has been touched, there are words
\* between the marks, and what is before has been read as the pass reads it.
ScanAt(s, letters) ==
    /\ s \in Scans /\ MarksInOrder(s)
    /\ \A i \in s.optind .. Len(given) : s.argv[i] = given[i]
    /\ \A i \in s.first .. s.last - 1 : IsWord(s.argv[i])
    /\ letters \in Seq(STRING) /\ (letters # <<>> => s.optind < argc)
    /\ ordering # "permute" => s.first = s.last
    /\ Pass(given, ordering, Len(returned) + (s.last - s.first)) = Reached(s, letters)

\* The words have been skipped.
AtOption(s) == s.last = s.optind /\ (s.optind = argc \/ ~ IsWord(s.argv[s.optind]))

\* PERMUTE: the scan goes over words as the pass does and stops where an option is or at the end.
LEMMA SkipWordsIs ==
    ASSUME given \in Seq(Elements), returned \in Seq(Answers), ordering = "permute",
           NEW s, ScanAt(s, <<>>)
    PROVE  ScanAt(SkipWords(s), <<>>) /\ AtOption(SkipWords(s))
<1> DEFINE t == IF s.first # s.last /\ s.last # s.optind THEN Exchange(s)
                ELSE IF s.last # s.optind THEN [s EXCEPT !.first = s.optind] ELSE s
           stops == {i \in t.optind .. argc - 1 : ~ IsWord(t.argv[i])} \cup {argc}
           stop == CHOOSE i \in stops : \A j \in stops : i <= j
           y == [[t EXCEPT !.optind = stop] EXCEPT !.last = stop]
           n == Len(given)
<1>1. SkipWords(s) = y
  BY DEF SkipWords
<1>2. /\ s \in Scans /\ MarksInOrder(s)
      /\ \A i \in s.optind .. n : s.argv[i] = given[i]
      /\ \A i \in s.first .. s.last - 1 : IsWord(s.argv[i])
  BY DEF ScanAt
<1>p. Pass(given, ordering, Len(returned) + (s.last - s.first)) = Reached(s, <<>>)
  BY DEF ScanAt
<1>3. /\ s.optind \in Int /\ s.first \in Int /\ s.last \in Int /\ s.argv \in Seq(Elements)
      /\ Len(s.argv) = n /\ n \in Nat
  BY <1>2, LenProperties DEF Scans
<1>4. 1 <= s.first /\ s.first <= s.last /\ s.last <= s.optind /\ s.optind <= n + 1 /\ argc = n + 1
  BY <1>2 DEF MarksInOrder, argc
<1>5. WordsMoved(s, t)
  <2>1. CASE s.first # s.last /\ s.last # s.optind
    BY <2>1, <1>2, ExchangeIs
  <2>2. CASE s.first = s.last /\ s.last # s.optind
    <3> DEFINE u == [s EXCEPT !.first = s.optind]
    <3>1. t = u
      BY <2>2
    <3>2. u \in Scans /\ u.optind = s.optind /\ u.first = s.optind /\ u.argv = s.argv
      BY <1>2 DEF Scans
    <3> HIDE DEF u
    <3>3. WordsMoved(s, u)
      BY <3>2, <2>2, <1>3 DEF WordsMoved
    <3> QED
      BY <3>1, <3>3
  <2>3. CASE s.last = s.optind
    <3>1. t = s
      BY <2>3
    <3>2. \A k \in Int : k - (s.optind - s.last) = k
      BY <2>3, <1>3
    <3>3. s.first = s.optind - (s.last - s.first)
      BY <2>3, <1>3
    <3>5. \A k \in s.first .. s.optind - 1 : s.argv[k] = s.argv[k - (s.optind - s.last)]
      <4> SUFFICES ASSUME NEW k \in s.first .. s.optind - 1
                   PROVE  s.argv[k] = s.argv[k - (s.optind - s.last)]
        OBVIOUS
      <4>1. k - (s.optind - s.last) = k
        BY <3>2
      <4> QED
        BY <4>1
    <3>4. WordsMoved(s, s)
      BY <3>3, <3>5, <1>2 DEF WordsMoved
    <3> QED
      BY <3>1, <3>4
  <2> QED
    BY <2>1, <2>2, <2>3
<1> HIDE DEF t
<1>6. /\ t \in Scans /\ t.optind = s.optind /\ t.first = s.optind - (s.last - s.first)
      /\ \A k \in t.first .. s.optind - 1 : t.argv[k] = s.argv[k - (s.optind - s.last)]
      /\ \A k \in s.optind .. n : t.argv[k] = s.argv[k]
  BY <1>5 DEF WordsMoved
<1>i. t.optind = s.optind /\ t.first = s.optind - (s.last - s.first)
  BY <1>6
<1>7. t.argv \in Seq(Elements) /\ Len(t.argv) = n /\ t.first \in Int /\ t.last \in Int
  BY <1>6 DEF Scans
<1>8. stop \in stops /\ \A j \in stops : stop <= j
  <2>1. stops \subseteq 0 .. n + 1 /\ stops # {} /\ n + 1 \in Nat
    BY <1>3, <1>4, <1>6
  <2> HIDE DEF stops
  <2>2. \E i \in stops : \A j \in stops : i <= j
    BY <2>1, Least
  <2> QED
    BY <2>2
<1> HIDE DEF stop
<1>9. /\ stop \in Int /\ s.optind <= stop /\ stop <= n + 1
      /\ stop = n + 1 \/ ~ IsWord(t.argv[stop])
      /\ \A k \in s.optind .. stop - 1 : IsWord(t.argv[k])
  <2>1. stop \in Int /\ s.optind <= stop /\ stop <= n + 1 /\ (stop = n + 1 \/ ~ IsWord(t.argv[stop]))
    BY <1>8, <1>3, <1>4, <1>6
  <2>2. ASSUME NEW k \in s.optind .. stop - 1, ~ IsWord(t.argv[k]) PROVE FALSE
    <3>1. k \in t.optind .. argc - 1 /\ k < stop
      BY <2>1, <1>3, <1>4, <1>6
    <3>2. k \in stops
      BY <3>1, <2>2
    <3> HIDE DEF stops
    <3> QED
      BY <3>1, <3>2, <1>8, <2>1
  <2> QED
    BY <2>1, <2>2
<1>s. stop \in Int /\ s.optind <= stop /\ stop <= n + 1
  BY <1>9
<1> HIDE DEF stops
<1>10. y = [argv |-> t.argv, optind |-> stop, first |-> t.first, last |-> stop]
  <2> DEFINE z == [t EXCEPT !.optind = stop]
  <2>1. z = [argv |-> t.argv, optind |-> stop, first |-> t.first, last |-> t.last]
    BY <1>6 DEF Scans
  <2> HIDE DEF z
  <2>2. [z EXCEPT !.last = stop] = [argv |-> t.argv, optind |-> stop, first |-> t.first, last |-> stop]
    BY <2>1
  <2> QED
    BY <2>2 DEF z
<1> HIDE DEF y
<1>11. y.argv = t.argv /\ y.optind = stop /\ y.first = t.first /\ y.last = stop
  BY <1>10
<1>12. y \in Scans
  BY <1>7, <1>9, <1>10 DEF Scans
<1>13. MarksInOrder(y)
  <2>1. 1 <= t.first /\ t.first <= stop /\ stop <= argc
    BY <1>3, <1>4, <1>6, <1>9
  <2>2. stop <= stop
    BY <1>9
  <2> QED
    BY <1>11, <2>1, <2>2 DEF MarksInOrder
<1>14. \A i \in y.optind .. n : y.argv[i] = given[i]
  <2> SUFFICES ASSUME NEW i \in stop .. n PROVE t.argv[i] = given[i]
    BY <1>11
  <2>1. i \in s.optind .. n
    BY <1>3, <1>9
  <2> QED
    BY <2>1, <1>2, <1>6
<1>15. \A i \in y.first .. y.last - 1 : IsWord(y.argv[i])
  <2> SUFFICES ASSUME NEW i \in t.first .. stop - 1 PROVE IsWord(t.argv[i])
    BY <1>11
  <2>1. CASE i < s.optind
    <3>1. i \in t.first .. s.optind - 1 /\ i - (s.optind - s.last) \in s.first .. s.last - 1
      BY <2>1, <1>3, <1>6, <1>7, SMTT(30)
    <3> QED
      BY <3>1, <1>2, <1>6
  <2>2. CASE ~ (i < s.optind)
    <3>1. i \in s.optind .. stop - 1
      BY <2>2, <1>3, <1>7
    <3> QED
      BY <3>1, <1>9
  <2> QED
    BY <2>1, <2>2
<1>16. Pass(given, ordering, Len(returned) + (y.last - y.first)) = Reached(y, <<>>)
  <2> DEFINE m == Len(returned) + (s.last - s.first)
             p == Pass(given, "permute", m)
             w == SubSeq(s.argv, s.first, s.last - 1)
  <2>1. m \in Nat /\ Len(returned) + (y.last - y.first) = m + (stop - s.optind)
    <3>1. Len(returned) \in Nat
      BY LenProperties
    <3> QED
      BY <3>1, <1>3, <1>4, <1>i, <1>s, <1>11
  <2>2. p = Reached(s, <<>>)
    BY <1>p
  <2>3. p.i = s.optind /\ p.letters = <<>> /\ p.words = w /\ p.answers = returned /\ p.rest = <<>> /\ p.stage = "reading"
    BY <2>2 DEF Reached
  <2>4. p \in PassStates
    BY <2>1, PassIs DEF Orderings
  <2> HIDE DEF p, m
  <2>5. \A i \in p.i .. stop - 1 : IsWord(given[i])
    <3> SUFFICES ASSUME NEW i \in s.optind .. stop - 1 PROVE IsWord(given[i])
      BY <2>3
    <3>1. i \in s.optind .. n
      BY <1>3, <1>9
    <3> QED
      BY <3>1, <1>2, <1>6, <1>9
  <2>6. Pass(given, "permute", m + (stop - p.i)) = MovedOn(p, stop, p.words \o SubSeq(given, p.i, stop - 1))
    <3>1. p.i <= stop /\ stop <= Len(given) + 1 /\ p = Pass(given, "permute", m)
      BY <2>3, <1>9 DEF p
    <3> QED
      BY <2>1, <2>3, <2>5, <3>1, <1>9, PassWords
  <2>7. SubSeq(y.argv, y.first, y.last - 1) = w \o SubSeq(given, s.optind, stop - 1)
    <3>1. SubSeq(t.argv, t.first, s.optind - 1) = w
      BY <1>2, <1>5, MovedWords
    <3>2. SubSeq(t.argv, s.optind, stop - 1) = SubSeq(given, s.optind, stop - 1)
      <4> DEFINE i == s.optind
                 j == stop - 1
      <4>1. \A k \in i .. j : t.argv[k] = given[k - 0]
        <5> SUFFICES ASSUME NEW k \in i .. j PROVE t.argv[k] = given[k - 0]
          OBVIOUS
        <5>1. k \in s.optind .. n /\ k - 0 = k
          BY <1>3, <1>9
        <5> QED
          BY <5>1, <1>2, <1>6
      <4>2. i \in Int /\ j \in Int /\ 1 <= i /\ j <= Len(t.argv) /\ 1 <= i - 0 /\ j - 0 <= Len(given) /\ i - 0 = i /\ j - 0 = j
        BY <1>3, <1>4, <1>7, <1>9
      <4> HIDE DEF i, j
      <4>3. SubSeq(t.argv, i, j) = SubSeq(given, i - 0, j - 0)
        BY <4>1, <4>2, <1>7, SameSubSeq
      <4> QED
        BY <4>2, <4>3 DEF i, j
    <3>3. SubSeq(t.argv, t.first, s.optind - 1) \o SubSeq(t.argv, s.optind, stop - 1) = SubSeq(t.argv, t.first, stop - 1)
      <4> DEFINE k == s.optind - 1
                 l == stop - 1
      <4>1. t.first \in 1 .. Len(t.argv) + 1 /\ k \in t.first - 1 .. Len(t.argv) /\ l \in k .. Len(t.argv) /\ k + 1 = s.optind
        <5>1. 1 <= t.first /\ t.first <= s.optind
          BY <1>3, <1>4, <1>i, <1>7
        <5>2. \A f, o, e, c \in Int : 1 <= f /\ f <= o /\ o <= e /\ e <= c + 1 =>
                  f \in 1 .. c + 1 /\ o - 1 \in f - 1 .. c /\ e - 1 \in o - 1 .. c /\ (o - 1) + 1 = o
          OBVIOUS
        <5>3. s.optind \in Int /\ n \in Int /\ Len(t.argv) = n
          BY <1>3, <1>7
        <5> HIDE DEF n
        <5> QED
          BY <1>7, <1>s, <5>1, <5>2, <5>3
      <4> HIDE DEF k, l
      <4>2. SubSeq(t.argv, t.first, k) \o SubSeq(t.argv, k + 1, l) = SubSeq(t.argv, t.first, l)
        BY <4>1, <1>7, ConcatAdjacentSubSeq
      <4> QED
        BY <4>1, <4>2 DEF k, l
    <3> QED
      BY <3>1, <3>2, <3>3, <1>11
  <2> DEFINE v == w \o SubSeq(given, s.optind, stop - 1)
  <2>8. p.words \o SubSeq(given, p.i, stop - 1) = v
    BY <2>3
  <2>9. Reached(y, <<>>) = [i |-> stop, letters |-> <<>>, answers |-> returned, words |-> v, rest |-> <<>>, stage |-> "reading"]
    BY <2>7, <1>11 DEF Reached
  <2> HIDE DEF v, w
  <2>10. MovedOn(p, stop, v) = [i |-> stop, letters |-> p.letters, answers |-> p.answers, words |-> v, rest |-> p.rest,
                                stage |-> p.stage]
    BY <2>4, MovedOnIs
  <2>11. MovedOn(p, stop, v) = Reached(y, <<>>)
    BY <2>3, <2>9, <2>10
  <2> QED
    BY <2>1, <2>3, <2>6, <2>8, <2>11
<1>17. AtOption(y)
  BY <1>4, <1>9, <1>11 DEF AtOption
<1>18. ScanAt(y, <<>>)
  BY <1>12, <1>13, <1>14, <1>15, <1>16, EmptySeq DEF ScanAt
<1> QED
  BY <1>1, <1>17, <1>18

-----------------------------------------------------------------------------
(* The end                                                                 *)

\* Where optind is in the end, and what is there: the pass is over, with these words.
EndFrom(s) == IF s.first # s.last THEN s.first ELSE s.optind

Ended(s) ==
    \E n \in 0 .. Len(returned) + Len(given) + 1 :
        LET p == Pass(given, ordering, n) IN
        /\ p.stage = "done"
        /\ returned = p.answers
        /\ SubSeq(s.argv, EndFrom(s), Len(s.argv)) = p.words \o p.rest

\* One step more than the scan.
LEMMA NextStep ==
    ASSUME given \in Seq(Elements), ordering \in Orderings, returned \in Seq(Answers),
           NEW s, NEW letters, ScanAt(s, letters)
    PROVE  \E n \in 1 .. Len(returned) + Len(given) + 1 :
               /\ n = Len(returned) + 1 + (s.last - s.first)
               /\ Pass(given, ordering, n) = Further(given, ordering, Reached(s, letters))
<1> DEFINE m == Len(returned) + (s.last - s.first)
<1>1. s \in Scans /\ MarksInOrder(s) /\ Pass(given, ordering, m) = Reached(s, letters)
  BY DEF ScanAt
<1>2. s.first \in Int /\ s.last \in Int /\ s.optind \in Int /\ Len(given) \in Nat /\ Len(returned) \in Nat
  BY <1>1, LenProperties DEF Scans
<1>3. 1 <= s.first /\ s.first <= s.last /\ s.last <= s.optind /\ s.optind <= Len(given) + 1
  BY <1>1 DEF MarksInOrder, argc
<1>4. m \in Nat /\ m + 1 \in 1 .. Len(returned) + Len(given) + 1 /\ m + 1 = Len(returned) + 1 + (s.last - s.first)
  BY <1>2, <1>3
<1> HIDE DEF m
<1>5. Pass(given, ordering, m + 1) = Further(given, ordering, Pass(given, ordering, m))
  BY <1>4, PassIs
<1> QED
  BY <1>1, <1>4, <1>5

\* What ScanAt says of the marks and of what has not been read.
LEMMA ScanFacts ==
    ASSUME given \in Seq(Elements), NEW s, NEW letters, ScanAt(s, letters)
    PROVE  /\ s.argv \in Seq(Elements) /\ Len(s.argv) = Len(given) /\ Len(given) \in Nat
           /\ s.optind \in Int /\ s.first \in Int /\ s.last \in Int
           /\ 1 <= s.first /\ s.first <= s.last /\ s.last <= s.optind /\ s.optind <= Len(given) + 1
           /\ argc = Len(given) + 1
           /\ s.optind # argc => /\ s.optind \in 1 .. Len(given) /\ s.argv[s.optind] = given[s.optind]
                                 /\ given[s.optind] \in Elements
           /\ SubSeq(s.argv, s.first, s.last - 1) \in Seq(Elements)
<1>1. s \in Scans /\ MarksInOrder(s) /\ \A i \in s.optind .. Len(given) : s.argv[i] = given[i]
  BY DEF ScanAt
<1>2. /\ s.argv \in Seq(Elements) /\ Len(s.argv) = Len(given) /\ Len(given) \in Nat
      /\ s.optind \in Int /\ s.first \in Int /\ s.last \in Int
  BY <1>1, LenProperties DEF Scans
<1>3. /\ 1 <= s.first /\ s.first <= s.last /\ s.last <= s.optind /\ s.optind <= Len(given) + 1
      /\ argc = Len(given) + 1
  BY <1>1 DEF MarksInOrder, argc
<1>4. s.optind # argc => /\ s.optind \in 1 .. Len(given) /\ s.argv[s.optind] = given[s.optind]
                         /\ given[s.optind] \in Elements
  <2> SUFFICES ASSUME s.optind # argc
               PROVE  /\ s.optind \in 1 .. Len(given) /\ s.argv[s.optind] = given[s.optind]
                      /\ given[s.optind] \in Elements
    OBVIOUS
  <2>1. s.optind \in 1 .. Len(given) /\ s.optind \in s.optind .. Len(given)
    BY <1>2, <1>3
  <2> QED
    BY <2>1, <1>1, ElementOfSeq
<1>5. SubSeq(s.argv, s.first, s.last - 1) \in Seq(Elements)
  <2> DEFINE l == s.last - 1
  <2>1. l \in Int /\ \A k \in s.first .. l : k \in 1 .. Len(s.argv)
    BY <1>2, <1>3
  <2>2. \A k \in s.first .. l : s.argv[k] \in Elements
    BY <2>1, <1>2, ElementOfSeq
  <2> HIDE DEF l
  <2>3. SubSeq(s.argv, s.first, l) \in Seq(Elements)
    BY <2>1, <2>2, <1>2, SubSeqProperties
  <2> QED
    BY <2>3 DEF l
<1> QED
  BY <1>2, <1>3, <1>4, <1>5

\* All has been read.
LEMMA WordsLeft ==
    ASSUME given \in Seq(Elements), ordering \in Orderings, returned \in Seq(Answers),
           NEW s, ScanAt(s, <<>>), s.optind = argc, ordering = "permute" => s.last = s.optind
    PROVE  Ended(s)
<1> DEFINE q == Reached(s, <<>>)
           w == SubSeq(s.argv, s.first, s.last - 1)
<1>1. PICK n \in 1 .. Len(returned) + Len(given) + 1 :
          Pass(given, ordering, n) = Further(given, ordering, q)
  BY NextStep
<1>2. q.stage = "reading" /\ q.i > Len(given) /\ q.words = w /\ q.answers = returned /\ q.rest = <<>>
  <2>1. s.optind > Len(given)
    BY ScanFacts
  <2> HIDE DEF w
  <2>2. q.stage = "reading" /\ q.i = s.optind /\ q.words = w /\ q.answers = returned /\ q.rest = <<>>
    BY DEF Reached, w
  <2> QED
    BY <2>1, <2>2
<1> HIDE DEF q
<1>3. Further(given, ordering, q) = PastLast(q)
  BY <1>2, FurtherPastLast
<1>4. q = [i |-> s.optind, letters |-> <<>>, answers |-> returned, words |-> w, rest |-> <<>>, stage |-> "reading"]
  BY DEF q, Reached
<1> DEFINE p == PastLast(q)
<1>5. p.stage = "done" /\ p.answers = returned /\ p.words = w /\ p.rest = <<>>
  <2> HIDE DEF w
  <2> QED
    BY <1>4 DEF PastLast
<1>6. w \o <<>> = w
  BY ScanFacts, ConcatEmptySeq
<1>7. SubSeq(s.argv, EndFrom(s), Len(s.argv)) = w
  <2>1. CASE s.last = s.optind
    <3>1. EndFrom(s) = s.first /\ Len(s.argv) = s.last - 1
      BY <2>1, ScanFacts DEF EndFrom
    <3> QED
      BY <3>1
  <2>2. CASE s.first = s.last
    <3>1. EndFrom(s) = s.optind /\ Len(s.argv) \in Int /\ s.optind \in Int /\ Len(s.argv) < s.optind
      BY <2>2, ScanFacts DEF EndFrom
    <3>2. SubSeq(s.argv, EndFrom(s), Len(s.argv)) = <<>>
      BY <3>1, SubSeqEmpty
    <3>3. w = <<>>
      <4>1. s.first \in Int /\ s.last - 1 \in Int /\ s.last - 1 < s.first
        BY <2>2, ScanFacts
      <4> QED
        BY <4>1, SubSeqEmpty
    <3> QED
      BY <3>2, <3>3
  <2> QED
    BY <2>1, <2>2 DEF ScanAt
<1>8. n \in 0 .. Len(returned) + Len(given) + 1
  BY <1>1
<1> HIDE DEF w, p
<1>9. Pass(given, ordering, n) = p
  BY <1>1, <1>3 DEF p
<1> QED
  BY <1>5, <1>6, <1>7, <1>8, <1>9 DEF Ended

\* A "--" has been found.
LEMMA DashesLeft ==
    ASSUME given \in Seq(Elements), ordering \in Orderings, returned \in Seq(Answers),
           NEW s, ScanAt(s, <<>>), ordering = "permute" => s.last = s.optind,
           s.optind # argc, s.argv[s.optind].kind = "dashes"
    PROVE  /\ SkipDashes(s).argv \in Seq(Elements) /\ Len(SkipDashes(s).argv) = Len(given)
           /\ SkipDashes(s).optind = argc /\ Ended(SkipDashes(s))
<1> DEFINE q == Reached(s, <<>>)
           w == SubSeq(s.argv, s.first, s.last - 1)
           o == s.optind + 1
           r == SubSeq(given, o, Len(given))
           t == [s EXCEPT !.optind = @ + 1]
           u == IF t.first # t.last /\ t.last # t.optind THEN Exchange(t)
                ELSE IF t.first = t.last THEN [t EXCEPT !.first = t.optind] ELSE t
           y == [[u EXCEPT !.last = argc] EXCEPT !.optind = argc]
<1>1. PICK n \in 1 .. Len(returned) + Len(given) + 1 :
          Pass(given, ordering, n) = Further(given, ordering, q)
  BY NextStep
<1>f. /\ s.argv \in Seq(Elements) /\ Len(s.argv) = Len(given) /\ Len(given) \in Nat
      /\ s.optind \in Int /\ s.first \in Int /\ s.last \in Int
      /\ 1 <= s.first /\ s.first <= s.last /\ s.last <= s.optind /\ s.optind <= Len(given)
      /\ argc = Len(given) + 1 /\ s.argv[s.optind] = given[s.optind] /\ w \in Seq(Elements)
  BY ScanFacts
<1>n. /\ Len(given) \in Nat /\ s.optind \in Int /\ s.first \in Int /\ s.last \in Int
      /\ 1 <= s.first /\ s.first <= s.last /\ s.last <= s.optind /\ s.optind <= Len(given)
  BY <1>f
<1>2. /\ q.stage = "reading" /\ ~ (q.i > Len(given)) /\ q.letters = <<>> /\ q.i = s.optind
      /\ given[q.i].kind = "dashes"
  <2>1. ~ (s.optind > Len(given)) /\ given[s.optind].kind = "dashes"
    BY <1>f
  <2> HIDE DEF w
  <2>2. q.stage = "reading" /\ q.i = s.optind /\ q.letters = <<>>
    BY DEF Reached
  <2> QED
    BY <2>1, <2>2
<1>3. q = [i |-> s.optind, letters |-> <<>>, answers |-> returned, words |-> w, rest |-> <<>>, stage |-> "reading"]
  BY DEF q, Reached
<1> HIDE DEF q
<1>4. Further(given, ordering, q) = RestFrom(given, q, o)
  BY <1>2, FurtherDashes, Zenon
<1> DEFINE p == RestFrom(given, q, o)
<1>5. p.stage = "done" /\ p.answers = returned /\ p.words = w /\ p.rest = r
  <2> HIDE DEF w, o
  <2>1. p = [[q EXCEPT !.rest = r] EXCEPT !.stage = "done"]
    BY DEF RestFrom
  <2> HIDE DEF r
  <2> DEFINE z == [q EXCEPT !.rest = r]
  <2>2. z = [i |-> s.optind, letters |-> <<>>, answers |-> returned, words |-> w, rest |-> r, stage |-> "reading"]
    BY <1>3
  <2> HIDE DEF z
  <2>3. [z EXCEPT !.stage = "done"] = [i |-> s.optind, letters |-> <<>>, answers |-> returned, words |-> w, rest |-> r,
                                       stage |-> "done"]
    BY <2>2
  <2> DEFINE v == [z EXCEPT !.stage = "done"]
  <2>4. v.stage = "done" /\ v.answers = returned /\ v.words = w /\ v.rest = r
    BY <2>3
  <2> QED
    BY <2>1, <2>4 DEF z
<1> HIDE DEF p
<1>6. t = [argv |-> s.argv, optind |-> o, first |-> s.first, last |-> s.last]
  <2>1. s \in Scans
    BY DEF ScanAt
  <2> QED
    BY <2>1, SMTT(30) DEF Scans
<1>7. t \in Scans /\ t.argv = s.argv /\ t.optind = o /\ t.first = s.first /\ t.last = s.last /\ t.last # t.optind
  BY <1>6, <1>f DEF Scans
<1>8. MarksInOrder(t)
  BY <1>7, <1>f DEF MarksInOrder
<1> HIDE DEF t
<1>9. WordsMoved(t, u)
  <2>1. CASE t.first # t.last
    BY <2>1, <1>7, <1>8, ExchangeIs
  <2>2. CASE t.first = t.last
    <3> DEFINE v == [t EXCEPT !.first = t.optind]
    <3>1. u = v
      BY <2>2
    <3>2. v \in Scans /\ v.optind = t.optind /\ v.first = t.optind /\ v.argv = t.argv
      BY <1>7 DEF Scans
    <3> HIDE DEF v
    <3>3. t.optind \in Int /\ t.first \in Int /\ t.last \in Int
      BY <1>7 DEF Scans
    <3>4. WordsMoved(t, v)
      BY <3>2, <2>2, <3>3 DEF WordsMoved
    <3> QED
      BY <3>1, <3>4
  <2> QED
    BY <2>1, <2>2
<1> HIDE DEF u
<1>10. /\ u \in Scans /\ u.first = t.optind - (t.last - t.first)
       /\ \A k \in t.optind .. Len(given) : u.argv[k] = t.argv[k]
  BY <1>9 DEF WordsMoved
<1>11. SkipDashes(s) = y
  BY DEF SkipDashes, t, u
<1>12. y = [argv |-> u.argv, optind |-> argc, first |-> u.first, last |-> argc]
  <2> DEFINE z == [u EXCEPT !.last = argc]
  <2>1. z = [argv |-> u.argv, optind |-> u.optind, first |-> u.first, last |-> argc]
    BY <1>10 DEF Scans
  <2> HIDE DEF z
  <2>2. [z EXCEPT !.optind = argc] = [argv |-> u.argv, optind |-> argc, first |-> u.first, last |-> argc]
    BY <2>1
  <2> QED
    BY <2>2 DEF z
<1> HIDE DEF y
<1>13. y.argv = u.argv /\ y.optind = argc /\ y.first = u.first /\ y.last = argc
  BY <1>12
<1>14. u.argv \in Seq(Elements) /\ Len(u.argv) = Len(given) /\ u.first \in Int
  BY <1>10 DEF Scans
<1>15. EndFrom(y) = u.first
  BY <1>13 DEF EndFrom
<1>16. SubSeq(u.argv, u.first, Len(given)) = w \o r
  <2>1. SubSeq(u.argv, u.first, t.optind - 1) = w
    BY <1>7, <1>8, <1>9, MovedWords
  <2>2. SubSeq(u.argv, o, Len(given)) = r
    <3> DEFINE e == Len(given)
    <3>1. \A k \in o .. e : u.argv[k] = given[k - 0]
      <4> SUFFICES ASSUME NEW k \in o .. e PROVE u.argv[k] = given[k - 0]
        OBVIOUS
      <4>1. k \in t.optind .. Len(given) /\ k \in s.optind .. Len(given) /\ k - 0 = k
        BY <1>7, <1>f
      <4>2. s.argv[k] = given[k]
        BY <4>1 DEF ScanAt
      <4> QED
        BY <4>1, <4>2, <1>7, <1>10
    <3>2. o \in Int /\ e \in Int /\ 1 <= o /\ e <= Len(u.argv) /\ 1 <= o - 0 /\ e - 0 <= Len(given) /\ o - 0 = o /\ e - 0 = e
      BY <1>n, <1>14
    <3> HIDE DEF o, e
    <3>3. SubSeq(u.argv, o, e) = SubSeq(given, o - 0, e - 0)
      BY <3>1, <3>2, <1>14, SameSubSeq
    <3> QED
      BY <3>2, <3>3 DEF e
  <2>3. SubSeq(u.argv, u.first, t.optind - 1) \o SubSeq(u.argv, o, Len(given)) = SubSeq(u.argv, u.first, Len(given))
    <3> DEFINE k == t.optind - 1
               l == Len(given)
    <3>1. 1 <= u.first /\ u.first <= t.optind /\ t.optind = o /\ o <= Len(given) + 1 /\ o \in Int
      <4>1. u.first = (s.optind + 1) - (s.last - s.first) /\ t.optind = s.optind + 1
        BY <1>7, <1>10
      <4> QED
        BY <4>1, <1>n
    <3>2. u.first \in 1 .. Len(u.argv) + 1 /\ k \in u.first - 1 .. Len(u.argv) /\ l \in k .. Len(u.argv) /\ k + 1 = o
      <4> HIDE DEF o
      <4> QED
        BY <3>1, <1>14, <1>f
    <3> HIDE DEF k, l, o
    <3>3. SubSeq(u.argv, u.first, k) \o SubSeq(u.argv, k + 1, l) = SubSeq(u.argv, u.first, l)
      BY <3>2, <1>14, ConcatAdjacentSubSeq
    <3> QED
      BY <3>2, <3>3 DEF k, l
  <2> QED
    BY <2>1, <2>2, <2>3
<1>17. n \in 0 .. Len(returned) + Len(given) + 1
  BY <1>1
<1> HIDE DEF w, r, o
<1>18. Pass(given, ordering, n) = p
  BY <1>1, <1>4 DEF p
<1>19. Ended(y)
  BY <1>5, <1>13, <1>14, <1>15, <1>16, <1>17, <1>18 DEF Ended
<1> QED
  BY <1>11, <1>13, <1>14, <1>19

-----------------------------------------------------------------------------
(* One answer more                                                         *)

\* A word ends the options.
LEMMA WordStops ==
    ASSUME given \in Seq(Elements), ordering = "require", returned \in Seq(Answers),
           NEW s, ScanAt(s, <<>>), s.optind # argc, IsWord(s.argv[s.optind])
    PROVE  Ended(s)
<1> DEFINE q == Reached(s, <<>>)
           w == SubSeq(s.argv, s.first, s.last - 1)
           r == SubSeq(given, s.optind, Len(given))
<1>o. ordering \in Orderings
  BY DEF Orderings
<1>1. PICK n \in 1 .. Len(returned) + Len(given) + 1 :
          Pass(given, ordering, n) = Further(given, ordering, q)
  BY <1>o, NextStep
<1>n. /\ Len(given) \in Nat /\ s.optind \in Int /\ s.first \in Int /\ s.last \in Int
      /\ 1 <= s.optind /\ s.optind <= Len(given) /\ s.optind \in 1 .. Len(given)
  BY ScanFacts
<1>f. /\ s.argv \in Seq(Elements) /\ Len(s.argv) = Len(given) /\ s.argv[s.optind] = given[s.optind]
      /\ s.first = s.last
  BY ScanFacts DEF ScanAt
<1>2. /\ q.stage = "reading" /\ ~ (q.i > Len(given)) /\ q.letters = <<>> /\ q.i = s.optind
      /\ given[q.i].kind = "word"
  <2>1. ~ (s.optind > Len(given)) /\ given[s.optind].kind = "word"
    BY <1>n, <1>f DEF IsWord
  <2> HIDE DEF w
  <2>2. q.stage = "reading" /\ q.i = s.optind /\ q.letters = <<>>
    BY DEF Reached
  <2> QED
    BY <2>1, <2>2
<1>3. q = [i |-> s.optind, letters |-> <<>>, answers |-> returned, words |-> w, rest |-> <<>>, stage |-> "reading"]
  BY DEF q, Reached
<1> HIDE DEF q
<1>4. Further(given, ordering, q) = RestFrom(given, q, s.optind)
  <2>1. Further(given, ordering, q) = RestFrom(given, q, q.i)
    BY <1>2, FurtherWord, Zenon
  <2> QED
    BY <2>1, <1>2
<1> DEFINE p == RestFrom(given, q, s.optind)
<1>5. p.stage = "done" /\ p.answers = returned /\ p.words = w /\ p.rest = r
  <2> HIDE DEF w
  <2>1. p = [[q EXCEPT !.rest = r] EXCEPT !.stage = "done"]
    BY DEF RestFrom
  <2> HIDE DEF r
  <2> DEFINE z == [q EXCEPT !.rest = r]
  <2>2. z = [i |-> s.optind, letters |-> <<>>, answers |-> returned, words |-> w, rest |-> r, stage |-> "reading"]
    BY <1>3
  <2> HIDE DEF z
  <2> DEFINE v == [z EXCEPT !.stage = "done"]
  <2>3. v = [i |-> s.optind, letters |-> <<>>, answers |-> returned, words |-> w, rest |-> r, stage |-> "done"]
    BY <2>2
  <2>4. v.stage = "done" /\ v.answers = returned /\ v.words = w /\ v.rest = r
    BY <2>3
  <2> QED
    BY <2>1, <2>4 DEF z
<1> HIDE DEF p
<1>6. EndFrom(s) = s.optind
  BY <1>f DEF EndFrom
<1>7. w = <<>>
  <2>1. s.first \in Int /\ s.last - 1 \in Int /\ s.last - 1 < s.first
    BY <1>f, <1>n
  <2> QED
    BY <2>1, SubSeqEmpty
<1>8. SubSeq(s.argv, s.optind, Len(given)) = r
  <2> DEFINE i == s.optind
             e == Len(given)
  <2>1. \A k \in i .. e : s.argv[k] = given[k - 0]
    <3> SUFFICES ASSUME NEW k \in i .. e PROVE s.argv[k] = given[k - 0]
      OBVIOUS
    <3>1. k \in s.optind .. Len(given) /\ k - 0 = k
      BY <1>n
    <3> QED
      BY <3>1 DEF ScanAt
  <2>2. i \in Int /\ e \in Int /\ 1 <= i /\ e <= Len(s.argv) /\ 1 <= i - 0 /\ e - 0 <= Len(given) /\ i - 0 = i /\ e - 0 = e
    BY <1>n, <1>f
  <2> HIDE DEF i, e
  <2>3. SubSeq(s.argv, i, e) = SubSeq(given, i - 0, e - 0)
    BY <2>1, <2>2, <1>f, SameSubSeq
  <2> QED
    BY <2>2, <2>3 DEF i, e
<1>9. <<>> \o r = r
  <2>1. \A k \in s.optind .. Len(given) : k \in 1 .. Len(given)
    BY <1>n
  <2>2. \A k \in s.optind .. Len(given) : given[k] \in Elements
    BY <2>1, ElementOfSeq
  <2>3. r \in Seq(Elements)
    BY <2>2, <1>n, SubSeqProperties
  <2> HIDE DEF r
  <2> QED
    BY <2>3, ConcatEmptySeq
<1>10. n \in 0 .. Len(returned) + Len(given) + 1
  BY <1>1
<1> HIDE DEF w, r
<1>11. Pass(given, ordering, n) = p
  BY <1>1, <1>4 DEF p
<1>12. SubSeq(s.argv, EndFrom(s), Len(s.argv)) = p.words \o p.rest
  BY <1>5, <1>6, <1>7, <1>8, <1>9, <1>f
<1> QED
  BY <1>5, <1>10, <1>11, <1>12 DEF Ended

\* A word is an answer.
LEMMA WordStep ==
    ASSUME given \in Seq(Elements), ordering = "return", returned \in Seq(Answers),
           NEW s, ScanAt(s, <<>>), s.optind # argc, IsWord(s.argv[s.optind])
    PROVE  LET a == Answer("word", s.argv[s.optind], <<>>, 1) IN
           /\ a \in Answers
           /\ Pass(given, ordering, Len(returned) + 1 + (s.last - s.first)) =
                  [i |-> s.optind + 1, letters |-> <<>>, answers |-> Append(returned, a),
                   words |-> SubSeq(s.argv, s.first, s.last - 1), rest |-> <<>>, stage |-> "reading"]
<1> DEFINE q == Reached(s, <<>>)
           w == SubSeq(s.argv, s.first, s.last - 1)
           a == Answer("word", s.argv[s.optind], <<>>, 1)
           m == Len(returned) + 1 + (s.last - s.first)
<1>o. ordering \in Orderings
  BY DEF Orderings
<1>1. Pass(given, ordering, m) = Further(given, ordering, q)
  BY <1>o, NextStep
<1>n. /\ Len(given) \in Nat /\ s.optind \in Int
      /\ 1 <= s.optind /\ s.optind <= Len(given) /\ s.optind \in 1 .. Len(given)
  BY ScanFacts
<1>f. s.argv[s.optind] = given[s.optind] /\ given[s.optind] \in Elements
  BY ScanFacts
<1>2. /\ q.stage = "reading" /\ ~ (q.i > Len(given)) /\ q.letters = <<>> /\ q.i = s.optind
      /\ given[q.i].kind = "word"
  <2>1. ~ (s.optind > Len(given)) /\ given[s.optind].kind = "word"
    BY <1>n, <1>f DEF IsWord
  <2> HIDE DEF w
  <2>2. q.stage = "reading" /\ q.i = s.optind /\ q.letters = <<>>
    BY DEF Reached
  <2> QED
    BY <2>1, <2>2
<1>3. q = [i |-> s.optind, letters |-> <<>>, answers |-> returned, words |-> w, rest |-> <<>>, stage |-> "reading"]
  BY DEF q, Reached
<1> HIDE DEF q
<1>4. Further(given, ordering, q) = WordRead(given, q)
  BY <1>2, FurtherWord, Zenon
<1>5. a \in Answers
  <2>1. "word" \in OptNames /\ given[s.optind] \in ArgSet
    BY <1>f, ElementIs DEF OptNames
  <2>2. GoodAnswer(Answer("word", given[s.optind], <<>>, 1), <<>>)
    BY <2>1, LastAnswerIs, Zenon
  <2> QED
    BY <2>2, <1>f DEF GoodAnswer
<1>6. q.answers = returned
  <2> HIDE DEF w
  <2> QED
    BY <1>3
<1> DEFINE b == Append(returned, a)
           c == s.optind + 1
<1>7. WordRead(given, q) = [[q EXCEPT !.i = c] EXCEPT !.answers = b]
  BY <1>2, <1>6, <1>f DEF WordRead
<1>8. WordRead(given, q) =
          [i |-> c, letters |-> <<>>, answers |-> b, words |-> w, rest |-> <<>>, stage |-> "reading"]
  <2> HIDE DEF w, b, c
  <2> DEFINE z == [q EXCEPT !.i = c]
  <2>2. z = [i |-> c, letters |-> <<>>, answers |-> returned, words |-> w, rest |-> <<>>, stage |-> "reading"]
    BY <1>3
  <2> HIDE DEF z
  <2>3. [z EXCEPT !.answers = b] =
            [i |-> c, letters |-> <<>>, answers |-> b, words |-> w, rest |-> <<>>, stage |-> "reading"]
    BY <2>2
  <2> QED
    BY <1>7, <2>3 DEF z
<1> QED
  BY <1>1, <1>4, <1>5, <1>8

\* What follows an element, in the permuted argv as in the original.
BehindScan(s) == IF s.optind + 1 < argc THEN <<s.argv[s.optind + 1]>> ELSE <<>>

\* The scan sees the same next element as the pass: it is still where it was given.
LEMMA BehindScanIs ==
    ASSUME given \in Seq(Elements), NEW s, NEW letters, ScanAt(s, letters), s.optind # argc
    PROVE  BehindScan(s) = Behind(given, s.optind)
<1>1. /\ Len(given) \in Nat /\ s.optind \in Int /\ s.optind \in 1 .. Len(given) /\ argc = Len(given) + 1
  BY ScanFacts
<1>2. s.optind + 1 < argc <=> s.optind < Len(given)
  BY <1>1
<1>3. ASSUME s.optind < Len(given) PROVE s.argv[s.optind + 1] = given[s.optind + 1]
  <2>1. s.optind + 1 \in s.optind .. Len(given)
    BY <1>1, <1>3
  <2> QED
    BY <2>1 DEF ScanAt
<1> QED
  BY <1>2, <1>3 DEF BehindScan, Behind

\* An option.
LEMMA OptionStep ==
    ASSUME given \in Seq(Elements), ordering \in Orderings, returned \in Seq(Answers),
           NEW s, NEW letters, ScanAt(s, letters), s.optind # argc,
           letters = <<>> => s.argv[s.optind].kind \notin {"dashes", "word"}
    PROVE  LET a == OneOption(s.argv[s.optind], letters, BehindScan(s)) IN
           /\ GoodAnswer(a, BehindScan(s))
           /\ Pass(given, ordering, Len(returned) + 1 + (s.last - s.first)) =
                  [i |-> s.optind + a.next, letters |-> a.left, answers |-> Append(returned, a),
                   words |-> SubSeq(s.argv, s.first, s.last - 1), rest |-> <<>>, stage |-> "reading"]
<1> DEFINE q == Reached(s, letters)
           w == SubSeq(s.argv, s.first, s.last - 1)
           a == OneOption(s.argv[s.optind], letters, BehindScan(s))
           m == Len(returned) + 1 + (s.last - s.first)
<1>1. Pass(given, ordering, m) = Further(given, ordering, q)
  BY NextStep
<1>n. /\ Len(given) \in Nat /\ s.optind \in Nat
      /\ 1 <= s.optind /\ s.optind <= Len(given) /\ s.optind \in 1 .. Len(given)
  BY ScanFacts
<1>f. s.argv[s.optind] = given[s.optind] /\ given[s.optind] \in Elements /\ BehindScan(s) = Behind(given, s.optind)
  BY ScanFacts, BehindScanIs
<1>2. /\ q.stage = "reading" /\ ~ (q.i > Len(given)) /\ q.letters = letters /\ q.i = s.optind
      /\ q.letters # <<>> \/ given[q.i].kind \notin {"dashes", "word"}
  <2>1. ~ (s.optind > Len(given)) /\ (letters # <<>> \/ given[s.optind].kind \notin {"dashes", "word"})
    BY <1>n, <1>f
  <2> HIDE DEF w
  <2>2. q.stage = "reading" /\ q.i = s.optind /\ q.letters = letters
    BY DEF Reached
  <2> QED
    BY <2>1, <2>2
<1>3. q = [i |-> s.optind, letters |-> letters, answers |-> returned, words |-> w, rest |-> <<>>, stage |-> "reading"]
  BY DEF q, Reached
<1> HIDE DEF q
<1>4. Further(given, ordering, q) = OptionRead(given, q)
  BY <1>2, FurtherOption, Zenon
<1>5. GoodAnswer(a, BehindScan(s))
  <2> DEFINE e == given[s.optind]
             f == Behind(given, s.optind)
  <2>1. letters \in Seq(STRING)
    BY DEF ScanAt
  <2>2. letters = <<>> => e.kind \in {"short", "long"}
    BY <1>f, GetoptAssumption
  <2>3. f = <<>> \/ \E x \in Elements : f = <<x>>
    BY <1>n, FollowingIs
  <2>e. e \in Elements
    BY <1>f
  <2> HIDE DEF e, f
  <2>4. GoodAnswer(OneOption(e, letters, f), f)
    BY <2>1, <2>2, <2>3, <2>e, OneOptionIs
  <2> QED
    BY <2>4, <1>f DEF e, f
<1>6. q.answers = returned
  <2> HIDE DEF w
  <2> QED
    BY <1>3
<1>a. OneOption(given[q.i], q.letters, Behind(given, q.i)) = a
  BY <1>2, <1>f
<1> HIDE DEF a
<1> DEFINE b == Append(returned, a)
           c == s.optind + a.next
<1>7. OptionRead(given, q) = [[[q EXCEPT !.i = c] EXCEPT !.letters = a.left] EXCEPT !.answers = b]
  BY <1>2, <1>6, <1>a DEF OptionRead
<1>8. OptionRead(given, q) =
          [i |-> c, letters |-> a.left, answers |-> b, words |-> w, rest |-> <<>>, stage |-> "reading"]
  <2> HIDE DEF w, b, c
  <2> DEFINE z == [q EXCEPT !.i = c]
             v == [z EXCEPT !.letters = a.left]
  <2>2. z = [i |-> c, letters |-> letters, answers |-> returned, words |-> w, rest |-> <<>>, stage |-> "reading"]
    BY <1>3
  <2> HIDE DEF z
  <2>3. v = [i |-> c, letters |-> a.left, answers |-> returned, words |-> w, rest |-> <<>>, stage |-> "reading"]
    BY <2>2
  <2> HIDE DEF v
  <2>4. [v EXCEPT !.answers = b] =
            [i |-> c, letters |-> a.left, answers |-> b, words |-> w, rest |-> <<>>, stage |-> "reading"]
    BY <2>3
  <2> QED
    BY <1>7, <2>4 DEF z, v
<1> QED
  BY <1>1, <1>4, <1>5, <1>8 DEF a

-----------------------------------------------------------------------------
(* The invariant and the theorem                                           *)

\* The scan between two calls.
Here == [argv |-> argv, optind |-> optind, first |-> first_nonopt, last |-> last_nonopt]

GetoptTypes ==
    /\ given \in Seq(Elements) /\ argv \in Seq(Elements) /\ Len(argv) = Len(given)
    /\ ordering \in Orderings /\ returned \in Seq(Answers) /\ finished \in BOOLEAN

GetoptInv == GetoptTypes /\ AnswersInOrder /\ (~ finished => ScanAt(Here, nextchar))

\* The types the steps below use.
LEMMA GetoptTyped ==
    ASSUME GetoptTypes
    PROVE  given \in Seq(Elements) /\ ordering \in Orderings /\ returned \in Seq(Answers)
BY DEF GetoptTypes

\* Before the first call nothing has been read.
LEMMA GetoptStarts ==
    ASSUME GetoptInit
    PROVE  GetoptInv
<1>0. PICK n \in 0 .. MaxArgs : \E args \in [1 .. n -> Elements] :
          \E o \in {"permute", "require", "return"} : GetoptStart(args, o)
  BY DEF GetoptInit
<1>1. PICK args \in [1 .. n -> Elements] : \E o \in {"permute", "require", "return"} : GetoptStart(args, o)
  BY <1>0
<1>o. PICK o \in {"permute", "require", "return"} : GetoptStart(args, o)
  BY <1>1
<1>2. /\ given = args /\ argv = args /\ optind = 1 /\ first_nonopt = 1 /\ last_nonopt = 1
      /\ nextchar = <<>> /\ ordering = o /\ returned = <<>> /\ finished = FALSE
  BY <1>o DEF GetoptStart
<1>3. args \in Seq(Elements)
  <2>1. n \in Nat
    BY GetoptAssumption
  <2> QED
    BY <2>1, SeqDef
<1>4. GetoptTypes
  BY <1>2, <1>3, EmptySeq DEF GetoptTypes, Orderings
<1>5. AnswersInOrder
  BY <1>2 DEF AnswersInOrder
<1>6. ScanAt(Here, nextchar)
  <2>0. Len(given) \in Nat
    BY <1>2, <1>3, LenProperties
  <2>1. Here \in Scans
    BY <1>2, <1>3 DEF Here, Scans
  <2>2. Here.first = 1 /\ Here.last = 1 /\ Here.optind = 1 /\ Here.argv = given
    BY <1>2 DEF Here
  <2>3. MarksInOrder(Here)
    BY <2>0, <2>2 DEF MarksInOrder, argc
  <2>4. Pass(given, ordering, Len(returned) + (Here.last - Here.first)) = Reached(Here, nextchar)
    <3>1. Len(returned) + (Here.last - Here.first) = 0
      <4>1. Len(returned) = 0
        BY <1>2, EmptySeq
      <4> QED
        BY <4>1, <2>2
    <3>2. SubSeq(Here.argv, Here.first, Here.last - 1) = <<>>
      <4>1. Here.first \in Int /\ Here.last - 1 \in Int /\ Here.last - 1 < Here.first
        BY <2>2
      <4> QED
        BY <4>1, SubSeqEmpty
    <3>3. Reached(Here, nextchar) = PassStart
      BY <1>2, <2>2, <3>2 DEF Reached, PassStart
    <3>4. Pass(given, ordering, 0) = PassStart
      BY <1>4, GetoptTyped, PassIs
    <3> QED
      BY <3>1, <3>3, <3>4
  <2>5. \A i \in Here.first .. Here.last - 1 : IsWord(Here.argv[i])
    BY <2>2
  <2> QED
    BY <1>2, <2>1, <2>2, <2>3, <2>4, <2>5, EmptySeq DEF ScanAt
<1> QED
  BY <1>4, <1>5, <1>6 DEF GetoptInv

\* There is more to read, and what nextchar has no part in has been skipped.
Ready(s) ==
    /\ ScanAt(s, nextchar)
    /\ nextchar = <<>> => /\ ordering = "permute" => AtOption(s)
                          /\ s.optind = argc \/ s.argv[s.optind].kind # "dashes"

\* A "--" has been found, or there was nothing more.
Over(s) ==
    s.argv \in Seq(Elements) /\ Len(s.argv) = Len(given) /\ s.optind = argc /\ Ended(s)

\* Before an element is looked at, the scan is where the pass is, or both have come to an end.
LEMMA AdvancedIs ==
    ASSUME GetoptTypes, ScanAt(Here, nextchar)
    PROVE  Ready(Advanced) \/ Over(Advanced)
<1>1. given \in Seq(Elements) /\ ordering \in Orderings /\ returned \in Seq(Answers)
  BY GetoptTyped
<1>2. Here \in Scans /\ MarksInOrder(Here)
  BY DEF ScanAt
<1>3. /\ optind \in Int /\ first_nonopt \in Int /\ last_nonopt \in Int
      /\ first_nonopt <= optind /\ last_nonopt <= optind
  BY <1>2 DEF Here, Scans, MarksInOrder
<1>4. Scan0 = Here
  BY <1>3 DEF Scan0, Here
<1>5. CASE nextchar # <<>>
  <2>1. Advanced = [[Scan0 EXCEPT !.first = first_nonopt] EXCEPT !.last = last_nonopt]
    BY <1>5 DEF Advanced
  <2> DEFINE z == [Scan0 EXCEPT !.first = first_nonopt]
  <2>2. z = Here
    BY <1>4 DEF Here
  <2> HIDE DEF z
  <2>3. [z EXCEPT !.last = last_nonopt] = Here
    BY <2>2 DEF Here
  <2>4. Advanced = Here
    BY <2>1, <2>3 DEF z
  <2> QED
    BY <2>4, <1>5 DEF Ready
<1>6. CASE nextchar = <<>>
  <2> DEFINE s == IF ordering = "permute" THEN SkipWords(Scan0) ELSE Scan0
  <2>1. Advanced = SkipDashes(s)
    BY <1>6 DEF Advanced
  <2>2. ScanAt(s, <<>>) /\ (ordering = "permute" => AtOption(s))
    <3>1. CASE ordering = "permute"
      <4>1. s = SkipWords(Here)
        BY <3>1, <1>4
      <4> QED
        BY <4>1, <3>1, <1>1, <1>6, SkipWordsIs
    <3>2. CASE ordering # "permute"
      <4>1. s = Here
        BY <3>2, <1>4
      <4> HIDE DEF s
      <4> QED
        BY <4>1, <3>2, <1>6
    <3> QED
      BY <3>1, <3>2
  <2> HIDE DEF s
  <2>3. CASE s.optind # argc /\ s.argv[s.optind].kind = "dashes"
    <3>1. ordering = "permute" => s.last = s.optind
      BY <2>2 DEF AtOption
    <3> QED
      BY <2>1, <2>2, <2>3, <3>1, <1>1, DashesLeft DEF Over
  <2>4. CASE ~ (s.optind # argc /\ s.argv[s.optind].kind = "dashes")
    <3>1. SkipDashes(s) = s
      BY <2>4 DEF SkipDashes
    <3> QED
      BY <2>1, <2>2, <2>4, <3>1, <1>6 DEF Ready
  <2> QED
    BY <2>3, <2>4
<1> QED
  BY <1>5, <1>6

\* The last call.
LEMMA EndKeeps ==
    ASSUME GetoptInv, ReturnsEnd
    PROVE  GetoptInv'
<1> DEFINE s == Advanced
           done == s.optind = argc
<1>1. /\ ~ finished
      /\ done \/ (~ done /\ nextchar = <<>> /\ IsWord(s.argv[s.optind]) /\ ordering = "require")
      /\ Leaves(s, IF done /\ s.first # s.last THEN s.first ELSE s.optind)
      /\ finished' = TRUE /\ returned' = returned
  BY DEF ReturnsEnd
<1>2. GetoptTypes /\ ScanAt(Here, nextchar)
  BY <1>1 DEF GetoptInv
<1>3. Ready(s) \/ Over(s)
  BY <1>2, AdvancedIs
<1>4. given \in Seq(Elements) /\ ordering \in Orderings /\ returned \in Seq(Answers)
  BY <1>2, GetoptTyped
<1> HIDE DEF s
<1>5. Ended(s) /\ s.argv \in Seq(Elements) /\ Len(s.argv) = Len(given)
  <2>1. CASE Over(s)
    BY <2>1 DEF Over
  <2>2. CASE Ready(s) /\ done
    <3>1. ScanAt(s, nextchar)
      BY <2>2 DEF Ready
    <3>2. nextchar = <<>>
      BY <3>1, <2>2, <1>4, ScanFacts DEF ScanAt
    <3>3. ordering = "permute" => s.last = s.optind
      BY <2>2, <3>2 DEF Ready, AtOption
    <3>4. Ended(s)
      BY <2>2, <3>1, <3>2, <3>3, <1>4, WordsLeft
    <3> QED
      BY <3>1, <3>4, <1>4, ScanFacts
  <2>3. CASE Ready(s) /\ ~ done
    <3>1. ScanAt(s, <<>>) /\ IsWord(s.argv[s.optind]) /\ ordering = "require"
      BY <2>3, <1>1 DEF Ready
    <3>2. Ended(s)
      BY <2>3, <3>1, <1>4, WordStops
    <3> QED
      BY <3>1, <3>2, <1>4, ScanFacts
  <2> QED
    BY <1>3, <2>1, <2>2, <2>3
<1>6. ~ done => s.first = s.last
  <2> SUFFICES ASSUME ~ done PROVE s.first = s.last
    OBVIOUS
  <2>1. ordering = "require" /\ Ready(s)
    BY <1>1, <1>3 DEF Over
  <2> QED
    BY <2>1 DEF Ready, ScanAt
<1>7. argv' = s.argv /\ optind' = EndFrom(s) /\ given' = given /\ ordering' = ordering
  BY <1>1, <1>6 DEF Leaves, EndFrom
<1>8. AnswersInOrder'
  BY <1>1, <1>5, <1>7 DEF AnswersInOrder, Ended
<1>9. GetoptTypes'
  BY <1>1, <1>2, <1>5, <1>7 DEF GetoptTypes
<1> QED
  BY <1>1, <1>8, <1>9 DEF GetoptInv

\* Where a call leaves the scan, if it reads one answer more.
LEMMA AnswerKeeps ==
    ASSUME GetoptTypes, NEW s, NEW letters, ScanAt(s, letters), NEW a \in Answers, NEW ind \in Int,
           NEW left \in Seq(STRING), s.optind <= ind, ind <= argc, left # <<>> => ind < argc,
           Pass(given, ordering, Len(returned) + 1 + (s.last - s.first)) =
               [i |-> ind, letters |-> left, answers |-> Append(returned, a),
                words |-> SubSeq(s.argv, s.first, s.last - 1), rest |-> <<>>, stage |-> "reading"],
           Leaves(s, ind), nextchar' = left, returned' = Append(returned, a), finished' = finished,
           ~ finished
    PROVE  GetoptInv'
<1>1. given \in Seq(Elements) /\ ordering \in Orderings /\ returned \in Seq(Answers)
  BY GetoptTyped
<1>2. /\ argv' = s.argv /\ optind' = ind /\ first_nonopt' = s.first /\ last_nonopt' = s.last
      /\ given' = given /\ ordering' = ordering
  BY DEF Leaves
<1>3. /\ s.argv \in Seq(Elements) /\ Len(s.argv) = Len(given) /\ Len(given) \in Nat
      /\ s.optind \in Int /\ s.first \in Int /\ s.last \in Int
      /\ 1 <= s.first /\ s.first <= s.last /\ s.last <= s.optind
  BY <1>1, ScanFacts
<1>4. returned' \in Seq(Answers) /\ Len(returned') = Len(returned) + 1
  BY <1>1, AppendProperties
<1>5. GetoptTypes'
  BY <1>1, <1>2, <1>3, <1>4 DEF GetoptTypes
<1>6. AnswersInOrder'
  BY DEF AnswersInOrder
<1>7. ScanAt(Here, nextchar)'
  <2>1. Here' = [argv |-> s.argv, optind |-> ind, first |-> s.first, last |-> s.last]
    BY <1>2 DEF Here
  <2>2. /\ (Here').argv = s.argv /\ (Here').optind = ind /\ (Here').first = s.first
        /\ (Here').last = s.last
    BY <2>1
  <2>3. (Here \in Scans)'
    BY <2>1, <1>2, <1>3 DEF Scans
  <2>4. MarksInOrder(Here)'
    BY <2>2, <1>2, <1>3 DEF MarksInOrder, argc
  <2>5. (\A i \in Here.optind .. Len(given) : Here.argv[i] = given[i])'
    <3> SUFFICES ASSUME NEW i \in ind .. Len(given) PROVE s.argv[i] = given[i]
      BY <2>2, <1>2
    <3>1. i \in s.optind .. Len(given)
      BY <1>3
    <3> QED
      BY <3>1 DEF ScanAt
  <2>6. (\A i \in Here.first .. Here.last - 1 : IsWord(Here.argv[i]))'
    BY <2>2 DEF ScanAt, IsWord
  <2>7. (nextchar \in Seq(STRING) /\ (nextchar # <<>> => Here.optind < argc))'
    BY <2>2, <1>2 DEF argc
  <2>8. (ordering # "permute" => Here.first = Here.last)'
    BY <2>2, <1>2 DEF ScanAt
  <2>9. (Pass(given, ordering, Len(returned) + (Here.last - Here.first)) = Reached(Here, nextchar))'
    BY <2>2, <1>2, <1>4 DEF Reached
  <2> QED
    BY <2>3, <2>4, <2>5, <2>6, <2>7, <2>8, <2>9 DEF ScanAt
<1> QED
  BY <1>5, <1>6, <1>7 DEF GetoptInv

\* RETURN_IN_ORDER: a word is an answer.
LEMMA WordKeeps ==
    ASSUME GetoptInv, ReturnsWord
    PROVE  GetoptInv'
<1> DEFINE s == Advanced
           a == Answer("word", s.argv[s.optind], <<>>, 1)
<1>1. /\ ~ finished /\ s.optind # argc
      /\ nextchar = <<>> /\ IsWord(s.argv[s.optind]) /\ ordering = "return"
      /\ Leaves(s, s.optind + 1)
      /\ returned' = Append(returned, a)
      /\ nextchar' = nextchar /\ finished' = finished
  BY DEF ReturnsWord
<1>2. GetoptTypes /\ ScanAt(Here, nextchar)
  BY <1>1 DEF GetoptInv
<1>3. Ready(s)
  BY <1>1, <1>2, AdvancedIs DEF Over
<1>4. given \in Seq(Elements) /\ returned \in Seq(Answers)
  BY <1>2, GetoptTyped
<1> HIDE DEF s
<1>5. ScanAt(s, <<>>)
  BY <1>1, <1>3 DEF Ready
<1>6. /\ a \in Answers
      /\ Pass(given, ordering, Len(returned) + 1 + (s.last - s.first)) =
             [i |-> s.optind + 1, letters |-> <<>>, answers |-> Append(returned, a),
              words |-> SubSeq(s.argv, s.first, s.last - 1), rest |-> <<>>, stage |-> "reading"]
  BY <1>1, <1>4, <1>5, WordStep
<1>7. s.optind + 1 \in Int /\ s.optind <= s.optind + 1 /\ s.optind + 1 <= argc /\ <<>> \in Seq(STRING)
  <2>1. s.optind \in 1 .. Len(given) /\ argc = Len(given) + 1 /\ Len(given) \in Nat
    BY <1>1, <1>4, <1>5, ScanFacts
  <2> QED
    BY <2>1, EmptySeq
<1> HIDE DEF a
<1> DEFINE ind == s.optind + 1
<1>8. nextchar' = <<>> /\ (<<>> # <<>> => ind < argc)
  BY <1>1
<1> HIDE DEF ind
<1> QED
  BY <1>1, <1>2, <1>5, <1>6, <1>7, <1>8, AnswerKeeps DEF ind

\* An option is an answer.
LEMMA OptionKeeps ==
    ASSUME GetoptInv, ReturnsOption
    PROVE  GetoptInv'
<1> DEFINE s == Advanced
           a == OneOption(s.argv[s.optind], nextchar, BehindScan(s))
<1>1. /\ ~ finished /\ s.optind # argc
      /\ nextchar # <<>> \/ ~ IsWord(s.argv[s.optind])
      /\ Leaves(s, s.optind + a.next)
      /\ nextchar' = a.left /\ returned' = Append(returned, a) /\ finished' = finished
  BY DEF ReturnsOption, BehindScan
<1>2. GetoptTypes /\ ScanAt(Here, nextchar)
  BY <1>1 DEF GetoptInv
<1>3. Ready(s)
  BY <1>1, <1>2, AdvancedIs DEF Over
<1>4. given \in Seq(Elements) /\ ordering \in Orderings /\ returned \in Seq(Answers)
  BY <1>2, GetoptTyped
<1> HIDE DEF s
<1>5. ScanAt(s, nextchar)
  BY <1>3 DEF Ready
<1>6. nextchar = <<>> => s.argv[s.optind].kind \notin {"dashes", "word"}
  BY <1>1, <1>3 DEF Ready, IsWord
<1>7. /\ GoodAnswer(a, BehindScan(s))
      /\ Pass(given, ordering, Len(returned) + 1 + (s.last - s.first)) =
             [i |-> s.optind + a.next, letters |-> a.left, answers |-> Append(returned, a),
              words |-> SubSeq(s.argv, s.first, s.last - 1), rest |-> <<>>, stage |-> "reading"]
  BY <1>1, <1>4, <1>5, <1>6, OptionStep
<1> HIDE DEF a
<1>8. /\ a \in Answers /\ a.next \in {0, 1, 2} /\ a.left \in Seq(STRING)
      /\ a.next = 2 => BehindScan(s) # <<>>
      /\ a.left # <<>> => a.next = 0
  BY <1>7 DEF GoodAnswer, Answers
<1> DEFINE ind == s.optind + a.next
<1>9. ind \in Int /\ s.optind <= ind /\ ind <= argc /\ (a.left # <<>> => ind < argc)
  <2>1. s.optind \in 1 .. Len(given) /\ argc = Len(given) + 1 /\ Len(given) \in Nat
    BY <1>1, <1>4, <1>5, ScanFacts
  <2>2. a.next = 2 => s.optind < Len(given)
    <3>1. BehindScan(s) = Behind(given, s.optind)
      BY <1>1, <1>4, <1>5, BehindScanIs
    <3> QED
      BY <2>1, <3>1, <1>4, <1>8, FollowingIs
  <2> QED
    BY <2>1, <2>2, <1>8
<1> HIDE DEF ind
<1> QED
  BY <1>1, <1>2, <1>5, <1>7, <1>8, <1>9, AnswerKeeps DEF ind

\* Whatever argv, the options and the ordering are: when getopt_long has returned -1,
\* the caller has got every option once, in the order given and with its own argument,
\* and finds the words, in the order given, from optind on; until then nothing that
\* has not been read is touched (getopt.c, exchange and _getopt_internal).
THEOREM ArgumentsKept == GetoptSpec => []ArgumentsInOrder
<1>1. ASSUME GetoptInv, [GetoptNext]_gvars PROVE GetoptInv'
  <2>1. CASE GetoptNext
    BY <1>1, <2>1, EndKeeps, WordKeeps, OptionKeeps DEF GetoptNext
  <2>2. CASE UNCHANGED gvars
    BY <1>1, <2>2 DEF gvars, GetoptInv, GetoptTypes, AnswersInOrder, ScanAt, Here, Scans, MarksInOrder, argc,
                      Reached
  <2> QED
    BY <1>1, <2>1, <2>2
<1>2. ASSUME GetoptInv PROVE ArgumentsInOrder
  <2> SUFFICES ASSUME ~ finished PROVE UnreadIsUntouched
    BY <1>2 DEF GetoptInv, ArgumentsInOrder, UnreadIsUntouched
  <2>1. GetoptTypes /\ ScanAt(Here, nextchar)
    BY <1>2 DEF GetoptInv
  <2>2. /\ Here.argv = argv /\ Here.optind = optind /\ Here.first = first_nonopt /\ Here.last = last_nonopt
    BY DEF Here
  <2> QED
    BY <2>1, <2>2 DEF UnreadIsUntouched, ScanAt, MarksInOrder, GetoptTypes
<1> QED
  BY <1>1, <1>2, GetoptStarts, PTL DEF GetoptSpec

-----------------------------------------------------------------------------
(* Header fields: Text                                                     *)

LEMMA JoinedIs ==
    ASSUME NEW S, NEW a \in Seq(S), NEW b \in Seq(S)
    PROVE  /\ Joined(a, b) \in Seq(S) /\ Len(Joined(a, b)) = Len(a) + Len(b)
           /\ \A i \in 1 .. Len(a) : Joined(a, b)[i] = a[i]
           /\ \A i \in 1 .. Len(b) : Joined(a, b)[Len(a) + i] = b[i]
<1>1. /\ Joined(a, b) \in Seq(S) /\ Len(Joined(a, b)) = Len(a) + Len(b)
      /\ \A i \in 1 .. Len(a) + Len(b) : Joined(a, b)[i] = IF i <= Len(a) THEN a[i] ELSE b[i - Len(a)]
  BY ConcatProperties DEF Joined
<1> DEFINE n == Len(a)
           m == Len(b)
           j == Joined(a, b)
<1>2. n \in Nat /\ m \in Nat
  BY LenProperties
<1>3. \A i \in 1 .. n + m : j[i] = IF i <= n THEN a[i] ELSE b[i - n]
  BY <1>1
<1> HIDE DEF n, m, j
<1>4. ASSUME NEW i \in 1 .. n PROVE j[i] = a[i]
  BY <1>2, <1>3
<1>5. ASSUME NEW i \in 1 .. m PROVE j[n + i] = b[i]
  <2>1. n + i \in 1 .. n + m /\ ~ (n + i <= n) /\ (n + i) - n = i
    BY <1>2
  <2> QED
    BY <2>1, <1>3
<1> QED
  BY <1>1, <1>4, <1>5 DEF n, m, j

LEMMA LongerIs ==
    ASSUME NEW S, NEW a \in Seq(S), NEW e \in S
    PROVE  /\ Longer(a, e) \in Seq(S) /\ Len(Longer(a, e)) = Len(a) + 1
           /\ \A i \in 1 .. Len(a) : Longer(a, e)[i] = a[i]
           /\ Longer(a, e)[Len(a) + 1] = e
  BY AppendProperties DEF Longer

LEMMA SameSeq ==
    ASSUME NEW S, NEW a \in Seq(S), NEW b \in Seq(S), Len(a) = Len(b), \A i \in 1 .. Len(a) : a[i] = b[i]
    PROVE  a = b
  BY SeqEqual

\* Joining is associative.
LEMMA JoinedTwice ==
    ASSUME NEW S, NEW a \in Seq(S), NEW b \in Seq(S), NEW c \in Seq(S)
    PROVE  Joined(Joined(a, b), c) = Joined(a, Joined(b, c))
  BY ConcatAssociative DEF Joined

LEMMA JoinedNothing ==
    ASSUME NEW S, NEW a \in Seq(S)
    PROVE  Joined(a, <<>>) = a /\ Joined(<<>>, a) = a
  BY ConcatEmptySeq DEF Joined

\* A sequence of one element.
LEMMA LongerOne ==
    ASSUME NEW S, NEW a \in Seq(S), NEW e \in S
    PROVE  Joined(a, <<e>>) = Longer(a, e)
  BY AppendIsConcat DEF Joined, Longer

-----------------------------------------------------------------------------
(* Header fields: The states of Parse                                      *)

\* What a text is made of.
Glyphs == STRING \cup {CR, LF, Colon, Blank, "OK"}
MapNames == Glyphs \cup {"Status", NoName}

\* Maps of fields.
Maps == UNION {[D -> Seq(Glyphs)] : D \in SUBSET MapNames}

LEMMA WithIs ==
    ASSUME NEW m \in Maps, NEW k \in MapNames, NEW v \in Seq(Glyphs)
    PROVE  With(m, k, v) \in Maps
<1>1. PICK D \in SUBSET MapNames : m \in [D -> Seq(Glyphs)]
  BY DEF Maps
<1>2. D \cup {k} \in SUBSET MapNames
  OBVIOUS
<1>3. With(m, k, v) \in [D \cup {k} -> Seq(Glyphs)]
  BY <1>1 DEF With
<1> QED
  BY <1>2, <1>3 DEF Maps

LEMMA NoFieldsIs == NoFields \in Maps /\ DOMAIN NoFields = {}
<1>1. DOMAIN NoFields = {}
  BY DEF NoFields
<1>2. NoFields \in [{} -> Seq(Glyphs)]
  BY DEF NoFields
<1>3. {} \in SUBSET MapNames
  OBVIOUS
<1> QED
  BY <1>1, <1>2, <1>3 DEF Maps

\* Where Parse can be.
State(part, key, value, found, length) ==
    [part |-> part, key |-> key, value |-> value, found |-> found, length |-> length]
ParseStates ==
    [part : {"key", "value", "over"}, key : Seq(Glyphs), value : Seq(Glyphs), found : Maps, length : Nat]

LEMMA StateIs ==
    ASSUME NEW p \in ParseStates
    PROVE  p = State(p.part, p.key, p.value, p.found, p.length)
  BY DEF ParseStates, State

\* The end of a line.
LineState(key, value, found, length) ==
    State("key", <<>>, <<>>,
          IF found = NoFields THEN With(found, "Status", SubSeq(key, 3, IF Len(key) < 3 THEN 2 ELSE 3))
          ELSE With(found, KeyName(key), SubSeq(value, 2, Len(value) - 1)), length)

\* What a character does, case by case.
LEMMA CharacterIs ==
    ASSUME NEW part \in {"key", "value"}, NEW key, NEW value, NEW found, NEW n, NEW c
    PROVE  LET p == State(part, key, value, found, n) IN
           /\ c = Colon => Character(p, c) = State("value", key, value, found, n + 1)
           /\ c # Colon /\ c = LF /\ key # <<>> /\ key[1] = CR =>
                  Character(p, c) = State("over", key, value, found, n + 1)
           /\ c # Colon /\ c = LF /\ ~ (key # <<>> /\ key[1] = CR) =>
                  Character(p, c) = LineState(key, value, found, n + 1)
           /\ c # Colon /\ c # LF /\ part = "value" =>
                  Character(p, c) = State("value", key, Append(value, c), found, n + 1)
           /\ c # Colon /\ c # LF /\ part = "key" =>
                  Character(p, c) = State("key", Append(key, c), value, found, n + 1)
<1> DEFINE p == State(part, key, value, found, n)
           q == [p EXCEPT !.length = @ + 1]
<1>0. p.part = part /\ p.part # "over"
  BY DEF State
<1>1. q = State(part, key, value, found, n + 1)
  BY DEF State
<1>2. Character(p, c) =
          IF c = Colon THEN [q EXCEPT !.part = "value"]
          ELSE IF c = LF THEN LineEnds(q)
          ELSE IF part = "value" THEN [q EXCEPT !.value = Append(@, c)]
          ELSE [q EXCEPT !.key = Append(@, c)]
  BY <1>0 DEF Character
<1> HIDE DEF q
<1>3. [q EXCEPT !.part = "value"] = State("value", key, value, found, n + 1)
  BY <1>1 DEF State
<1>4. [q EXCEPT !.part = "over"] = State("over", key, value, found, n + 1)
  BY <1>1 DEF State
<1>5. ASSUME NEW e PROVE [q EXCEPT !.value = e] = State(part, key, e, found, n + 1)
  BY <1>1 DEF State
<1>6. ASSUME NEW e PROVE [q EXCEPT !.key = e] = State(part, e, value, found, n + 1)
  BY <1>1 DEF State
<1>7. q.key = key /\ q.value = value /\ q.found = found /\ q.length = n + 1
  BY <1>1 DEF State
<1>8. LineEnds(q) = IF key # <<>> /\ key[1] = CR THEN State("over", key, value, found, n + 1)
                    ELSE LineState(key, value, found, n + 1)
  BY <1>4, <1>7 DEF LineEnds, LineState, State
<1>9. [q EXCEPT !.value = Append(@, c)] = State(part, key, Append(value, c), found, n + 1)
  BY <1>5, <1>7
<1>10. [q EXCEPT !.key = Append(@, c)] = State(part, Append(key, c), value, found, n + 1)
  BY <1>6, <1>7
<1> HIDE DEF p
<1>11. Character(p, c) =
          IF c = Colon THEN State("value", key, value, found, n + 1)
          ELSE IF c = LF THEN IF key # <<>> /\ key[1] = CR THEN State("over", key, value, found, n + 1)
                              ELSE LineState(key, value, found, n + 1)
          ELSE IF part = "value" THEN State(part, key, Append(value, c), found, n + 1)
          ELSE State(part, Append(key, c), value, found, n + 1)
  BY <1>2, <1>3, <1>8, <1>9, <1>10, Zenon
<1> QED
  BY <1>11 DEF p

-----------------------------------------------------------------------------
(* Header fields: Parse reads character by character                       *)

\* Every character leads from a state to a state.
LEMMA LineStateIs ==
    ASSUME NEW key \in Seq(Glyphs), NEW value \in Seq(Glyphs), NEW found \in Maps, NEW n \in Nat
    PROVE  LineState(key, value, found, n) \in ParseStates
<1>1. "Status" \in MapNames /\ KeyName(key) \in MapNames
  <2>1. key # <<>> => key[1] \in Glyphs
    <3> SUFFICES ASSUME key # <<>> PROVE key[1] \in Glyphs
      OBVIOUS
    <3>1. Len(key) \in Nat /\ Len(key) # 0
      BY LenProperties, EmptySeq
    <3> QED
      BY <3>1, ElementOfSeq
  <2> QED
    BY <2>1 DEF KeyName, MapNames
<1>2. SubSeq(key, 3, IF Len(key) < 3 THEN 2 ELSE 3) \in Seq(Glyphs)
  <2> DEFINE m == IF Len(key) < 3 THEN 2 ELSE 3
  <2>1. m \in Int /\ \A i \in 3 .. m : i \in 1 .. Len(key)
    BY LenProperties
  <2>2. \A i \in 3 .. m : key[i] \in Glyphs
    BY <2>1, ElementOfSeq
  <2> HIDE DEF m
  <2>3. SubSeq(key, 3, m) \in Seq(Glyphs)
    BY <2>1, <2>2, SubSeqProperties
  <2> QED
    BY <2>3 DEF m
<1>3. SubSeq(value, 2, Len(value) - 1) \in Seq(Glyphs)
  <2> DEFINE m == Len(value) - 1
  <2>1. m \in Int /\ \A i \in 2 .. m : i \in 1 .. Len(value)
    BY LenProperties
  <2>2. \A i \in 2 .. m : value[i] \in Glyphs
    BY <2>1, ElementOfSeq
  <2> HIDE DEF m
  <2>3. SubSeq(value, 2, m) \in Seq(Glyphs)
    BY <2>1, <2>2, SubSeqProperties
  <2> QED
    BY <2>3 DEF m
<1> DEFINE first == With(found, "Status", SubSeq(key, 3, IF Len(key) < 3 THEN 2 ELSE 3))
           other == With(found, KeyName(key), SubSeq(value, 2, Len(value) - 1))
<1>4. first \in Maps /\ other \in Maps
  BY <1>1, <1>2, <1>3, WithIs
<1>5. <<>> \in Seq(Glyphs)
  BY EmptySeq
<1>6. LineState(key, value, found, n) =
          State("key", <<>>, <<>>, IF found = NoFields THEN first ELSE other, n)
  BY DEF LineState
<1> HIDE DEF first, other
<1> QED
  BY <1>4, <1>5, <1>6 DEF State, ParseStates

LEMMA CharacterLeads ==
    ASSUME NEW p \in ParseStates, NEW c \in Glyphs
    PROVE  Character(p, c) \in ParseStates
<1>1. CASE p.part = "over"
  BY <1>1 DEF Character
<1>2. CASE p.part # "over"
  <2> PICK part \in {"key", "value"}, key \in Seq(Glyphs), value \in Seq(Glyphs), found \in Maps, n \in Nat :
         p = State(part, key, value, found, n)
    <3>1. p.part \in {"key", "value"} /\ p.key \in Seq(Glyphs) /\ p.value \in Seq(Glyphs) /\ p.found \in Maps /\ p.length \in Nat
      BY <1>2 DEF ParseStates
    <3> QED
      BY <3>1, StateIs
  <2> DEFINE s1 == State("value", key, value, found, n + 1)
             s2 == State("over", key, value, found, n + 1)
             s3 == LineState(key, value, found, n + 1)
             s4 == State("value", key, Append(value, c), found, n + 1)
             s5 == State("key", Append(key, c), value, found, n + 1)
  <2>1. n + 1 \in Nat /\ Append(value, c) \in Seq(Glyphs) /\ Append(key, c) \in Seq(Glyphs)
    BY AppendProperties
  <2>2. s1 \in ParseStates /\ s2 \in ParseStates /\ s4 \in ParseStates /\ s5 \in ParseStates
    BY <2>1 DEF State, ParseStates
  <2>3. s3 \in ParseStates
    BY <2>1, LineStateIs
  <2>4. Character(p, c) \in {s1, s2, s3, s4, s5}
    <3>1. /\ c = Colon => Character(p, c) = s1
          /\ c # Colon /\ c = LF /\ key # <<>> /\ key[1] = CR => Character(p, c) = s2
          /\ c # Colon /\ c = LF /\ ~ (key # <<>> /\ key[1] = CR) => Character(p, c) = s3
          /\ c # Colon /\ c # LF /\ part = "value" => Character(p, c) = s4
          /\ c # Colon /\ c # LF /\ part = "key" => Character(p, c) = s5
      BY CharacterIs
    <3> HIDE DEF s1, s2, s3, s4, s5
    <3> QED
      BY <3>1
  <2> HIDE DEF s1, s2, s3, s4, s5
  <2> QED
    BY <2>2, <2>3, <2>4
<1> QED
  BY <1>1, <1>2

LEMMA StartIs == Start \in ParseStates /\ Start = State("key", <<>>, <<>>, NoFields, 0)
  BY NoFieldsIs, EmptySeq DEF Start, ParseStates, State

\* What Parse has read: a run over the text.
Runs(f, t) ==
    /\ f \in [0 .. Len(t) -> ParseStates] /\ f[0] = Start
    /\ \A i \in 1 .. Len(t) : f[i] = Character(f[i - 1], t[i])

LEMMA ParsedRuns ==
    ASSUME NEW t \in Seq(Glyphs)
    PROVE  \E f : Runs(f, t) /\ Parsed(t) = f[Len(t)]
<1> DEFINE N == Len(t)
           S == ParseStates
           Body(f) == [i \in 0 .. N |-> IF i = 0 THEN Start ELSE Character(f[i - 1], t[i])]
           f0 == CHOOSE f : f = Body(f)
           step == [i \in 1 .. N |-> [x \in S |-> Character(x, t[i])]]
<1>1. N \in Nat
  BY LenProperties
<1>2. Parsed(t) = f0[N]
  BY DEF Parsed
<1>3. \A i \in 1 .. N : t[i] \in Glyphs
  BY ElementOfSeq
<1>5. ASSUME NEW i \in 1 .. N, NEW x \in S PROVE Character(x, t[i]) \in S
  BY <1>3, CharacterLeads
<1>6. step \in [1 .. N -> [S -> S]]
  <2> HIDE DEF S, N
  <2> QED
    BY <1>5
<1>7. \E f : Recurs(f, S, Start, N, step)
  <2>1. Start \in S
    BY StartIs
  <2> HIDE DEF S, N, step
  <2> QED
    BY <1>1, <1>6, <2>1, Recursion, Zenon
<1>8. PICK g : g \in [0 .. N -> S] /\ g[0] = Start /\ \A i \in 1 .. N : g[i] = Character(g[i - 1], t[i])
  <2> PICK g : Recurs(g, S, Start, N, step)
    BY <1>7
  <2> HIDE DEF S, N
  <2>1. g \in [0 .. N -> S] /\ g[0] = Start /\ \A i \in 1 .. N : g[i] = step[i][g[i - 1]]
    BY DEF Recurs
  <2>2. ASSUME NEW i \in 1 .. N PROVE g[i] = Character(g[i - 1], t[i])
    <3>1. i - 1 \in 0 .. N
      BY <1>1
    <3>2. g[i - 1] \in S
      BY <3>1, <2>1
    <3> QED
      BY <2>1, <3>2
  <2> QED
    BY <2>1, <2>2
<1>9. Runs(f0, t)
  <2> HIDE DEF S, N
  <2>1. g = Body(g)
    <3>1. \A i \in 0 .. N : i # 0 => i \in 1 .. N
      BY <1>1
    <3> QED
      BY <1>8, <3>1
  <2>2. f0 = Body(f0)
    <3> HIDE DEF Body
    <3> QED
      BY <2>1
  <2> HIDE DEF f0
  <2>3. DOMAIN f0 = 0 .. N
    BY <2>2
  <2>4. f0[0] = Start
    <3>1. 0 \in 0 .. N
      BY <1>1
    <3> QED
      BY <2>2, <3>1
  <2>5. ASSUME NEW i \in 1 .. N PROVE f0[i] = Character(f0[i - 1], t[i])
    <3>1. i \in 0 .. N /\ i # 0
      BY <1>1
    <3> QED
      BY <2>2, <3>1
  <2>6. \A i \in 0 .. N : f0[i] \in S
    <3> DEFINE P == {i \in 0 .. N : f0[i] \in S}
    <3>1. 0 \in P
      BY <2>4, <1>1, StartIs DEF S
    <3>2. \A i \in 1 .. N : i - 1 \in P => i \in P
      BY <2>5, <1>5, <1>1
    <3>3. 0 .. N \subseteq P
      <4> HIDE DEF P
      <4> QED
        BY <1>1, <3>1, <3>2, Inductive
    <3> QED
      BY <3>3
  <2>7. f0 \in [0 .. N -> S]
    BY <2>2, <2>3, <2>6
  <2> QED
    BY <2>4, <2>5, <2>7 DEF Runs, N, S
<1> QED
  BY <1>2, <1>9

\* There is one run over a text and, for a text that goes on, as far as the text goes.
LEMMA RunsAgree ==
    ASSUME NEW t \in Seq(Glyphs), NEW u \in Seq(Glyphs), Len(t) <= Len(u),
           \A i \in 1 .. Len(t) : t[i] = u[i], NEW f, NEW g, Runs(f, t), Runs(g, u)
    PROVE  f[Len(t)] = g[Len(t)]
<1> DEFINE n == Len(t)
           m == Len(u)
           P == {i \in 0 .. n : f[i] = g[i]}
<1>1. n \in Nat /\ m \in Nat /\ n <= m
  BY LenProperties
<1>2. /\ f[0] = Start /\ g[0] = Start
      /\ \A i \in 1 .. n : f[i] = Character(f[i - 1], t[i])
      /\ \A i \in 1 .. m : g[i] = Character(g[i - 1], u[i])
  BY DEF Runs
<1>3. \A i \in 1 .. n : t[i] = u[i]
  OBVIOUS
<1> HIDE DEF n, m
<1>4. 0 \in P
  BY <1>1, <1>2
<1>5. ASSUME NEW i \in 1 .. n, i - 1 \in P PROVE i \in P
  <2>1. i \in 1 .. m /\ i \in 0 .. n
    BY <1>1
  <2>2. f[i - 1] = g[i - 1] /\ t[i] = u[i]
    BY <1>3, <1>5
  <2>3. f[i] = Character(f[i - 1], t[i]) /\ g[i] = Character(g[i - 1], u[i])
    BY <1>2, <2>1
  <2> QED
    BY <2>1, <2>2, <2>3
<1>6. 0 .. n \subseteq P
  <2> HIDE DEF P
  <2> QED
    BY <1>1, <1>4, <1>5, Inductive
<1> QED
  BY <1>1, <1>6 DEF n

\* Parse reads character by character.
LEMMA ParsedGrows ==
    /\ Parsed(<<>>) = Start
    /\ \A t \in Seq(Glyphs) : Parsed(t) \in ParseStates
    /\ \A t \in Seq(Glyphs) : \A c \in Glyphs : Parsed(Longer(t, c)) = Character(Parsed(t), c)
<1>1. Parsed(<<>>) = Start
  <2>1. <<>> \in Seq(Glyphs) /\ Len(<<>>) = 0
    BY EmptySeq
  <2> PICK f : Runs(f, <<>>) /\ Parsed(<<>>) = f[Len(<<>>)]
    BY <2>1, ParsedRuns
  <2> QED
    BY <2>1 DEF Runs
<1>2. ASSUME NEW t \in Seq(Glyphs) PROVE Parsed(t) \in ParseStates
  <2> PICK f : Runs(f, t) /\ Parsed(t) = f[Len(t)]
    BY ParsedRuns
  <2>1. Len(t) \in 0 .. Len(t)
    BY LenProperties
  <2> QED
    BY <2>1 DEF Runs
<1>3. ASSUME NEW t \in Seq(Glyphs), NEW c \in Glyphs PROVE Parsed(Longer(t, c)) = Character(Parsed(t), c)
  <2> DEFINE u == Longer(t, c)
             n == Len(t)
  <2>1. u \in Seq(Glyphs) /\ Len(u) = n + 1 /\ (\A i \in 1 .. n : u[i] = t[i]) /\ u[n + 1] = c
    BY LongerIs
  <2>0. n \in Nat
    BY LenProperties
  <2> HIDE DEF u
  <2> PICK f : Runs(f, t) /\ Parsed(t) = f[n]
    BY ParsedRuns
  <2> PICK g : Runs(g, u) /\ Parsed(u) = g[Len(u)]
    BY <2>1, ParsedRuns
  <2>2. f[n] = g[n]
    <3>1. Len(t) <= Len(u) /\ \A i \in 1 .. Len(t) : t[i] = u[i]
      BY <2>0, <2>1
    <3> QED
      BY <2>1, <3>1, RunsAgree
  <2>3. n + 1 \in 1 .. Len(u) /\ (n + 1) - 1 = n
    BY <2>0, <2>1
  <2>4. g[n + 1] = Character(g[(n + 1) - 1], u[n + 1])
    BY <2>3 DEF Runs
  <2> QED
    BY <2>1, <2>2, <2>3, <2>4 DEF u
<1> QED
  BY <1>1, <1>2, <1>3

-----------------------------------------------------------------------------
(* Header fields: Values and their colons                                  *)

\* Induction over sequences.
LEMMA ByGrowth ==
    ASSUME NEW S, NEW P, <<>> \in P, \A t \in Seq(S) : \A c \in S : t \in P => Longer(t, c) \in P
    PROVE  Seq(S) \subseteq P
<1> SUFFICES ASSUME NEW t \in Seq(S) PROVE t \in P
  OBVIOUS
<1> DEFINE n == Len(t)
           front(i) == SubSeq(t, 1, i)
           Q == {i \in 0 .. n : front(i) \in P}
<1>1. n \in Nat
  BY LenProperties
<1>2. ASSUME NEW i \in 0 .. n PROVE front(i) \in Seq(S)
  <2>1. \A j \in 1 .. i : t[j] \in S
    BY <1>1, ElementOfSeq
  <2>2. i \in Int
    BY <1>1
  <2> QED
    BY <2>1, <2>2, SubSeqProperties
<1>3. front(0) = <<>>
  BY SubSeqEmpty
<1>4. ASSUME NEW i \in 1 .. n PROVE front(i) = Longer(front(i - 1), t[i])
  <2>1. i - 1 \in 0 .. n /\ t[i] \in S
    BY <1>1, ElementOfSeq
  <2>2. SubSeq(t, 1, i) = SubSeq(t, 1, i - 1) \o <<t[i]>>
    BY <1>1, SubSeqRecursiveSecond
  <2>3. SubSeq(t, 1, i - 1) \in Seq(S)
    BY <1>2, <2>1
  <2>4. SubSeq(t, 1, i) = Append(SubSeq(t, 1, i - 1), t[i])
    BY <2>1, <2>2, <2>3, AppendIsConcat
  <2> QED
    BY <2>4 DEF Longer
<1>5. front(n) = t
  BY SubSeqFull
<1> HIDE DEF front, n
<1>6. 0 \in Q
  BY <1>1, <1>3
<1>7. ASSUME NEW i \in 1 .. n, i - 1 \in Q PROVE i \in Q
  <2>1. i \in 0 .. n /\ i - 1 \in 0 .. n
    BY <1>1
  <2>2. front(i - 1) \in Seq(S) /\ front(i - 1) \in P
    BY <1>2, <1>7, <2>1
  <2>3. t[i] \in S
    BY ElementOfSeq DEF n
  <2> QED
    BY <1>4, <2>1, <2>2, <2>3
<1>8. 0 .. n \subseteq Q
  <2> HIDE DEF Q
  <2> QED
    BY <1>1, <1>6, <1>7, Inductive
<1> QED
  BY <1>1, <1>5, <1>8

\* A value without its colons, character by character.
Filters(f, v, S) ==
    /\ f \in [0 .. Len(v) -> Seq(S)] /\ f[0] = <<>>
    /\ \A i \in 1 .. Len(v) : f[i] = IF v[i] = Colon THEN f[i - 1] ELSE Append(f[i - 1], v[i])

LEMMA NoColonsKeeps ==
    ASSUME NEW A, NEW v \in Seq(A)
    PROVE  \E f : Filters(f, v, A) /\ NoColons(v) = f[Len(v)]
<1> DEFINE N == Len(v)
           S == Seq(A)
           Body(f) == [i \in 0 .. N |-> IF i = 0 THEN <<>>
                                        ELSE IF v[i] = Colon THEN f[i - 1] ELSE Append(f[i - 1], v[i])]
           f0 == CHOOSE f : f = Body(f)
           next(x, i) == IF v[i] = Colon THEN x ELSE Append(x, v[i])
           step == [i \in 1 .. N |-> [x \in S |-> next(x, i)]]
<1>1. N \in Nat /\ <<>> \in S
  BY LenProperties, EmptySeq
<1>2. NoColons(v) = f0[N]
  BY DEF NoColons
<1>3. \A i \in 1 .. N : v[i] \in A
  BY ElementOfSeq
<1>5. ASSUME NEW i \in 1 .. N, NEW x \in S PROVE next(x, i) \in S
  <2>1. v[i] \in A
    BY <1>3
  <2> QED
    BY <2>1, AppendProperties
<1>6. step \in [1 .. N -> [S -> S]]
  <2> HIDE DEF S, N, next
  <2> QED
    BY <1>5
<1>7. \E f : Recurs(f, S, <<>>, N, step)
  <2> HIDE DEF S, N, step
  <2> QED
    BY <1>1, <1>6, Recursion, Zenon
<1>8. PICK g : g \in [0 .. N -> S] /\ g[0] = <<>> /\ \A i \in 1 .. N : g[i] = next(g[i - 1], i)
  <2> PICK g : Recurs(g, S, <<>>, N, step)
    BY <1>7
  <2> HIDE DEF S, N, next
  <2>1. g \in [0 .. N -> S] /\ g[0] = <<>> /\ \A i \in 1 .. N : g[i] = step[i][g[i - 1]]
    BY DEF Recurs
  <2>2. ASSUME NEW i \in 1 .. N PROVE g[i] = next(g[i - 1], i)
    <3>1. i - 1 \in 0 .. N
      BY <1>1
    <3>2. g[i - 1] \in S
      BY <3>1, <2>1
    <3> QED
      BY <2>1, <3>2
  <2> QED
    BY <2>1, <2>2
<1>9. Filters(f0, v, A)
  <2>0. \A f : Body(f) = [i \in 0 .. N |-> IF i = 0 THEN <<>> ELSE next(f[i - 1], i)]
    OBVIOUS
  <2>n. \A x, i : next(x, i) = IF v[i] = Colon THEN x ELSE Append(x, v[i])
    OBVIOUS
  <2> HIDE DEF S, N, next
  <2>1. g = Body(g)
    <3>1. \A i \in 0 .. N : i # 0 => i \in 1 .. N
      BY <1>1
    <3>2. g = [i \in 0 .. N |-> IF i = 0 THEN <<>> ELSE next(g[i - 1], i)]
      BY <1>8, <3>1
    <3> HIDE DEF Body
    <3> QED
      BY <2>0, <3>2
  <2>2. f0 = Body(f0)
    <3> HIDE DEF Body
    <3> QED
      BY <2>1
  <2> HIDE DEF f0
  <2>3. f0 = [i \in 0 .. N |-> IF i = 0 THEN <<>> ELSE next(f0[i - 1], i)]
    <3> HIDE DEF Body
    <3> QED
      BY <2>0, <2>2
  <2>4. f0[0] = <<>>
    <3>1. 0 \in 0 .. N
      BY <1>1
    <3> QED
      BY <2>3, <3>1
  <2>5. ASSUME NEW i \in 1 .. N PROVE f0[i] = next(f0[i - 1], i)
    <3>1. i \in 0 .. N /\ i # 0
      BY <1>1
    <3> QED
      BY <2>3, <3>1
  <2>6. \A i \in 0 .. N : f0[i] \in S
    <3> DEFINE P == {i \in 0 .. N : f0[i] \in S}
    <3>1. 0 \in P
      BY <2>4, <1>1
    <3>2. \A i \in 1 .. N : i - 1 \in P => i \in P
      BY <2>5, <1>5, <1>1
    <3>3. 0 .. N \subseteq P
      <4> HIDE DEF P
      <4> QED
        BY <1>1, <3>1, <3>2, Inductive
    <3> QED
      BY <3>3
  <2>7. f0 \in [0 .. N -> S]
    BY <2>3, <2>6
  <2>8. \A i \in 1 .. N : f0[i] = IF v[i] = Colon THEN f0[i - 1] ELSE Append(f0[i - 1], v[i])
    BY <2>5, <2>n, Zenon
  <2> QED
    BY <2>4, <2>8, <2>7, Zenon DEF Filters, N, S
<1> QED
  BY <1>2, <1>9

LEMMA KeptAgree ==
    ASSUME NEW A, NEW t \in Seq(A), NEW u \in Seq(A), Len(t) <= Len(u),
           \A i \in 1 .. Len(t) : t[i] = u[i], NEW f, NEW g, Filters(f, t, A), Filters(g, u, A)
    PROVE  f[Len(t)] = g[Len(t)]
<1> DEFINE n == Len(t)
           m == Len(u)
           P == {i \in 0 .. n : f[i] = g[i]}
           next(x, c) == IF c = Colon THEN x ELSE Append(x, c)
<1>1. n \in Nat /\ m \in Nat /\ n <= m
  BY LenProperties
<1>2. /\ f[0] = <<>> /\ g[0] = <<>>
      /\ \A i \in 1 .. n : f[i] = next(f[i - 1], t[i])
      /\ \A i \in 1 .. m : g[i] = next(g[i - 1], u[i])
  BY DEF Filters
<1>3. \A i \in 1 .. n : t[i] = u[i]
  OBVIOUS
<1> HIDE DEF n, m, next
<1>4. 0 \in P
  BY <1>1, <1>2
<1>5. ASSUME NEW i \in 1 .. n, i - 1 \in P PROVE i \in P
  <2>1. i \in 1 .. m /\ i \in 0 .. n
    BY <1>1
  <2>2. f[i - 1] = g[i - 1] /\ t[i] = u[i]
    BY <1>3, <1>5
  <2>3. f[i] = next(f[i - 1], t[i]) /\ g[i] = next(g[i - 1], u[i])
    BY <1>2, <2>1
  <2> QED
    BY <2>1, <2>2, <2>3
<1>6. 0 .. n \subseteq P
  <2> HIDE DEF P
  <2> QED
    BY <1>1, <1>4, <1>5, Inductive
<1> QED
  BY <1>1, <1>6 DEF n

LEMMA NoColonsGrows ==
    ASSUME NEW A
    PROVE  /\ NoColons(<<>>) = <<>>
           /\ \A v \in Seq(A) : NoColons(v) \in Seq(A)
           /\ \A v \in Seq(A) : \A c \in A :
                 NoColons(Longer(v, c)) = IF c = Colon THEN NoColons(v) ELSE Longer(NoColons(v), c)
<1>1. NoColons(<<>>) = <<>>
  <2>1. <<>> \in Seq(A) /\ Len(<<>>) = 0
    BY EmptySeq
  <2> PICK f : Filters(f, <<>>, A) /\ NoColons(<<>>) = f[Len(<<>>)]
    BY <2>1, NoColonsKeeps
  <2> QED
    BY <2>1 DEF Filters
<1>2. ASSUME NEW v \in Seq(A) PROVE NoColons(v) \in Seq(A)
  <2> PICK f : Filters(f, v, A) /\ NoColons(v) = f[Len(v)]
    BY NoColonsKeeps
  <2>1. Len(v) \in 0 .. Len(v)
    BY LenProperties
  <2> QED
    BY <2>1 DEF Filters
<1>3. ASSUME NEW v \in Seq(A), NEW c \in A
      PROVE  NoColons(Longer(v, c)) = IF c = Colon THEN NoColons(v) ELSE Longer(NoColons(v), c)
  <2> DEFINE u == Longer(v, c)
             n == Len(v)
  <2>1. u \in Seq(A) /\ Len(u) = n + 1 /\ (\A i \in 1 .. n : u[i] = v[i]) /\ u[n + 1] = c
    BY LongerIs
  <2>0. n \in Nat
    BY LenProperties
  <2> HIDE DEF u
  <2> PICK f : Filters(f, v, A) /\ NoColons(v) = f[n]
    BY NoColonsKeeps
  <2> PICK g : Filters(g, u, A) /\ NoColons(u) = g[Len(u)]
    BY <2>1, NoColonsKeeps
  <2>2. f[n] = g[n]
    <3>1. Len(v) <= Len(u) /\ \A i \in 1 .. Len(v) : v[i] = u[i]
      BY <2>0, <2>1
    <3> QED
      BY <2>1, <3>1, KeptAgree
  <2>3. n + 1 \in 1 .. Len(u) /\ (n + 1) - 1 = n
    BY <2>0, <2>1
  <2>4. g[n + 1] = IF u[n + 1] = Colon THEN g[(n + 1) - 1] ELSE Longer(g[(n + 1) - 1], u[n + 1])
    BY <2>3 DEF Filters, Longer
  <2> QED
    BY <2>1, <2>2, <2>3, <2>4 DEF u
<1> QED
  BY <1>1, <1>2, <1>3

-----------------------------------------------------------------------------
(* Header fields: A field of an answer                                     *)

\* What a line is made of.
Unbroken == Glyphs \ {CR, LF}

LEMMA GlyphsIs ==
    /\ CR \in Glyphs /\ LF \in Glyphs /\ Colon \in Unbroken /\ Blank \in Unbroken /\ "OK" \in Unbroken /\ "OK" # Colon
    /\ CR # LF /\ CR # Colon /\ LF # Colon /\ Blank # Colon
    /\ Unbroken \subseteq Glyphs /\ \A v \in Seq(Unbroken) : v \in Seq(Glyphs)
<1>1. \A v \in Seq(Unbroken) : v \in Seq(Glyphs)
  <2>1. Unbroken \subseteq Glyphs
    BY DEF Unbroken
  <2> QED
    BY <2>1, SeqMonotonic
<1> QED
  BY <1>1 DEF Glyphs, Unbroken, CR, LF, Colon, Blank

\* A colon, a character of a key or of a value, and the end of a line.
LEMMA Reads ==
    ASSUME NEW t \in Seq(Glyphs), NEW part \in {"key", "value"}, NEW key, NEW value, NEW found, NEW n,
           Parsed(t) = State(part, key, value, found, n), NEW c \in Glyphs
    PROVE  /\ Longer(t, c) \in Seq(Glyphs)
           /\ c = Colon => Parsed(Longer(t, c)) = State("value", key, value, found, n + 1)
           /\ c \notin {Colon, LF} /\ part = "value" =>
                  Parsed(Longer(t, c)) = State("value", key, Longer(value, c), found, n + 1)
           /\ c \notin {Colon, LF} /\ part = "key" =>
                  Parsed(Longer(t, c)) = State("key", Longer(key, c), value, found, n + 1)
           /\ c = LF /\ key # <<>> /\ key[1] # CR =>
                  Parsed(Longer(t, c)) = LineState(key, value, found, n + 1)
           /\ c = LF /\ key # <<>> /\ key[1] = CR =>
                  Parsed(Longer(t, c)) = State("over", key, value, found, n + 1)
<1> DEFINE p == State(part, key, value, found, n)
           r == Character(p, c)
<1>1. Longer(t, c) \in Seq(Glyphs)
  BY LongerIs
<1>2. Parsed(Longer(t, c)) = r
  BY ParsedGrows
<1>3. /\ c = Colon => r = State("value", key, value, found, n + 1)
      /\ c # Colon /\ c = LF /\ key # <<>> /\ key[1] = CR =>
             r = State("over", key, value, found, n + 1)
      /\ c # Colon /\ c = LF /\ ~ (key # <<>> /\ key[1] = CR) =>
             r = LineState(key, value, found, n + 1)
      /\ c # Colon /\ c # LF /\ part = "value" =>
             r = State("value", key, Append(value, c), found, n + 1)
      /\ c # Colon /\ c # LF /\ part = "key" =>
             r = State("key", Append(key, c), value, found, n + 1)
  BY CharacterIs
<1>4. LF # Colon
  BY GlyphsIs
<1> HIDE DEF r, p
<1>5. Append(value, c) = Longer(value, c) /\ Append(key, c) = Longer(key, c)
  BY DEF Longer
<1> QED
  BY <1>1, <1>2, <1>3, <1>4, <1>5, Zenon

\* The part that Parse reads grows, if a character is no colon and does not end the line.
LEMMA ReadsValue ==
    ASSUME NEW t \in Seq(Glyphs), NEW key, NEW value, NEW found, NEW n,
           Parsed(t) = State("value", key, value, found, n), NEW c \in Glyphs, c # Colon, c # LF
    PROVE  Longer(t, c) \in Seq(Glyphs) /\ Parsed(Longer(t, c)) = State("value", key, Longer(value, c), found, n + 1)
<1> DEFINE part == "value"
<1>1. part \in {"key", "value"} /\ part = "value" /\ c \notin {Colon, LF}
  OBVIOUS
<1>2. Parsed(t) = State(part, key, value, found, n)
  OBVIOUS
<1> HIDE DEF part
<1>3. Longer(t, c) \in Seq(Glyphs) /\ Parsed(Longer(t, c)) = Character(State(part, key, value, found, n), c)
  BY <1>2, LongerIs, ParsedGrows
<1>4. c # Colon /\ c # LF /\ part = "value" =>
          Character(State(part, key, value, found, n), c) = State("value", key, Append(value, c), found, n + 1)
  BY <1>1, CharacterIs
<1>5. c # Colon /\ c # LF /\ part = "value"
  BY <1>1
<1> QED
  BY <1>3, <1>4, <1>5, Zenon DEF Longer

LEMMA ReadsLine ==
    ASSUME NEW t \in Seq(Glyphs), NEW part \in {"key", "value"}, NEW key, NEW value, NEW found, NEW n,
           Parsed(t) = State(part, key, value, found, n), key # <<>>, key[1] # CR
    PROVE  Longer(t, LF) \in Seq(Glyphs) /\ Parsed(Longer(t, LF)) = LineState(key, value, found, n + 1)
<1>1. LF \in Glyphs
  BY GlyphsIs
<1> DEFINE c == LF
<1>2. c \in Glyphs /\ c = LF
  BY <1>1
<1> HIDE DEF c
<1>3. Longer(t, c) \in Seq(Glyphs) /\ Parsed(Longer(t, c)) = LineState(key, value, found, n + 1)
  BY <1>2, Reads
<1> QED
  BY <1>2, <1>3

\* A value is read without its colons.
LEMMA ValueRead ==
    ASSUME NEW t \in Seq(Glyphs), NEW key, NEW value \in Seq(Glyphs), NEW found, NEW n \in Nat,
           Parsed(t) = State("value", key, value, found, n), NEW v \in Seq(Unbroken)
    PROVE  /\ Joined(t, v) \in Seq(Glyphs)
           /\ Parsed(Joined(t, v)) = State("value", key, Joined(value, NoColons(v)), found, n + Len(v))
<1> DEFINE P == {w \in Seq(Unbroken) :
                    Parsed(Joined(t, w)) = State("value", key, Joined(value, NoColons(w)), found, n + Len(w))}
<1>1. <<>> \in P
  <2>1. <<>> \in Seq(Unbroken) /\ Len(<<>>) = 0 /\ n + 0 = n
    BY EmptySeq
  <2>2. Joined(t, <<>>) = t /\ Joined(value, <<>>) = value
    BY JoinedNothing
  <2>3. NoColons(<<>>) = <<>>
    BY NoColonsGrows
  <2> QED
    BY <2>1, <2>2, <2>3
<1>2. ASSUME NEW w \in Seq(Unbroken), NEW c \in Unbroken, w \in P PROVE Longer(w, c) \in P
  <2> DEFINE u == Joined(t, w)
             k == NoColons(w)
             m == n + Len(w)
  <2>1. w \in Seq(Glyphs) /\ c \in Glyphs /\ c # LF
    BY GlyphsIs DEF Unbroken
  <2>2. u \in Seq(Glyphs) /\ Longer(u, c) = Joined(t, Longer(w, c))
    BY <2>1, JoinedIs, AppendBehind
  <2>3. k \in Seq(Unbroken) /\ k \in Seq(Glyphs)
    BY NoColonsGrows, GlyphsIs
  <2>4. NoColons(Longer(w, c)) = IF c = Colon THEN k ELSE Longer(k, c)
    BY NoColonsGrows
  <2>5. Len(w) \in Nat /\ Len(Longer(w, c)) = Len(w) + 1 /\ Longer(w, c) \in Seq(Unbroken)
    BY LongerIs, LenProperties
  <2>6. n + Len(Longer(w, c)) = m + 1
    BY <2>5
  <2>7. Longer(Joined(value, k), c) = Joined(value, Longer(k, c))
    BY <2>1, <2>3, AppendBehind
  <2>8. Parsed(u) = State("value", key, Joined(value, k), found, m)
    BY <1>2
  <2> HIDE DEF u, k, m, P
  <2>9. /\ c = Colon => Parsed(Longer(u, c)) = State("value", key, Joined(value, k), found, m + 1)
        /\ c \notin {Colon, LF} => Parsed(Longer(u, c)) = State("value", key, Longer(Joined(value, k), c), found, m + 1)
    BY <2>1, <2>2, <2>8, Reads
  <2>10. Parsed(Longer(u, c)) = State("value", key, Joined(value, IF c = Colon THEN k ELSE Longer(k, c)), found, m + 1)
    BY <2>1, <2>7, <2>9
  <2>11. Parsed(Joined(t, Longer(w, c)))
           = State("value", key, Joined(value, NoColons(Longer(w, c))), found, n + Len(Longer(w, c)))
    BY <2>2, <2>4, <2>6, <2>10
  <2> QED
    BY <2>5, <2>11 DEF P
<1>3. Seq(Unbroken) \subseteq P
  <2> HIDE DEF P
  <2> QED
    BY <1>1, <1>2, ByGrowth
<1>4. v \in Seq(Glyphs)
  BY GlyphsIs
<1> QED
  BY <1>3, <1>4, JoinedIs

\* A line, character by character.
LEMMA LineSpelled ==
    ASSUME NEW t \in Seq(Glyphs), NEW k \in Glyphs, NEW v \in Seq(Glyphs)
    PROVE  /\ FieldLine(k, v) \in Seq(Glyphs) /\ Len(FieldLine(k, v)) = Len(v) + 5
           /\ Joined(t, FieldLine(k, v)) =
                 Longer(Longer(Joined(Longer(Longer(Longer(t, k), Colon), Blank), v), CR), LF)
<1> DEFINE h == <<k, Colon, Blank>>
           e == EndOfLine
           hv == Joined(h, v)
           k1 == <<k>>
           cr == <<CR>>
<1>0. CR \in Glyphs /\ LF \in Glyphs /\ Colon \in Glyphs /\ Blank \in Glyphs
  BY GlyphsIs DEF Unbroken
<1>1. h \in Seq(Glyphs) /\ Len(h) = 3 /\ e \in Seq(Glyphs) /\ Len(e) = 2
  BY <1>0 DEF EndOfLine
<1>2. FieldLine(k, v) = Joined(hv, e)
  BY DEF FieldLine, Joined
<1>3. k1 \in Seq(Glyphs) /\ cr \in Seq(Glyphs)
  BY <1>0
<1>4. h = Longer(Longer(k1, Colon), Blank)
  BY DEF Longer
<1>5. e = Longer(cr, LF)
  BY DEF Longer, EndOfLine
<1>k. Joined(t, k1) = Longer(t, k)
  BY LongerOne
<1>c. \A x \in Seq(Glyphs) : Joined(x, cr) = Longer(x, CR)
  BY <1>0, LongerOne
<1> HIDE DEF h, e, k1, cr
<1>6. hv \in Seq(Glyphs) /\ Len(hv) = Len(h) + Len(v)
  BY <1>1, JoinedIs
<1> HIDE DEF hv
<1>7. Joined(hv, e) \in Seq(Glyphs) /\ Len(Joined(hv, e)) = Len(hv) + Len(e)
  BY <1>1, <1>6, JoinedIs, ZenonT(40)
<1>8. Joined(t, Joined(hv, e)) = Joined(Joined(t, hv), e) /\ Joined(t, hv) = Joined(Joined(t, h), v)
  BY <1>1, <1>6, JoinedTwice DEF hv
<1>9. Joined(t, h) = Longer(Longer(Longer(t, k), Colon), Blank)
  <2>1. Longer(k1, Colon) \in Seq(Glyphs)
    BY <1>0, <1>3, LongerIs
  <2>2. Joined(t, h) = Longer(Joined(t, Longer(k1, Colon)), Blank)
    BY <1>0, <1>4, <2>1, AppendBehind
  <2>3. Joined(t, Longer(k1, Colon)) = Longer(Joined(t, k1), Colon)
    BY <1>0, <1>3, AppendBehind
  <2> QED
    BY <1>k, <2>2, <2>3
<1>10. ASSUME NEW x \in Seq(Glyphs) PROVE Joined(x, e) = Longer(Longer(x, CR), LF)
  <2>1. Joined(x, e) = Longer(Joined(x, cr), LF)
    BY <1>0, <1>3, <1>5, AppendBehind
  <2> QED
    BY <1>c, <2>1
<1>11. Joined(t, hv) \in Seq(Glyphs)
  BY <1>6, JoinedIs
<1>12. Len(v) \in Nat /\ Len(Joined(hv, e)) = Len(v) + 5
  BY <1>1, <1>6, <1>7, LenProperties
<1> QED
  BY <1>2, <1>7, <1>8, <1>9, <1>10, <1>11, <1>12

\* The value between a blank and the end of a line.
LEMMA Inside ==
    ASSUME NEW v \in Seq(Glyphs)
    PROVE  LET w == Longer(Joined(<<Blank>>, v), CR) IN SubSeq(w, 2, Len(w) - 1) = v
<1> DEFINE blank == <<Blank>>
           x == Joined(blank, v)
           w == Longer(x, CR)
           n == Len(v)
<1>0. blank \in Seq(Glyphs) /\ Len(blank) = 1 /\ CR \in Glyphs /\ n \in Nat
  BY GlyphsIs, LenProperties DEF Unbroken
<1> HIDE DEF blank
<1>a. x \in Seq(Glyphs) /\ Len(x) = 1 + n /\ \A i \in 1 .. n : x[1 + i] = v[i]
  <2>0. blank \in Seq(Glyphs)
    BY <1>0
  <2>1. x \in Seq(Glyphs) /\ Len(x) = Len(blank) + Len(v)
    BY <2>0, JoinedIs
  <2>2. ASSUME NEW i \in 1 .. Len(v) PROVE x[Len(blank) + i] = v[i]
    BY <2>0, JoinedIs
  <2> HIDE DEF x
  <2> QED
    BY <1>0, <2>1, <2>2
<1> HIDE DEF x
<1>2. w \in Seq(Glyphs) /\ Len(w) = Len(x) + 1 /\ \A i \in 1 .. Len(x) : w[i] = x[i]
  <2> DEFINE c == CR
  <2>1. c \in Glyphs
    BY <1>0
  <2> HIDE DEF c
  <2>0. x \in Seq(Glyphs)
    BY <1>a
  <2>2. Longer(x, c) \in Seq(Glyphs) /\ Len(Longer(x, c)) = Len(x) + 1
    BY <2>0, <2>1, LongerIs
  <2>3. ASSUME NEW i \in 1 .. Len(x) PROVE Longer(x, c)[i] = x[i]
    BY <2>0, <2>1, LongerIs
  <2> QED
    BY <2>2, <2>3 DEF c
<1>3. Len(w) - 1 = n + 1 /\ n + 1 \in Int /\ \A i \in 1 .. n : w[1 + i] = v[i]
  BY <1>0, <1>a, <1>2
<1> HIDE DEF w
<1>4. \A i \in 2 .. n + 1 : w[i] \in Glyphs
  BY <1>0, <1>2, <1>a, ElementOfSeq
<1> DEFINE s == SubSeq(w, 2, n + 1)
<1>5. /\ s \in Seq(Glyphs) /\ Len(s) = (IF 2 <= n + 1 THEN (n + 1) - 2 + 1 ELSE 0)
      /\ \A i \in 1 .. (n + 1) - 2 + 1 : s[i] = w[2 + i - 1]
  BY <1>3, <1>4, SubSeqProperties
<1> HIDE DEF s
<1>6. Len(s) = n
  BY <1>0, <1>5
<1>7. \A i \in 1 .. Len(s) : s[i] = v[i]
  <2> SUFFICES ASSUME NEW i \in 1 .. n PROVE s[i] = v[i]
    BY <1>6
  <2>1. i \in 1 .. (n + 1) - 2 + 1 /\ 2 + i - 1 = 1 + i
    BY <1>0
  <2> QED
    BY <1>3, <1>5, <2>1
<1>8. s = v
  BY <1>5, <1>6, <1>7, SameSeq DEF n
<1> QED
  BY <1>3, <1>8 DEF s, w, x, blank

\* A field is found under its name, its value without its colons.
LEMMA FieldRead ==
    ASSUME NEW t \in Seq(Glyphs), NEW found \in Maps, NEW n \in Nat, found # NoFields,
           Parsed(t) = State("key", <<>>, <<>>, found, n),
           NEW k \in Unbroken \ {Colon}, NEW v \in Seq(Unbroken)
    PROVE  /\ Joined(t, FieldLine(k, v)) \in Seq(Glyphs)
           /\ With(found, k, NoColons(v)) \in Maps
           /\ Parsed(Joined(t, FieldLine(k, v))) =
                 State("key", <<>>, <<>>, With(found, k, NoColons(v)), n + Len(FieldLine(k, v)))
<1> DEFINE t1 == Longer(t, k)
           t2 == Longer(t1, Colon)
           t3 == Longer(t2, Blank)
           t4 == Joined(t3, v)
           t5 == Longer(t4, CR)
           t6 == Longer(t5, LF)
           key == <<k>>
           b == <<Blank>>
           x == NoColons(v)
           y == Joined(b, x)
           z == Longer(y, CR)
<1>0. /\ CR \in Glyphs /\ LF \in Glyphs /\ Colon \in Glyphs /\ Blank \in Glyphs /\ k \in Glyphs
      /\ v \in Seq(Glyphs) /\ k \notin {Colon, LF} /\ k # CR /\ Blank \notin {Colon, LF} /\ CR \notin {Colon, LF}
  BY GlyphsIs DEF Unbroken
<1>1. FieldLine(k, v) \in Seq(Glyphs) /\ Len(FieldLine(k, v)) = Len(v) + 5 /\ Joined(t, FieldLine(k, v)) = t6
  BY <1>0, LineSpelled
<1>2. Longer(<<>>, k) = key /\ Longer(<<>>, Blank) = b /\ b \in Seq(Glyphs) /\ key # <<>> /\ key[1] = k
  BY <1>0 DEF Longer
<1>3. x \in Seq(Unbroken) /\ x \in Seq(Glyphs)
  BY NoColonsGrows, GlyphsIs
<1> HIDE DEF key, b, x
<1>4. y \in Seq(Glyphs)
  BY <1>2, <1>3, JoinedIs
<1> DEFINE n1 == n + 1
           n2 == n1 + 1
           n3 == n2 + 1
           n4 == n3 + Len(v)
           n5 == n4 + 1
           n6 == n5 + 1
<1>n. Len(v) \in Nat /\ n3 \in Nat /\ n6 = n + (Len(v) + 5)
  BY LenProperties
<1>5. t1 \in Seq(Glyphs) /\ Parsed(t1) = State("key", key, <<>>, found, n1)
  BY <1>0, <1>2, Reads
<1> HIDE DEF t1, n1
<1>6. t2 \in Seq(Glyphs) /\ Parsed(t2) = State("value", key, <<>>, found, n2)
  BY <1>0, <1>5, Reads
<1> HIDE DEF t2, n2
<1>7. t3 \in Seq(Glyphs) /\ Parsed(t3) = State("value", key, b, found, n3)
  BY <1>0, <1>2, <1>6, ReadsValue
<1> HIDE DEF t3, n3
<1>10. t4 \in Seq(Glyphs) /\ Parsed(t4) = State("value", key, y, found, n4)
  <2>1. Joined(t3, v) \in Seq(Glyphs)
        /\ Parsed(Joined(t3, v)) = State("value", key, Joined(b, NoColons(v)), found, n3 + Len(v))
    BY <1>2, <1>7, <1>n, ValueRead
  <2> QED
    BY <2>1 DEF x
<1> HIDE DEF t4, y, n4
<1>11. t5 \in Seq(Glyphs) /\ Parsed(t5) = State("value", key, z, found, n5)
  BY <1>0, <1>10, ReadsValue
<1> HIDE DEF t5, z, n5
<1>12. t6 \in Seq(Glyphs) /\ Parsed(t6) = LineState(key, z, found, n6)
  BY <1>0, <1>2, <1>11, ReadsLine
<1> HIDE DEF t6, n6
<1>13. SubSeq(z, 2, Len(z) - 1) = x
  BY <1>3, Inside DEF z, y, b
<1>14. KeyName(key) = k
  BY <1>2 DEF KeyName
<1>15. LineState(key, z, found, n6) = State("key", <<>>, <<>>, With(found, k, x), n6)
  BY <1>13, <1>14 DEF LineState
<1>17. With(found, k, x) \in Maps
  <2>1. k \in MapNames
    BY <1>0 DEF MapNames
  <2> QED
    BY <2>1, <1>3, WithIs
<1> QED
  BY <1>1, <1>12, <1>15, <1>n, <1>17 DEF x

-----------------------------------------------------------------------------
(* Header fields: The status line and the blank line                       *)

LEMMA ReadsKey ==
    ASSUME NEW t \in Seq(Glyphs), NEW key, NEW value, NEW found, NEW n,
           Parsed(t) = State("key", key, value, found, n), NEW c \in Glyphs, c # Colon, c # LF
    PROVE  Longer(t, c) \in Seq(Glyphs) /\ Parsed(Longer(t, c)) = State("key", Longer(key, c), value, found, n + 1)
<1> DEFINE part == "key"
<1>1. part \in {"key", "value"} /\ part = "key" /\ c \notin {Colon, LF}
  OBVIOUS
<1>2. Parsed(t) = State(part, key, value, found, n)
  OBVIOUS
<1> HIDE DEF part
<1>3. Longer(t, c) \in Seq(Glyphs) /\ Parsed(Longer(t, c)) = Character(State(part, key, value, found, n), c)
  BY <1>2, LongerIs, ParsedGrows
<1>4. c # Colon /\ c # LF /\ part = "key" =>
          Character(State(part, key, value, found, n), c) = State("key", Append(key, c), value, found, n + 1)
  BY <1>1, CharacterIs
<1>5. c # Colon /\ c # LF /\ part = "key"
  BY <1>1
<1> QED
  BY <1>3, <1>4, <1>5, Zenon DEF Longer

\* A key is what is read before a colon or the end of the line.
LEMMA KeyRead ==
    ASSUME NEW v \in Seq(Glyphs \ {Colon, LF})
    PROVE  v \in Seq(Glyphs) /\ Parsed(v) = State("key", v, <<>>, NoFields, Len(v))
<1> DEFINE A == Glyphs \ {Colon, LF}
           P == {w \in Seq(A) : w \in Seq(Glyphs) /\ Parsed(w) = State("key", w, <<>>, NoFields, Len(w))}
<1>1. <<>> \in P
  <2>1. <<>> \in Seq(A) /\ <<>> \in Seq(Glyphs) /\ Len(<<>>) = 0
    BY EmptySeq
  <2>2. Parsed(<<>>) = State("key", <<>>, <<>>, NoFields, 0)
    BY ParsedGrows, StartIs
  <2> QED
    BY <2>1, <2>2
<1>2. ASSUME NEW w \in Seq(A), NEW c \in A, w \in P PROVE Longer(w, c) \in P
  <2>1. c \in Glyphs /\ c # Colon /\ c # LF
    OBVIOUS
  <2>2. Longer(w, c) \in Seq(A) /\ Len(Longer(w, c)) = Len(w) + 1
    BY LongerIs
  <2>3. w \in Seq(Glyphs) /\ Parsed(w) = State("key", w, <<>>, NoFields, Len(w))
    BY <1>2
  <2>4. /\ Longer(w, c) \in Seq(Glyphs)
        /\ Parsed(Longer(w, c)) = State("key", Longer(w, c), <<>>, NoFields, Len(w) + 1)
    BY <2>1, <2>3, ReadsKey
  <2> QED
    BY <2>2, <2>4
<1>3. Seq(A) \subseteq P
  <2> HIDE DEF P, A
  <2> QED
    BY <1>1, <1>2, ByGrowth
<1> QED
  BY <1>3

\* The status line.
StatusLine(code) == <<Version, Blank, code, Blank, "OK">> \o EndOfLine

LEMMA AssumedOfFields ==
    /\ Len(Fields) \in Nat
    /\ \A i \in 1 .. Len(Fields) : Fields[i] \in Unbroken /\ Fields[i] # Colon /\ Fields[i] # "Status"
    /\ Version \in Unbroken /\ Version # Colon
    /\ \A c \in Codes : c \in Unbroken /\ c # Colon
    /\ Contents \subseteq Seq(Unbroken)
<1>1. Fields \in Seq(STRING) /\ \A i \in DOMAIN Fields : Fields[i] \notin {"Status", CR, LF, Colon}
  BY HeadersAssumption
<1>2. Len(Fields) \in Nat /\ DOMAIN Fields = 1 .. Len(Fields)
  BY <1>1, LenProperties
<1>3. ASSUME NEW i \in 1 .. Len(Fields)
      PROVE  Fields[i] \in Unbroken /\ Fields[i] # Colon /\ Fields[i] # "Status"
  <2>1. Fields[i] \in STRING
    BY <1>1, ElementOfSeq
  <2> QED
    BY <1>1, <1>2, <2>1 DEF Unbroken, Glyphs
<1>4. \A c \in Codes \cup {Version} : c \in Unbroken /\ c # Colon
  BY HeadersAssumption DEF Unbroken, Glyphs
<1>5. ASSUME NEW v \in Contents PROVE v \in Seq(Unbroken)
  <2>1. v \in Seq(STRING) /\ \A i \in DOMAIN v : v[i] \notin {CR, LF}
    <3>1. Contents \subseteq Seq(STRING)
      BY HeadersAssumption
    <3>2. \A i \in DOMAIN v : v[i] \notin {CR, LF}
      BY HeadersAssumption
    <3> QED
      BY <3>1, <3>2
  <2>2. Len(v) \in Nat /\ DOMAIN v = 1 .. Len(v)
    BY <2>1, LenProperties
  <2>3. \A i \in 1 .. Len(v) : v[i] \in Unbroken
    <3> SUFFICES ASSUME NEW i \in 1 .. Len(v) PROVE v[i] \in Unbroken
      OBVIOUS
    <3>1. v[i] \in STRING
      BY <2>1, ElementOfSeq
    <3> QED
      BY <2>1, <2>2, <3>1 DEF Unbroken, Glyphs
  <2>4. v \in [1 .. Len(v) -> Unbroken]
    <3>1. v \in [1 .. Len(v) -> STRING]
      BY <2>1, LenProperties
    <3> QED
      BY <2>3, <3>1
  <2> QED
    BY <2>2, <2>4, SeqDef
<1> QED
  BY <1>2, <1>3, <1>4, <1>5

LEMMA StatusRead ==
    ASSUME NEW code \in Codes
    PROVE  /\ StatusLine(code) \in Seq(Glyphs) /\ Len(StatusLine(code)) = 7
           /\ Parsed(StatusLine(code)) = State("key", <<>>, <<>>, With(NoFields, "Status", <<code>>), 7)
<1> DEFINE s == <<Version, Blank, code, Blank, "OK", CR>>
           A == Glyphs \ {Colon, LF}
<1>1. Version \in A /\ Blank \in A /\ code \in A /\ "OK" \in A /\ CR \in A /\ LF \in Glyphs /\ Version # CR
  BY AssumedOfFields, GlyphsIs DEF Unbroken
<1>2. s \in Seq(A) /\ Len(s) = 6 /\ s # <<>> /\ s[1] = Version /\ s[3] = code
  BY <1>1
<1>3. StatusLine(code) = Longer(s, LF)
  BY DEF StatusLine, Longer, EndOfLine
<1>4. SubSeq(s, 3, 3) = <<code>>
  <2>1. \A i \in 3 .. 3 : s[i] \in A
    BY <1>2, ElementOfSeq
  <2> DEFINE x == SubSeq(s, 3, 3)
  <2> HIDE DEF s
  <2>2. x \in Seq(A) /\ Len(x) = 1 /\ x[1] = s[3]
    <3>1. /\ SubSeq(s, 3, 3) \in Seq(A) /\ Len(SubSeq(s, 3, 3)) = (IF 3 <= 3 THEN 3 - 3 + 1 ELSE 0)
          /\ \A i \in 1 .. 3 - 3 + 1 : SubSeq(s, 3, 3)[i] = s[3 + i - 1]
      BY <2>1, SubSeqProperties
    <3> HIDE DEF A
    <3> QED
      BY <3>1
  <2> HIDE DEF x
  <2>3. x = <<code>>
    BY <1>2, <2>2
  <2> QED
    BY <2>3 DEF x
<1> HIDE DEF s, A
<1>5. s \in Seq(Glyphs) /\ Parsed(s) = State("key", s, <<>>, NoFields, 6)
  BY <1>2, KeyRead DEF A
<1>6. Longer(s, LF) \in Seq(Glyphs) /\ Len(Longer(s, LF)) = Len(s) + 1
  BY <1>1, <1>5, LongerIs
<1> DEFINE n == 6
<1>n. n + 1 = 7 /\ Parsed(s) = State("key", s, <<>>, NoFields, n)
  BY <1>5
<1> HIDE DEF n
<1>7. Parsed(Longer(s, LF)) = LineState(s, <<>>, NoFields, n + 1)
  <2> DEFINE part == "key"
  <2>1. part \in {"key", "value"} /\ Parsed(s) = State(part, s, <<>>, NoFields, n) /\ s[1] # CR
    BY <1>1, <1>2, <1>n
  <2> HIDE DEF part
  <2> QED
    BY <1>2, <1>5, <2>1, ReadsLine
<1>8. LineState(s, <<>>, NoFields, n + 1) = State("key", <<>>, <<>>, With(NoFields, "Status", <<code>>), n + 1)
  <2>1. (IF Len(s) < 3 THEN 2 ELSE 3) = 3
    BY <1>2
  <2>2. LineState(s, <<>>, NoFields, n + 1)
          = State("key", <<>>, <<>>, With(NoFields, "Status", SubSeq(s, 3, IF Len(s) < 3 THEN 2 ELSE 3)), n + 1)
    BY Zenon DEF LineState
  <2> QED
    BY <1>4, <2>1, <2>2, Zenon
<1> QED
  BY <1>2, <1>3, <1>6, <1>7, <1>8, <1>n

\* The blank line.
LEMMA EndRead ==
    ASSUME NEW t \in Seq(Glyphs), NEW found, NEW n \in Nat,
           Parsed(t) = State("key", <<>>, <<>>, found, n)
    PROVE  /\ Joined(t, EndOfLine) \in Seq(Glyphs) /\ Len(Joined(t, EndOfLine)) = Len(t) + 2
           /\ Parsed(Joined(t, EndOfLine)) = State("over", <<CR>>, <<>>, found, n + 2)
<1> DEFINE cr == <<CR>>
           u == Longer(t, CR)
<1>0. CR \in Glyphs /\ LF \in Glyphs /\ CR # Colon /\ CR # LF /\ LF # Colon
  BY GlyphsIs
<1>1. cr \in Seq(Glyphs) /\ EndOfLine = Longer(cr, LF) /\ EndOfLine \in Seq(Glyphs) /\ Len(EndOfLine) = 2
      /\ Longer(<<>>, CR) = cr /\ cr # <<>> /\ cr[1] = CR
  BY <1>0 DEF Longer, EndOfLine
<1>c. Joined(t, cr) = Longer(t, CR)
  BY <1>0, LongerOne
<1> HIDE DEF cr
<1>2. Joined(t, EndOfLine) = Longer(u, LF)
  <2>1. Joined(t, Longer(cr, LF)) = Longer(Joined(t, cr), LF)
    BY <1>0, <1>1, AppendBehind
  <2> QED
    BY <1>1, <1>c, <2>1
<1>3. Joined(t, EndOfLine) \in Seq(Glyphs) /\ Len(Joined(t, EndOfLine)) = Len(t) + 2
  <2>1. EndOfLine \in Seq(Glyphs)
    BY <1>1
  <2>2. Joined(t, EndOfLine) \in Seq(Glyphs) /\ Len(Joined(t, EndOfLine)) = Len(t) + Len(EndOfLine)
    BY <2>1, JoinedIs
  <2> QED
    BY <1>1, <2>2
<1>4. u \in Seq(Glyphs) /\ Parsed(u) = State("key", cr, <<>>, found, n + 1)
  BY <1>0, <1>1, ReadsKey
<1> HIDE DEF u
<1> DEFINE m == n + 1
<1>5. Parsed(u) = State("key", cr, <<>>, found, m)
  BY <1>4
<1>6. m + 1 = n + 2
  OBVIOUS
<1> HIDE DEF m
<1>7. Parsed(Longer(u, LF)) = Character(State("key", cr, <<>>, found, m), LF)
  BY <1>0, <1>4, <1>5, ParsedGrows
<1>8. Character(State("key", cr, <<>>, found, m), LF) = State("over", cr, <<>>, found, m + 1)
  <2> DEFINE part == "key"
  <2>1. part \in {"key", "value"}
    OBVIOUS
  <2> HIDE DEF part
  <2>2. LF # Colon /\ LF = LF /\ cr # <<>> /\ cr[1] = CR =>
            Character(State(part, cr, <<>>, found, m), LF) = State("over", cr, <<>>, found, m + 1)
    BY <2>1, CharacterIs
  <2> QED
    BY <1>0, <1>1, <2>2 DEF part
<1> QED
  BY <1>2, <1>3, <1>6, <1>7, <1>8 DEF cr

-----------------------------------------------------------------------------
(* Header fields: An answer                                                *)

\* What a caller may have put into the list.
Sendable(m) == \A i \in 1 .. Len(Fields) : Fields[i] \in DOMAIN m => m[Fields[i]] \in Seq(Unbroken)

\* The lines of an answer, one by one.
WithField(chars, m, k) == IF k \in DOMAIN m THEN Joined(chars, FieldLine(k, m[k])) ELSE chars
AnswerLines(f, code, m) ==
    /\ f \in [0 .. Len(Fields) -> Seq(Glyphs)] /\ f[0] = StatusLine(code)
    /\ \A i \in 1 .. Len(Fields) : f[i] = WithField(f[i - 1], m, Fields[i])

LEMMA AnswerIsLines ==
    ASSUME NEW code \in Codes, NEW m, Sendable(m)
    PROVE  \E f : AnswerLines(f, code, m) /\ ServerAnswers(code, m) = Joined(f[Len(Fields)], EndOfLine)
<1> DEFINE N == Len(Fields)
           S == Seq(Glyphs)
           s0 == StatusLine(code)
           next(x, i) == WithField(x, m, Fields[i])
           Body(f) == [i \in 0 .. N |-> IF i = 0 THEN s0 ELSE next(f[i - 1], i)]
           f0 == CHOOSE f : f = Body(f)
           step == [i \in 1 .. N |-> [x \in S |-> next(x, i)]]
<1>1. N \in Nat /\ s0 \in S
  BY AssumedOfFields, StatusRead
<1>2. ServerAnswers(code, m) = Joined(f0[N], EndOfLine)
  <2>1. ServerAnswers(code, m) =
            (CHOOSE f : f = [j \in 0 .. Len(Fields) |->
                                IF j = 0 THEN <<Version, Blank, code, Blank, "OK">> \o EndOfLine
                                ELSE IF Fields[j] \in DOMAIN m THEN f[j - 1] \o FieldLine(Fields[j], m[Fields[j]])
                                ELSE f[j - 1]])[Len(Fields)] \o EndOfLine
    BY Zenon DEF ServerAnswers
  <2>2. f0 = (CHOOSE f : f = [j \in 0 .. Len(Fields) |->
                                IF j = 0 THEN <<Version, Blank, code, Blank, "OK">> \o EndOfLine
                                ELSE IF Fields[j] \in DOMAIN m THEN f[j - 1] \o FieldLine(Fields[j], m[Fields[j]])
                                ELSE f[j - 1]])
    BY Zenon DEF WithField, Joined, StatusLine
  <2> QED
    BY <2>1, <2>2, Zenon DEF Joined
<1>5. ASSUME NEW i \in 1 .. N, NEW x \in S PROVE next(x, i) \in S
  <2>1. Fields[i] \in Glyphs
    BY AssumedOfFields DEF Unbroken
  <2>2. CASE Fields[i] \in DOMAIN m
    <3>1. m[Fields[i]] \in Seq(Glyphs)
      BY <2>2, GlyphsIs DEF Sendable
    <3>2. FieldLine(Fields[i], m[Fields[i]]) \in Seq(Glyphs)
      BY <1>1, <2>1, <3>1, LineSpelled
    <3>3. Joined(x, FieldLine(Fields[i], m[Fields[i]])) \in S
      BY <3>2, JoinedIs
    <3> QED
      BY <2>2, <3>3 DEF WithField
  <2>3. CASE Fields[i] \notin DOMAIN m
    BY <2>3 DEF WithField
  <2> QED
    BY <2>2, <2>3
<1>6. step \in [1 .. N -> [S -> S]]
  <2> HIDE DEF S, N, next
  <2> QED
    BY <1>5
<1>7. \E f : Recurs(f, S, s0, N, step)
  <2> HIDE DEF S, N, step, s0
  <2> QED
    BY <1>1, <1>6, Recursion, Zenon
<1>8. PICK g : g \in [0 .. N -> S] /\ g[0] = s0 /\ \A i \in 1 .. N : g[i] = next(g[i - 1], i)
  <2> PICK g : Recurs(g, S, s0, N, step)
    BY <1>7
  <2> HIDE DEF S, N, next, s0
  <2>1. g \in [0 .. N -> S] /\ g[0] = s0 /\ \A i \in 1 .. N : g[i] = step[i][g[i - 1]]
    BY DEF Recurs
  <2>2. ASSUME NEW i \in 1 .. N PROVE g[i] = next(g[i - 1], i)
    <3>1. i - 1 \in 0 .. N
      BY <1>1
    <3>2. g[i - 1] \in S
      BY <3>1, <2>1
    <3> QED
      BY <2>1, <3>2
  <2> QED
    BY <2>1, <2>2
<1>9. AnswerLines(f0, code, m)
  <2>n. \A x, i : next(x, i) = WithField(x, m, Fields[i])
    OBVIOUS
  <2> HIDE DEF S, N, next, s0
  <2>1. g = Body(g)
    <3>1. \A i \in 0 .. N : i # 0 => i \in 1 .. N
      BY <1>1
    <3> QED
      BY <1>8, <3>1
  <2>2. f0 = Body(f0)
    <3> HIDE DEF Body
    <3> QED
      BY <2>1
  <2> HIDE DEF f0
  <2>4. f0[0] = s0
    <3>1. 0 \in 0 .. N
      BY <1>1
    <3> QED
      BY <2>2, <3>1
  <2>5. ASSUME NEW i \in 1 .. N PROVE f0[i] = next(f0[i - 1], i)
    <3>1. i \in 0 .. N /\ i # 0
      BY <1>1
    <3> QED
      BY <2>2, <3>1
  <2>6. \A i \in 0 .. N : f0[i] \in S
    <3> DEFINE P == {i \in 0 .. N : f0[i] \in S}
    <3>1. 0 \in P
      BY <2>4, <1>1
    <3>2. \A i \in 1 .. N : i - 1 \in P => i \in P
      BY <2>5, <1>5, <1>1
    <3>3. 0 .. N \subseteq P
      <4> HIDE DEF P
      <4> QED
        BY <1>1, <3>1, <3>2, Inductive
    <3> QED
      BY <3>3
  <2>7. f0 \in [0 .. N -> S]
    BY <2>2, <2>6
  <2>8. \A i \in 1 .. N : f0[i] = WithField(f0[i - 1], m, Fields[i])
    BY <2>5, <2>n, Zenon
  <2> QED
    BY <2>4, <2>8, <2>7, Zenon DEF AnswerLines, N, S, s0
<1> QED
  BY <1>2, <1>9

\* What has been found behind the first i fields.
FoundOf(found, code, m, i) ==
    /\ found \in Maps
    /\ DOMAIN found = {"Status"} \cup {Fields[j] : j \in {j \in 1 .. i : Fields[j] \in DOMAIN m}}
    /\ found["Status"] = <<code>>
    /\ \A j \in 1 .. i : Fields[j] \in DOMAIN m => found[Fields[j]] = NoColons(m[Fields[j]])

LEMMA StatusFound ==
    ASSUME NEW code \in Codes, NEW m
    PROVE  FoundOf(With(NoFields, "Status", <<code>>), code, m, 0)
<1> DEFINE w == With(NoFields, "Status", <<code>>)
<1>1. code \in Glyphs
  BY AssumedOfFields DEF Unbroken
<1>2. "Status" \in MapNames /\ <<code>> \in Seq(Glyphs)
  BY <1>1 DEF MapNames
<1>3. w \in Maps
  <2> DEFINE v == <<code>>
  <2> HIDE DEF v
  <2>1. v \in Seq(Glyphs)
    BY <1>2 DEF v
  <2>2. With(NoFields, "Status", v) \in Maps
    BY <1>2, <2>1, NoFieldsIs, WithIs
  <2> QED
    BY <2>2 DEF v
<1>4. DOMAIN w = {"Status"} /\ w["Status"] = <<code>>
  BY NoFieldsIs DEF With
<1>5. {j \in 1 .. 0 : Fields[j] \in DOMAIN m} = {}
  OBVIOUS
<1> HIDE DEF w
<1> QED
  BY <1>3, <1>4, <1>5 DEF FoundOf, w

LEMMA NextFound ==
    ASSUME NEW code \in Codes, NEW m, NEW i \in 1 .. Len(Fields), NEW found, FoundOf(found, code, m, i - 1),
           Fields[i] \in DOMAIN m, With(found, Fields[i], NoColons(m[Fields[i]])) \in Maps
    PROVE  FoundOf(With(found, Fields[i], NoColons(m[Fields[i]])), code, m, i)
<1> DEFINE k == Fields[i]
           w == With(found, k, NoColons(m[k]))
           D(n) == {Fields[j] : j \in {j \in 1 .. n : Fields[j] \in DOMAIN m}}
<1>0. Len(Fields) \in Nat /\ k # "Status"
  BY AssumedOfFields
<1>1. DOMAIN w = DOMAIN found \cup {k} /\ w[k] = NoColons(m[k]) /\ \A x \in DOMAIN found : x # k => w[x] = found[x]
  BY DEF With
<1>2. D(i) = D(i - 1) \cup {k}
  <2>1. D(i) \subseteq D(i - 1) \cup {k}
    BY <1>0
  <2>2. D(i - 1) \subseteq D(i)
    BY <1>0
  <2>3. k \in D(i)
    BY <1>0
  <2> QED
    BY <2>1, <2>2, <2>3
<1>3. /\ DOMAIN found = {"Status"} \cup D(i - 1) /\ found["Status"] = <<code>>
      /\ \A j \in 1 .. i - 1 : Fields[j] \in DOMAIN m => found[Fields[j]] = NoColons(m[Fields[j]])
  BY DEF FoundOf
<1>4. ASSUME NEW j \in 1 .. i, Fields[j] \in DOMAIN m PROVE w[Fields[j]] = NoColons(m[Fields[j]])
  <2>1. CASE Fields[j] = k
    BY <2>1, <1>1
  <2>2. CASE Fields[j] # k
    <3>1. j \in 1 .. i - 1
      BY <2>2, <1>0
    <3>2. Fields[j] \in D(i - 1)
      BY <1>4, <3>1
    <3> HIDE DEF D, k, w
    <3> QED
      BY <1>1, <1>3, <1>4, <2>2, <3>1, <3>2
  <2> QED
    BY <2>1, <2>2
<1>5. w \in Maps
  OBVIOUS
<1> HIDE DEF w, k, D
<1>6. DOMAIN w = {"Status"} \cup D(i)
  BY <1>1, <1>2, <1>3
<1>7. w["Status"] = <<code>>
  BY <1>0, <1>1, <1>3
<1>8. FoundOf(w, code, m, i)
  BY <1>4, <1>5, <1>6, <1>7 DEF FoundOf, D
<1> QED
  BY <1>8 DEF w, k

\* Parse finds in an answer what it was made of, and where it ends.
LEMMA AnswerParsed ==
    ASSUME NEW code \in Codes, NEW m, Sendable(m)
    PROVE  \E found : /\ FoundOf(found, code, m, Len(Fields))
                      /\ Parsed(ServerAnswers(code, m)) =
                             State("over", <<CR>>, <<>>, found, Len(ServerAnswers(code, m)))
<1> DEFINE N == Len(Fields)
<1>1. PICK f : AnswerLines(f, code, m) /\ ServerAnswers(code, m) = Joined(f[N], EndOfLine)
  BY AnswerIsLines
<1> DEFINE Q(i, found) == /\ FoundOf(found, code, m, i)
                          /\ Parsed(f[i]) = State("key", <<>>, <<>>, found, Len(f[i]))
           P == {i \in 0 .. N : \E found : Q(i, found)}
<1>2. N \in Nat
  BY AssumedOfFields
<1>3. /\ \A i \in 0 .. N : f[i] \in Seq(Glyphs)
      /\ f[0] = StatusLine(code) /\ \A i \in 1 .. N : f[i] = WithField(f[i - 1], m, Fields[i])
  BY <1>1 DEF AnswerLines
<1>4. 0 \in P
  <2>1. Q(0, With(NoFields, "Status", <<code>>))
    BY <1>3, StatusRead, StatusFound
  <2> QED
    BY <1>2, <2>1
<1>5. ASSUME NEW i \in 1 .. N, i - 1 \in P PROVE i \in P
  <2>0. i \in 0 .. N /\ i - 1 \in 0 .. N
    BY <1>2
  <2>1. PICK found : Q(i - 1, found)
    BY <1>5
  <2> DEFINE t == f[i - 1]
             k == Fields[i]
             n == Len(t)
  <2>2. t \in Seq(Glyphs) /\ n \in Nat /\ Parsed(t) = State("key", <<>>, <<>>, found, n)
    BY <1>3, <2>0, <2>1, LenProperties
  <2>3. k \in Unbroken \ {Colon}
    BY AssumedOfFields
  <2>4. f[i] = WithField(t, m, k)
    BY <1>3
  <2>5. CASE k \in DOMAIN m
    <3> DEFINE v == m[k]
               row == FieldLine(k, v)
               next == With(found, k, NoColons(v))
    <3>1. v \in Seq(Unbroken)
      BY <2>5 DEF Sendable
    <3>2. found \in Maps /\ found # NoFields
      <4>1. found \in Maps /\ "Status" \in DOMAIN found
        BY <2>1 DEF FoundOf
      <4> QED
        BY <4>1, NoFieldsIs
    <3>3. f[i] = Joined(t, row)
      BY <2>4, <2>5 DEF WithField
    <3>4. Joined(t, row) \in Seq(Glyphs) /\ next \in Maps
          /\ Parsed(Joined(t, row)) = State("key", <<>>, <<>>, next, n + Len(row))
      <4> HIDE DEF t, k, v, n
      <4> QED
        BY <2>2, <2>3, <3>1, <3>2, FieldRead
    <3>5. Len(Joined(t, row)) = n + Len(row)
      <4>1. v \in Seq(Glyphs) /\ k \in Glyphs
        BY <2>3, <3>1, GlyphsIs DEF Unbroken
      <4>2. row \in Seq(Glyphs)
        <5> HIDE DEF k, v
        <5> QED
          BY <2>2, <4>1, LineSpelled
      <4> HIDE DEF row, t
      <4> QED
        BY <2>2, <4>2, JoinedIs
    <3>6. FoundOf(next, code, m, i)
      BY <2>1, <2>5, <3>4, NextFound
    <3>7. Q(i, next)
      <4> HIDE DEF row, t, next
      <4> QED
        BY <3>3, <3>4, <3>5, <3>6
    <3> HIDE DEF Q
    <3> QED
      BY <2>0, <3>7
  <2>6. CASE k \notin DOMAIN m
    <3>1. f[i] = t
      BY <2>4, <2>6 DEF WithField
    <3>2. {j \in 1 .. i : Fields[j] \in DOMAIN m} = {j \in 1 .. i - 1 : Fields[j] \in DOMAIN m}
      BY <2>6, <1>2
    <3>3. FoundOf(found, code, m, i)
      <4>1. FoundOf(found, code, m, i - 1)
        BY <2>1
      <4>2. \A j \in 1 .. i : Fields[j] \in DOMAIN m => j \in 1 .. i - 1
        BY <2>6, <1>2
      <4> QED
        BY <3>2, <4>1, <4>2 DEF FoundOf
    <3>4. Q(i, found)
      BY <2>1, <3>1, <3>3
    <3> HIDE DEF Q
    <3> QED
      BY <2>0, <3>4
  <2> QED
    BY <2>5, <2>6
<1>6. N \in P
  <2>1. 0 .. N \subseteq P
    <3> HIDE DEF P, N
    <3> QED
      BY <1>2, <1>4, <1>5, Inductive
  <2> QED
    BY <1>2, <2>1
<1>7. PICK found : Q(N, found)
  BY <1>6
<1> DEFINE t == f[N]
           n == Len(t)
<1>8. t \in Seq(Glyphs) /\ n \in Nat /\ Parsed(t) = State("key", <<>>, <<>>, found, n)
  BY <1>2, <1>3, <1>7, LenProperties
<1> HIDE DEF t, n
<1>9. /\ Len(Joined(t, EndOfLine)) = Len(t) + 2
      /\ Parsed(Joined(t, EndOfLine)) = State("over", <<CR>>, <<>>, found, n + 2)
  BY <1>8, EndRead
<1> QED
  BY <1>1, <1>7, <1>9 DEF t, n

-----------------------------------------------------------------------------
(* Header fields: A request                                                *)

\* No line of a text is empty.
Lined(t) ==
    /\ t \in Seq(Glyphs) /\ (t # <<>> => t[1] # CR)
    /\ \A i \in 1 .. Len(t) - 1 : t[i] = LF => t[i + 1] # CR

LEMMA LinedNothing == Lined(<<>>)
  BY EmptySeq DEF Lined

LEMMA LinedJoined ==
    ASSUME NEW a, NEW b, Lined(a), Lined(b)
    PROVE  Lined(Joined(a, b))
<1> DEFINE n == Len(a)
           m == Len(b)
           j == Joined(a, b)
<1>1. a \in Seq(Glyphs) /\ b \in Seq(Glyphs) /\ n \in Nat /\ m \in Nat
  BY LenProperties DEF Lined
<1>2. /\ j \in Seq(Glyphs) /\ Len(j) = n + m
      /\ \A i \in 1 .. n : j[i] = a[i]
      /\ \A i \in 1 .. m : j[n + i] = b[i]
  <2>1. j \in Seq(Glyphs) /\ Len(j) = Len(a) + Len(b)
    BY <1>1, JoinedIs
  <2>2. ASSUME NEW i \in 1 .. n PROVE j[i] = a[i]
    BY <1>1, JoinedIs
  <2>3. ASSUME NEW i \in 1 .. m PROVE j[n + i] = b[i]
    BY <1>1, JoinedIs
  <2> QED
    BY <2>1, <2>2, <2>3
<1>3. /\ n > 0 => a[1] # CR
      /\ m > 0 => b[1] # CR
      /\ \A i \in 1 .. n - 1 : a[i] = LF => a[i + 1] # CR
      /\ \A i \in 1 .. m - 1 : b[i] = LF => b[i + 1] # CR
  <2>1. (n > 0 => a # <<>>) /\ (m > 0 => b # <<>>)
    BY EmptySeq
  <2> QED
    BY <2>1 DEF Lined
<1>4. j # <<>> => n + m > 0
  BY <1>1, <1>2, EmptySeq
<1> HIDE DEF n, m, j
<1>5. n + m > 0 => j[1] # CR
  <2>1. CASE n > 0
    BY <1>1, <1>2, <1>3, <2>1
  <2>2. CASE n = 0 /\ m > 0
    <3>1. j[0 + 1] = b[1]
      BY <1>1, <1>2, <2>2
    <3> QED
      BY <1>3, <2>2, <3>1
  <2> QED
    BY <1>1, <2>1, <2>2
<1>6. ASSUME NEW i \in 1 .. (n + m) - 1, j[i] = LF PROVE j[i + 1] # CR
  <2>1. CASE i + 1 <= n
    <3>1. i \in 1 .. n - 1 /\ i \in 1 .. n /\ i + 1 \in 1 .. n
      BY <1>1, <2>1
    <3> QED
      BY <1>2, <1>3, <1>6, <3>1
  <2>2. CASE i = n
    <3>1. m > 0 /\ 1 \in 1 .. m
      BY <1>1, <2>2
    <3>2. j[n + 1] = b[1]
      BY <1>2, <3>1
    <3> QED
      BY <1>3, <2>2, <3>1, <3>2
  <2>3. CASE i > n
    <3> DEFINE l == i - n
    <3>1. l \in 1 .. m - 1 /\ l \in 1 .. m /\ l + 1 \in 1 .. m /\ n + l = i /\ n + (l + 1) = i + 1
      BY <1>1, <2>3
    <3> HIDE DEF l
    <3>2. j[n + l] = b[l] /\ j[n + (l + 1)] = b[l + 1]
      BY <1>2, <3>1
    <3> QED
      BY <1>3, <1>6, <3>1, <3>2
  <2> QED
    BY <1>1, <2>1, <2>2, <2>3
<1>7. \A i \in 1 .. Len(j) - 1 : j[i] = LF => j[i + 1] # CR
  BY <1>2, <1>6
<1> QED
  BY <1>2, <1>4, <1>5, <1>7 DEF Lined, j

\* Characters that do not end a line, and the end of the line.
LEMMA LinedLine ==
    ASSUME NEW h \in Seq(Unbroken), h # <<>>
    PROVE  /\ Lined(Joined(h, EndOfLine)) /\ Joined(h, EndOfLine) # <<>>
           /\ Joined(h, EndOfLine)[1] = h[1]
<1> DEFINE n == Len(h)
           e == EndOfLine
           j == Joined(h, e)
<1>1. CR # LF /\ h \in Seq(Glyphs) /\ CR \in Glyphs /\ LF \in Glyphs
  BY GlyphsIs
<1>2. n \in Nat /\ n > 0 /\ \A i \in 1 .. n : h[i] \in Unbroken
  BY LenProperties, EmptySeq, ElementOfSeq
<1>3. e \in Seq(Glyphs) /\ Len(e) = 2 /\ e[1] = CR /\ e[2] = LF
  BY <1>1 DEF EndOfLine
<1> HIDE DEF e
<1>4. /\ j \in Seq(Glyphs) /\ Len(j) = n + 2
      /\ \A i \in 1 .. n : j[i] = h[i]
      /\ j[n + 1] = CR /\ j[n + 2] = LF
  <2>0. h \in Seq(Glyphs) /\ e \in Seq(Glyphs)
    BY <1>1, <1>3
  <2>1. j \in Seq(Glyphs) /\ Len(j) = Len(h) + Len(e)
    BY <2>0, JoinedIs
  <2>2. ASSUME NEW i \in 1 .. n PROVE j[i] = h[i]
    BY <2>0, JoinedIs
  <2>3. ASSUME NEW i \in 1 .. Len(e) PROVE j[n + i] = e[i]
    BY <2>0, JoinedIs
  <2> HIDE DEF j
  <2> QED
    BY <1>3, <2>1, <2>2, <2>3
<1>5. \A i \in 1 .. n : h[i] # CR /\ h[i] # LF
  BY <1>2 DEF Unbroken
<1> HIDE DEF n, j
<1>6. j # <<>> /\ j[1] = h[1] /\ h[1] # CR
  BY <1>2, <1>4, <1>5, EmptySeq
<1>7. ASSUME NEW i \in 1 .. Len(j) - 1 PROVE j[i] # LF
  <2>1. CASE i <= n
    BY <1>2, <1>4, <1>5, <2>1
  <2>2. CASE i = n + 1
    BY <1>1, <1>4, <2>2
  <2> QED
    BY <1>2, <1>4, <2>1, <2>2
<1>8. Lined(j)
  BY <1>4, <1>6, <1>7 DEF Lined
<1> QED
  BY <1>6, <1>8 DEF j, e

LEMMA LinedField ==
    ASSUME NEW k \in Unbroken, NEW v \in Seq(Unbroken)
    PROVE  Lined(FieldLine(k, v))
<1> DEFINE h == <<k, Colon, Blank>>
           hv == Joined(h, v)
<1>1. h \in Seq(Unbroken) /\ Len(h) = 3
  BY GlyphsIs
<1>2. FieldLine(k, v) = Joined(hv, EndOfLine)
  BY DEF FieldLine, Joined
<1> HIDE DEF h
<1>3. hv \in Seq(Unbroken) /\ Len(hv) = Len(h) + Len(v) /\ Len(v) \in Nat
  BY <1>1, JoinedIs, LenProperties
<1> HIDE DEF hv
<1>4. hv # <<>>
  BY <1>1, <1>3, EmptySeq
<1> QED
  BY <1>2, <1>3, <1>4, LinedLine

LEMMA LinedRequest ==
    ASSUME NEW k \in Unbroken, NEW v \in Seq(Unbroken)
    PROVE  Lined(RequestLine(k, v)) /\ RequestLine(k, v) # <<>> /\ RequestLine(k, v)[1] = k
<1> DEFINE h == <<k, Blank>>
           z == <<Version>>
           hv == Joined(h, v)
           hz == Joined(hv, z)
<1>1. h \in Seq(Unbroken) /\ Len(h) = 2 /\ h[1] = k
  BY GlyphsIs
<1>2. z \in Seq(Unbroken) /\ Len(z) = 1
  BY AssumedOfFields
<1>3. RequestLine(k, v) = Joined(hz, EndOfLine)
  BY DEF RequestLine, Joined
<1> HIDE DEF h, z
<1>4. hv \in Seq(Unbroken) /\ Len(hv) = Len(h) + Len(v) /\ Len(v) \in Nat
  BY <1>1, JoinedIs, LenProperties
<1>5. hv[1] = k
  <2>1. 1 \in 1 .. Len(h)
    BY <1>1
  <2>2. \A i \in 1 .. Len(h) : hv[i] = h[i]
    <3>1. h \in Seq(Unbroken)
      BY <1>1
    <3> QED
      BY <3>1, JoinedIs
  <2> QED
    BY <1>1, <2>1, <2>2
<1> HIDE DEF hv
<1>6. hz \in Seq(Unbroken) /\ Len(hz) = Len(hv) + Len(z)
  BY <1>2, <1>4, JoinedIs
<1>7. hz[1] = k
  <2>1. 1 \in 1 .. Len(hv)
    BY <1>1, <1>4
  <2>2. \A i \in 1 .. Len(hv) : hz[i] = hv[i]
    <3>1. hv \in Seq(Unbroken) /\ z \in Seq(Unbroken)
      BY <1>2, <1>4
    <3> QED
      BY <3>1, JoinedIs
  <2> QED
    BY <1>5, <2>1, <2>2
<1> HIDE DEF hz
<1>8. hz # <<>>
  BY <1>1, <1>2, <1>4, <1>6, EmptySeq
<1> QED
  BY <1>3, <1>6, <1>7, <1>8, LinedLine

\* The lines of a header, one by one.
HeaderLines(f, m) ==
    /\ f \in [0 .. Len(Fields) -> Seq(Glyphs)] /\ f[0] = <<>>
    /\ \A i \in 1 .. Len(Fields) : f[i] = WithLine(f[i - 1], m, Fields[i])

\* What a line does to the text.
LEMMA WithLineIs ==
    ASSUME NEW chars, NEW m, NEW k, k \in DOMAIN m
    PROVE  /\ k \in Requests => WithLine(chars, m, k) = Joined(RequestLine(k, m[k]), chars)
           /\ k \notin Requests => WithLine(chars, m, k) = Joined(chars, FieldLine(k, m[k]))
  BY Zenon DEF WithLine, Joined

LEMMA HeaderIsLines ==
    ASSUME NEW m, Sendable(m)
    PROVE  \E f : /\ HeaderLines(f, m)
                  /\ HeaderString(m) = Joined(f[Len(Fields)], IF DOMAIN m = {} THEN <<>> ELSE EndOfLine)
<1> DEFINE N == Len(Fields)
           S == Seq(Glyphs)
           s0 == <<>>
           next(x, i) == WithLine(x, m, Fields[i])
           Body(f) == [i \in 0 .. N |-> IF i = 0 THEN s0 ELSE next(f[i - 1], i)]
           f0 == CHOOSE f : f = Body(f)
           step == [i \in 1 .. N |-> [x \in S |-> next(x, i)]]
<1>1. N \in Nat /\ s0 \in S
  BY AssumedOfFields, EmptySeq
<1>2. HeaderString(m) = Joined(f0[N], IF DOMAIN m = {} THEN <<>> ELSE EndOfLine)
  BY Zenon DEF HeaderString, Joined
<1>5. ASSUME NEW i \in 1 .. N, NEW x \in S PROVE next(x, i) \in S
  <2> DEFINE k == Fields[i]
  <2>1. k \in Unbroken /\ (k \in DOMAIN m => m[k] \in Seq(Unbroken))
    BY AssumedOfFields DEF Sendable
  <2> HIDE DEF k
  <2>2. CASE k \in DOMAIN m
    <3>1. RequestLine(k, m[k]) \in Seq(Glyphs) /\ FieldLine(k, m[k]) \in Seq(Glyphs)
      BY <2>1, <2>2, LinedRequest, LinedField DEF Lined
    <3>2. Joined(RequestLine(k, m[k]), x) \in S /\ Joined(x, FieldLine(k, m[k])) \in S
      BY <3>1, JoinedIs
    <3>3. WithLine(x, m, k) \in S
      BY <2>2, <3>2, WithLineIs
    <3> QED
      BY <3>3 DEF k
  <2>3. CASE k \notin DOMAIN m
    BY <2>3 DEF WithLine, k
  <2> QED
    BY <2>2, <2>3
<1>6. step \in [1 .. N -> [S -> S]]
  <2> HIDE DEF S, N, next
  <2> QED
    BY <1>5
<1>7. \E f : Recurs(f, S, s0, N, step)
  <2> HIDE DEF S, N, step, s0
  <2> QED
    BY <1>1, <1>6, Recursion, Zenon
<1>8. PICK g : g \in [0 .. N -> S] /\ g[0] = s0 /\ \A i \in 1 .. N : g[i] = next(g[i - 1], i)
  <2> PICK g : Recurs(g, S, s0, N, step)
    BY <1>7
  <2> HIDE DEF S, N, next, s0
  <2>1. g \in [0 .. N -> S] /\ g[0] = s0 /\ \A i \in 1 .. N : g[i] = step[i][g[i - 1]]
    BY DEF Recurs
  <2>2. ASSUME NEW i \in 1 .. N PROVE g[i] = next(g[i - 1], i)
    <3>1. i - 1 \in 0 .. N
      BY <1>1
    <3>2. g[i - 1] \in S
      BY <3>1, <2>1
    <3> QED
      BY <2>1, <3>2
  <2> QED
    BY <2>1, <2>2
<1>9. HeaderLines(f0, m)
  <2>n. \A x, i : next(x, i) = WithLine(x, m, Fields[i])
    OBVIOUS
  <2> HIDE DEF S, N, next, s0
  <2>1. g = Body(g)
    <3>1. \A i \in 0 .. N : i # 0 => i \in 1 .. N
      BY <1>1
    <3> QED
      BY <1>8, <3>1
  <2>2. f0 = Body(f0)
    <3> HIDE DEF Body
    <3> QED
      BY <2>1
  <2> HIDE DEF f0
  <2>4. f0[0] = s0
    <3>1. 0 \in 0 .. N
      BY <1>1
    <3> QED
      BY <2>2, <3>1
  <2>5. ASSUME NEW i \in 1 .. N PROVE f0[i] = next(f0[i - 1], i)
    <3>1. i \in 0 .. N /\ i # 0
      BY <1>1
    <3> QED
      BY <2>2, <3>1
  <2>6. \A i \in 0 .. N : f0[i] \in S
    <3> DEFINE P == {i \in 0 .. N : f0[i] \in S}
    <3>1. 0 \in P
      BY <2>4, <1>1
    <3>2. \A i \in 1 .. N : i - 1 \in P => i \in P
      BY <2>5, <1>5, <1>1
    <3>3. 0 .. N \subseteq P
      <4> HIDE DEF P
      <4> QED
        BY <1>1, <3>1, <3>2, Inductive
    <3> QED
      BY <3>3
  <2>7. f0 \in [0 .. N -> S]
    BY <2>2, <2>6
  <2>8. \A i \in 1 .. N : f0[i] = WithLine(f0[i - 1], m, Fields[i])
    BY <2>5, <2>n, Zenon
  <2> QED
    BY <2>4, <2>8, <2>7, Zenon DEF HeaderLines, N, S, s0
<1> QED
  BY <1>2, <1>9


\* A header is lines, none of them empty, the request in front.
LEMMA HeaderLined ==
    ASSUME NEW m, Sendable(m), NEW f, HeaderLines(f, m)
    PROVE  /\ Lined(f[Len(Fields)])
           /\ (\E j \in 1 .. Len(Fields) : Fields[j] \in DOMAIN m \cap Requests) =>
                  f[Len(Fields)] # <<>> /\ f[Len(Fields)][1] \in Requests
<1> DEFINE N == Len(Fields)
           Seen(i) == \E j \in 1 .. i : Fields[j] \in DOMAIN m \cap Requests
           First(t) == t # <<>> /\ t[1] \in Requests
           P == {i \in 0 .. N : Lined(f[i]) /\ (Seen(i) => First(f[i]))}
<1>1. N \in Nat
  BY AssumedOfFields
<1>2. f[0] = <<>> /\ \A i \in 1 .. N : f[i] = WithLine(f[i - 1], m, Fields[i])
  BY DEF HeaderLines
<1>3. 0 \in P
  <2>1. ~ Seen(0)
    OBVIOUS
  <2> HIDE DEF Seen, First
  <2> QED
    BY <1>1, <1>2, <2>1, LinedNothing
<1>4. ASSUME NEW i \in 1 .. N, i - 1 \in P PROVE i \in P
  <2> DEFINE t == f[i - 1]
             k == Fields[i]
  <2>1. i \in 0 .. N /\ Lined(t) /\ (Seen(i - 1) => First(t)) /\ f[i] = WithLine(t, m, k)
    BY <1>1, <1>2, <1>4
  <2>2. k \in Unbroken /\ (k \in DOMAIN m => m[k] \in Seq(Unbroken))
    BY AssumedOfFields DEF Sendable
  <2>3. Seen(i) => Seen(i - 1) \/ k \in DOMAIN m \cap Requests
    BY <1>1
  <2> HIDE DEF Seen, t, k
  <2>4. CASE k \notin DOMAIN m
    <3>1. f[i] = t
      BY <2>1, <2>4 DEF WithLine
    <3> QED
      BY <2>1, <2>3, <2>4, <3>1
  <2>5. CASE k \in DOMAIN m /\ k \in Requests
    <3> DEFINE r == RequestLine(k, m[k])
    <3>1. Lined(r) /\ r # <<>> /\ r[1] = k
      BY <2>2, <2>5, LinedRequest
    <3>2. f[i] = Joined(r, t)
      BY <2>1, <2>5, WithLineIs
    <3> HIDE DEF r
    <3>3. Lined(Joined(r, t))
      BY <2>1, <3>1, LinedJoined
    <3>4. Joined(r, t) # <<>> /\ Joined(r, t)[1] = r[1]
      <4>1. r \in Seq(Glyphs) /\ t \in Seq(Glyphs) /\ Len(r) \in Nat /\ Len(t) \in Nat /\ Len(r) # 0
        BY <2>1, <3>1, LenProperties, EmptySeq DEF Lined
      <4>2. 1 \in 1 .. Len(r)
        BY <4>1
      <4>3. Len(Joined(r, t)) = Len(r) + Len(t) /\ Joined(r, t)[1] = r[1]
        BY <4>1, <4>2, JoinedIs
      <4> QED
        BY <4>1, <4>3, EmptySeq
    <3>5. First(f[i])
      BY <2>5, <3>1, <3>2, <3>4
    <3> HIDE DEF First
    <3> QED
      BY <2>1, <3>2, <3>3, <3>5
  <2>6. CASE k \in DOMAIN m /\ k \notin Requests
    <3> DEFINE r == FieldLine(k, m[k])
    <3>1. Lined(r)
      BY <2>2, <2>6, LinedField
    <3>2. f[i] = Joined(t, r)
      BY <2>1, <2>6, WithLineIs
    <3> HIDE DEF r
    <3>3. Lined(Joined(t, r))
      BY <2>1, <3>1, LinedJoined
    <3>4. First(t) => First(Joined(t, r))
      <4> SUFFICES ASSUME First(t) PROVE First(Joined(t, r))
        OBVIOUS
      <4>1. r \in Seq(Glyphs) /\ t \in Seq(Glyphs) /\ Len(r) \in Nat /\ Len(t) \in Nat /\ Len(t) # 0
        BY <2>1, <3>1, LenProperties, EmptySeq DEF Lined
      <4>2. 1 \in 1 .. Len(t)
        BY <4>1
      <4>3. Len(Joined(t, r)) = Len(t) + Len(r) /\ Joined(t, r)[1] = t[1]
        BY <4>1, <4>2, JoinedIs
      <4> QED
        BY <4>1, <4>3, EmptySeq
    <3> HIDE DEF First
    <3> QED
      BY <2>1, <2>3, <2>6, <3>2, <3>3, <3>4
  <2> QED
    BY <2>4, <2>5, <2>6
<1>5. N \in P
  <2>1. 0 .. N \subseteq P
    <3> HIDE DEF P, N
    <3> QED
      BY <1>1, <1>3, <1>4, Inductive
  <2> QED
    BY <1>1, <2>1
<1> QED
  BY <1>5

-----------------------------------------------------------------------------
(* Header fields: The invariant and the theorem                            *)

\* The list between two calls: fields a caller may have added, or those of an answer.
HeadersInv ==
    /\ DOMAIN fields \subseteq {Fields[i] : i \in 1 .. Len(Fields)} \cup {"Status"}
    /\ Sendable(fields)
    /\ AnswerRead

LEMMA HeadersStart == HeaderInit => HeadersInv
<1> SUFFICES ASSUME HeaderInit PROVE HeadersInv
  OBVIOUS
<1>1. DOMAIN fields = {}
  BY NoFieldsIs DEF HeaderInit
<1> QED
  BY <1>1 DEF HeadersInv, Sendable, AnswerRead, Answered

LEMMA FieldOf == ASSUME NEW k \in ToSet(Fields)
                 PROVE \E i \in 1 .. Len(Fields) : k = Fields[i]
<1>1. Fields \in Seq(STRING)
  BY HeadersAssumption
<1>2. DOMAIN Fields = 1 .. Len(Fields)
  BY <1>1, LenProperties
<1> QED
  BY <1>2 DEF ToSet

LEMMA AddKeeps ==
    ASSUME HeadersInv, NEW k \in ToSet(Fields), NEW v \in Contents, AddHeader(k, v)
    PROVE  HeadersInv'
<1>1. PICK i \in 1 .. Len(Fields) : k = Fields[i]
  BY FieldOf
<1>2. k # "Status" /\ v \in Seq(Unbroken)
  BY <1>1, AssumedOfFields
<1>3. fields' = With(fields, k, v) /\ "Status" \notin DOMAIN fields
  BY DEF AddHeader, Answered
<1>4. /\ DOMAIN fields' = DOMAIN fields \cup {k}
      /\ fields'[k] = v /\ \A x \in DOMAIN fields : x # k => fields'[x] = fields[x]
  BY <1>3 DEF With
<1>5. DOMAIN fields' \subseteq {Fields[j] : j \in 1 .. Len(Fields)} \cup {"Status"}
  BY <1>1, <1>4 DEF HeadersInv
<1>6. Sendable(fields')
  <2> SUFFICES ASSUME NEW j \in 1 .. Len(Fields), Fields[j] \in DOMAIN fields'
               PROVE  fields'[Fields[j]] \in Seq(Unbroken)
    BY DEF Sendable
  <2>1. CASE Fields[j] = k
    BY <1>2, <1>4, <2>1
  <2>2. CASE Fields[j] # k
    BY <1>4, <2>2 DEF HeadersInv, Sendable
  <2> QED
    BY <2>1, <2>2
<1>7. "Status" \notin DOMAIN fields'
  BY <1>2, <1>3, <1>4
<1> QED
  BY <1>5, <1>6, <1>7 DEF HeadersInv, Sendable, AnswerRead, Answered

LEMMA RemoveKeeps ==
    ASSUME HeadersInv, NEW k, RemoveHeader(k)
    PROVE  HeadersInv'
<1>1. "Status" \notin DOMAIN fields /\ fields' = [x \in DOMAIN fields \ {k} |-> fields[x]]
  BY DEF RemoveHeader, Answered
<1>2. DOMAIN fields' = DOMAIN fields \ {k} /\ \A x \in DOMAIN fields' : fields'[x] = fields[x]
  BY <1>1
<1>3. Sendable(fields')
  BY <1>2 DEF HeadersInv, Sendable
<1> QED
  BY <1>1, <1>2, <1>3 DEF HeadersInv, Sendable, AnswerRead, Answered

LEMMA ClearKeeps == ClearHeaders => HeadersInv'
<1> SUFFICES ASSUME ClearHeaders PROVE HeadersInv'
  OBVIOUS
<1>1. DOMAIN fields' = {}
  BY NoFieldsIs DEF ClearHeaders
<1> QED
  BY <1>1 DEF HeadersInv, Sendable, AnswerRead, Answered

LEMMA AnswerKeepsFields ==
    ASSUME HeadersInv, NEW code \in Codes, ParseHeader(code)
    PROVE  HeadersInv'
<1> DEFINE chars == ServerAnswers(code, fields)
<1>1. "Status" \notin DOMAIN fields
  BY DEF ParseHeader, Answered
<1>2. Sendable(fields)
  BY DEF HeadersInv
<1>3. PICK found : /\ FoundOf(found, code, fields, Len(Fields))
                   /\ Parsed(chars) = State("over", <<CR>>, <<>>, found, Len(chars))
  BY <1>2, AnswerParsed
<1>4. fields' = Parsed(chars).found /\ headerLength' = Parsed(chars).length /\ before' = fields
  BY DEF ParseHeader
<1> HIDE DEF chars
<1>5. fields' = found /\ headerLength' = Len(chars)
  BY <1>3, <1>4 DEF State
<1>6. /\ DOMAIN found = {"Status"} \cup {Fields[j] : j \in {j \in 1 .. Len(Fields) : Fields[j] \in DOMAIN fields}}
      /\ found["Status"] = <<code>>
      /\ \A j \in 1 .. Len(Fields) : Fields[j] \in DOMAIN fields => found[Fields[j]] = NoColons(fields[Fields[j]])
  BY <1>3 DEF FoundOf
<1>7. DOMAIN fields' \subseteq {Fields[j] : j \in 1 .. Len(Fields)} \cup {"Status"}
  BY <1>5, <1>6
<1>8. Sendable(fields')
  <2> SUFFICES ASSUME NEW j \in 1 .. Len(Fields), Fields[j] \in DOMAIN found
               PROVE  found[Fields[j]] \in Seq(Unbroken)
    BY <1>5 DEF Sendable
  <2>1. Fields[j] # "Status"
    BY AssumedOfFields
  <2>2. Fields[j] \in DOMAIN fields
    BY <1>6, <2>1
  <2>3. fields[Fields[j]] \in Seq(Unbroken)
    BY <1>2, <2>2 DEF Sendable
  <2>4. NoColons(fields[Fields[j]]) \in Seq(Unbroken)
    BY <2>3, NoColonsGrows
  <2> QED
    BY <1>6, <2>2, <2>4
<1>9. \A k \in DOMAIN fields : found[k] = NoColons(fields[k])
  <2> SUFFICES ASSUME NEW k \in DOMAIN fields PROVE found[k] = NoColons(fields[k])
    OBVIOUS
  <2>1. PICK j \in 1 .. Len(Fields) : k = Fields[j]
    BY <1>1 DEF HeadersInv
  <2> QED
    BY <1>6, <2>1
<1>10. AnswerRead'
  <2>1. headerLength' = Len(ServerAnswers(code, before'))
    BY <1>4, <1>5 DEF chars
  <2>2. fields'["Status"] = <<code>>
    BY <1>5, <1>6
  <2>3. \A k \in DOMAIN before' : fields'[k] = NoColons(before'[k])
    BY <1>4, <1>5, <1>9
  <2> QED
    BY <2>1, <2>2, <2>3 DEF AnswerRead
<1> QED
  BY <1>7, <1>8, <1>10 DEF HeadersInv, Sendable

LEMMA EndIs == EndOfLine \in Seq(Glyphs) /\ Len(EndOfLine) = 2
<1>1. CR \in Glyphs /\ LF \in Glyphs
  BY GlyphsIs
<1> QED
  BY <1>1 DEF EndOfLine

\* In a text of lines there is no blank line but the one put behind them.
LEMMA OneBlankLine ==
    ASSUME NEW t, Lined(t), NEW e, e \in {<<>>, EndOfLine}, NEW i \in 1 .. Len(Joined(t, e)) - 3,
           SubSeq(Joined(t, e), i, i + 3) = EndOfLine \o EndOfLine
    PROVE  i = Len(Joined(t, e)) - 3
<1> DEFINE j == Joined(t, e)
           n == Len(t)
           m == Len(j)
<1>1. t \in Seq(Glyphs) /\ n \in Nat /\ CR # LF /\ CR \in Glyphs /\ LF \in Glyphs
  BY GlyphsIs, LenProperties DEF Lined
<1>2. e \in Seq(Glyphs) /\ Len(e) \in {0, 2}
  <2>1. EndOfLine \in Seq(Glyphs) /\ Len(EndOfLine) = 2
    BY EndIs
  <2>2. <<>> \in Seq(Glyphs) /\ Len(<<>>) = 0
    BY EmptySeq
  <2>3. CASE e = <<>>
    BY <2>2, <2>3
  <2>4. CASE e = EndOfLine
    BY <2>1, <2>4
  <2> QED
    BY <2>3, <2>4
<1>3. j \in Seq(Glyphs) /\ m = n + Len(e) /\ \A l \in 1 .. n : j[l] = t[l]
  <2>1. j \in Seq(Glyphs) /\ Len(j) = Len(t) + Len(e)
    BY <1>1, <1>2, JoinedIs
  <2>2. ASSUME NEW l \in 1 .. n PROVE j[l] = t[l]
    BY <1>1, <1>2, JoinedIs, ZenonT(40)
  <2> QED
    BY <2>1, <2>2
<1>4. \A l \in 1 .. n - 1 : t[l] = LF => t[l + 1] # CR
  BY DEF Lined
<1>5. SubSeq(j, i, i + 3) = EndOfLine \o EndOfLine
  OBVIOUS
<1>6. i \in 1 .. m - 3
  OBVIOUS
<1> DEFINE s == SubSeq(j, i, i + 3)
<1>7. s[2] = LF /\ s[3] = CR
  BY <1>5 DEF EndOfLine
<1> HIDE DEF j
<1>8. s[2] = j[i + 1] /\ s[3] = j[i + 2]
  <2>1. m \in Nat
    BY <1>3, LenProperties
  <2>2. i \in Int /\ i + 3 \in Int /\ \A l \in i .. i + 3 : j[l] \in Glyphs
    BY <1>3, <1>6, <2>1, ElementOfSeq
  <2> DEFINE k == i + 3
  <2>3. k \in Int /\ \A l \in i .. k : j[l] \in Glyphs
    BY <2>2
  <2> HIDE DEF k
  <2>4. \A l \in 1 .. k - i + 1 : SubSeq(j, i, k)[l] = j[i + l - 1]
    BY <2>2, <2>3, SubSeqProperties
  <2>5. k - i + 1 = 4 /\ i + 2 - 1 = i + 1 /\ i + 3 - 1 = i + 2
    BY <2>2 DEF k
  <2> DEFINE x == SubSeq(j, i, k)
             q == k - i + 1
  <2>6. q = 4 /\ \A l \in 1 .. q : x[l] = j[i + l - 1]
    BY <2>4, <2>5
  <2> HIDE DEF x, q
  <2>7. x[2] = j[i + 2 - 1] /\ x[3] = j[i + 3 - 1]
    BY <2>6
  <2>8. x[2] = j[i + 1] /\ x[3] = j[i + 2]
    BY <2>5, <2>7
  <2> QED
    BY <2>8 DEF k, x
<1> HIDE DEF s, n, m
<1>9. CASE i + 2 <= n
  <2>1. i + 1 \in 1 .. n - 1 /\ i + 1 \in 1 .. n /\ i + 2 \in 1 .. n /\ (i + 1) + 1 = i + 2
    BY <1>1, <1>6, <1>9
  <2>2. t[i + 1] = LF /\ t[i + 2] = CR
    BY <1>3, <1>7, <1>8, <2>1
  <2>3. t[(i + 1) + 1] # CR
    BY <1>4, <2>1, <2>2
  <2> QED
    BY <2>1, <2>2, <2>3
<1>10. CASE i + 2 > n
  <2>2. m = n + 2 /\ i = m - 3
    BY <1>1, <1>2, <1>3, <1>6, <1>10
  <2> QED
    BY <2>2 DEF m, j
<1> QED
  BY <1>1, <1>6, <1>9, <1>10

LEMMA RequestInFront == HeadersInv => RequestFirst
<1> SUFFICES ASSUME HeadersInv PROVE RequestFirst
  OBVIOUS
<1> DEFINE e == IF DOMAIN fields = {} THEN <<>> ELSE EndOfLine
           chars == HeaderString(fields)
<1>1. Sendable(fields)
  BY DEF HeadersInv
<1>2. PICK f : HeaderLines(f, fields) /\ HeaderString(fields) = Joined(f[Len(Fields)], e)
  BY <1>1, HeaderIsLines
<1> DEFINE t == f[Len(Fields)]
<1>3. /\ Lined(t)
      /\ (\E j \in 1 .. Len(Fields) : Fields[j] \in DOMAIN fields \cap Requests) => t # <<>> /\ t[1] \in Requests
  BY <1>1, <1>2, HeaderLined
<1>4. chars = Joined(t, e) /\ e \in {<<>>, EndOfLine}
  BY <1>2
<1> HIDE DEF chars, t, e
<1>5. \A i \in 1 .. Len(chars) - 3 : SubSeq(chars, i, i + 3) = EndOfLine \o EndOfLine => i = Len(chars) - 3
  BY <1>3, <1>4, OneBlankLine
<1>6. DOMAIN fields \cap Requests # {} => chars[1] \in Requests
  <2> SUFFICES ASSUME NEW k \in DOMAIN fields, k \in Requests PROVE chars[1] \in Requests
    OBVIOUS
  <2>1. k # "Status"
    BY DEF Requests
  <2>2. PICK j \in 1 .. Len(Fields) : k = Fields[j]
    BY <2>1 DEF HeadersInv
  <2>3. t # <<>> /\ t[1] \in Requests
    BY <1>3, <2>2
  <2>4. t \in Seq(Glyphs) /\ e \in Seq(Glyphs)
    <3>1. <<>> \in Seq(Glyphs) /\ EndOfLine \in Seq(Glyphs)
      BY EndIs, EmptySeq
    <3>2. t \in Seq(Glyphs)
      BY <1>3 DEF Lined
    <3> QED
      BY <1>4, <3>1, <3>2
  <2>5. \A i \in 1 .. Len(t) : Joined(t, e)[i] = t[i]
    BY <2>4, JoinedIs
  <2>6. 1 \in 1 .. Len(t)
    BY <2>3, <2>4, EmptySeq, LenProperties
  <2> QED
    BY <1>4, <2>3, <2>5, <2>6
<1> QED
  BY <1>5, <1>6 DEF RequestFirst, chars

\* Whatever fields are added and removed, in whatever order the map keeps them, and
\* whatever an answer says: the header sent starts with its request and has one blank
\* line, at its end; of an answer the status, every field under its name and the place
\* where the header ends are found (headers.cpp, HeaderString and Parse).
THEOREM HeaderFieldsKept == HeaderSpec => []FieldsKept
<1>1. ASSUME HeadersInv, [HeaderNext]_rqvars PROVE HeadersInv'
  <2>1. CASE HeaderNext
    BY <1>1, <2>1, AddKeeps, RemoveKeeps, ClearKeeps, AnswerKeepsFields DEF HeaderNext
  <2>2. CASE UNCHANGED rqvars
    BY <1>1, <2>2 DEF rqvars, HeadersInv, AnswerRead, Answered
  <2> QED
    BY <1>1, <2>1, <2>2
<1>2. HeadersInv => FieldsKept
  BY RequestInFront DEF FieldsKept, HeadersInv
<1> QED
  BY <1>1, <1>2, HeadersStart, PTL DEF HeaderSpec
-----------------------------------------------------------------------------
(* Options: What every command keeps                                      *)

\* opt has the fields of the defaults, whatever their values.
Fielded(o) == o = [f \in DOMAIN defaults |-> o[f]]

OptionsInv == Fielded(opt) /\ NoDirectoriesWins

LEMMA FieldsOfDefaults ==
    DOMAIN defaults =
        {"dirstruct", "no_dirstruct", "recursive", "timestamping", "reclevel", "remove_listing",
         "htmlify", "ftp_pasv", "noclobber", "noparent", "verbose", "add_hostdir", "ntry",
         "limit_rate", "useragent", "read_timeout", "connect_timeout", "dns_timeout",
         "progress", "thread_count"}
  BY DEF defaults

\* What every command keeps of the options.
Keeps(o, r) ==
    /\ Fielded(r.opt)
    /\ o.ftp_pasv \in {-1, 2} => r.opt.ftp_pasv = o.ftp_pasv
    /\ (o.no_dirstruct = 1 => o.dirstruct = 0) => (r.opt.no_dirstruct = 1 => r.opt.dirstruct = 0)
    /\ ~ r.ok => r.opt = o

\* A Boolean is 1, 0 or refused.
LEMMA Booleans ==
    ASSUME NEW val
    PROVE  LET r == cmd_boolean(val) IN r.value \in {0, 1} /\ r.ok \in BOOLEAN /\ (~ r.ok => r.value = 0)
  BY DEF cmd_boolean, Yes, No

\* A command that sets one field, which is none of those that are linked.
LEMMA SetsOne ==
    ASSUME NEW o, Fielded(o), NEW r,
           NEW f \in DOMAIN defaults \ {"ftp_pasv", "dirstruct", "no_dirstruct"}
    PROVE  Keeps(o, Plain(o, f, r))
<1>1. CASE r.ok
  <2>1. Plain(o, f, r) = [ok |-> r.ok, opt |-> [o EXCEPT ![f] = r.value]]
    BY <1>1 DEF Plain
  <2> QED
    BY <1>1, <2>1, FieldsOfDefaults DEF Keeps, Fielded
<1>2. CASE ~ r.ok
  BY <1>2 DEF Keeps, Plain
<1> QED
  BY <1>1, <1>2

\* Every command: a lock holds, directories switched off stay off, and what
\* is refused changes nothing.
LEMMA Commands ==
    ASSUME NEW o, Fielded(o), NEW val, NEW com \in ValueOptions \cup BooleanOptions
    PROVE  Keeps(o, Command(o, com, val))
<1> DEFINE b == cmd_boolean(val)
<1>b. b.value \in {0, 1} /\ (~ b.ok => b.value = 0)
  BY Booleans
<1>1. CASE com = "dirstruct"
  <2>1. Keeps(o, cmd_spec_dirstruct(o, val))
    <3> DEFINE r == [o EXCEPT !.dirstruct = b.value, !.no_dirstruct = 1 - b.value]
    <3>1. cmd_spec_dirstruct(o, val) = [ok |-> b.ok, opt |-> IF b.ok THEN r ELSE o]
      BY DEF cmd_spec_dirstruct
    <3>2. /\ r = [f \in DOMAIN defaults |-> r[f]]
          /\ r.ftp_pasv = o.ftp_pasv /\ r.dirstruct = b.value /\ r.no_dirstruct = 1 - b.value
      BY FieldsOfDefaults DEF Fielded
    <3>3. 1 - b.value = 1 => b.value = 0
      BY <1>b
    <3> HIDE DEF r, b
    <3>4. CASE b.ok
      BY <3>1, <3>2, <3>3, <3>4 DEF Keeps, Fielded
    <3>5. CASE ~ b.ok
      BY <3>1, <3>5 DEF Keeps
    <3> QED
      BY <3>4, <3>5
  <2> QED
    BY <1>1, <2>1 DEF Command
<1>2. CASE com = "htmlify"
  <2>1. Keeps(o, cmd_spec_htmlify(o, val))
    BY <1>b, FieldsOfDefaults DEF Keeps, Fielded, cmd_spec_htmlify
  <2> QED
    BY <1>2, <2>1 DEF Command
<1>3. CASE com = "mirror"
  <2>1. Keeps(o, cmd_spec_mirror(o, val))
    BY <1>b, FieldsOfDefaults DEF Keeps, Fielded, cmd_spec_mirror
  <2> QED
    BY <1>3, <2>1 DEF Command
<1>4. CASE com = "recursive"
  <2>1. Keeps(o, cmd_spec_recursive(o, val))
    BY <1>b, FieldsOfDefaults DEF Keeps, Fielded, cmd_spec_recursive
  <2> QED
    BY <1>4, <2>1 DEF Command
<1>5. CASE com = "timeout"
  <2>1. Keeps(o, cmd_spec_timeout(o, val))
    BY FieldsOfDefaults DEF Keeps, Fielded, cmd_spec_timeout
  <2> QED
    BY <1>5, <2>1 DEF Command
<1>6. CASE com \in {"progress", "restrictfilenames", "useragent"}
  <2>1. Keeps(o, cmd_spec_progress(o, val))
    BY FieldsOfDefaults DEF Keeps, Fielded, cmd_spec_progress
  <2>2. Keeps(o, cmd_spec_restrict_file_names(o, val))
    BY DEF Keeps, cmd_spec_restrict_file_names
  <2>3. Keeps(o, cmd_spec_useragent(o, val))
    BY FieldsOfDefaults DEF Keeps, Fielded, cmd_spec_useragent
  <2> QED
    BY <1>6, <2>1, <2>2, <2>3 DEF Command
<1>7. CASE com = "passiveftp"
  <2> DEFINE r == cmd_lockable_boolean(val, o.ftp_pasv)
  <2>1. o.ftp_pasv \in {-1, 2} => r.value = o.ftp_pasv
    BY DEF cmd_lockable_boolean, Yes
  <2>2. Keeps(o, Plain(o, "ftp_pasv", r))
    <3> HIDE DEF r
    <3> QED
      BY <2>1, FieldsOfDefaults DEF Keeps, Fielded, Plain
  <2> QED
    BY <1>7, <2>2 DEF Command
<1>8. CASE com \in {"removelisting", "noclobber", "noparent", "verbose", "addhostdir"}
  <2>1. \A f \in {"remove_listing", "noclobber", "noparent", "verbose", "add_hostdir"} :
            Keeps(o, Plain(o, f, b))
    BY SetsOne, FieldsOfDefaults
  <2> QED
    BY <1>8, <2>1 DEF Command
<1>9. CASE com \in {"limitrate", "readtimeout", "tries", "thread-count"}
  <2>1. \A f \in {"limit_rate", "read_timeout", "ntry", "thread_count"} : \A r : Keeps(o, Plain(o, f, r))
    BY SetsOne, FieldsOfDefaults
  <2> QED
    BY <1>9, <2>1 DEF Command
<1> QED
  BY <1>1, <1>2, <1>3, <1>4, <1>5, <1>6, <1>7, <1>8, <1>9 DEF ValueOptions, BooleanOptions

\* What a step of the command line does to the options.
LEMMA StepOptions ==
    ASSUME OptionsInv, OptionsNext
    PROVE  /\ OptionsInv'
           /\ opt.ftp_pasv \in {-1, 2} => opt'.ftp_pasv = opt.ftp_pasv
           /\ outcome' = "exit" => opt' = opt
<1> DEFINE Goal == /\ OptionsInv'
                   /\ opt.ftp_pasv \in {-1, 2} => opt'.ftp_pasv = opt.ftp_pasv
                   /\ outcome' = "exit" => opt' = opt
<1>1. ASSUME NEW com \in ValueOptions \cup BooleanOptions, NEW val, setoptval(com, val)
      PROVE  Goal
  <2> DEFINE r == Command(opt, com, val)
  <2>1. Keeps(opt, r)
    BY Commands DEF OptionsInv
  <2>2. opt' = r.opt /\ outcome' = IF r.ok THEN "running" ELSE "exit"
    BY <1>1 DEF setoptval
  <2> HIDE DEF r
  <2> QED
    BY <2>1, <2>2 DEF Keeps, OptionsInv, NoDirectoriesWins
<1>2. UNCHANGED opt => Goal
  BY DEF OptionsInv, NoDirectoriesWins
<1>3. CASE \E com \in ValueOptions \cup BooleanOptions : \E val \in ValueTexts(com) : setoptval(com, val)
  BY <1>1, <1>3
<1>4. CASE NoLetters
  <2>1. CASE \E l \in DOMAIN LetterCommands : setoptval(LetterCommands[l][1], <<LetterCommands[l][2]>>)
    <3>1. \A l \in DOMAIN LetterCommands : LetterCommands[l][1] \in BooleanOptions
      BY DEF LetterCommands, BooleanOptions
    <3> QED
      BY <1>1, <2>1, <3>1
  <2> QED
    BY <1>2, <1>4, <2>1 DEF NoLetters
<1>5. CASE \E com \in {"noparent", "noclobber"}, val \in {<<>>, <<"1">>, <<"no">>} : ParentOrClobber(com, val)
  BY <1>1, <1>5 DEF ParentOrClobber, BooleanOptions
<1>6. CASE DontRemoveListing
  BY <1>1, <1>6 DEF DontRemoveListing, BooleanOptions
<1>7. CASE Crashes
  BY <1>2, <1>7 DEF Crashes
<1> QED
  BY <1>3, <1>4, <1>5, <1>6, <1>7 DEF OptionsNext

\* Where the options start, and what a step leaves.
LEMMA OptionsStart ==
    /\ OptionsInit => OptionsInv
    /\ OptionsInv /\ [OptionsNext]_ovars => OptionsInv'
<1>1. OptionsInit => OptionsInv
  <2>1. Fielded(defaults) /\ defaults.no_dirstruct # 1
    BY DEF Fielded, defaults
  <2> QED
    BY <2>1 DEF OptionsInit, OptionsInv, NoDirectoriesWins
<1>2. OptionsInv /\ [OptionsNext]_ovars => OptionsInv'
  BY StepOptions DEF OptionsInv, NoDirectoriesWins, ovars
<1> QED
  BY <1>1, <1>2

\* However many options a command line has and in whatever order: passive mode
\* that is locked stays as it is, a command that is refused leaves every option
\* as it was, and directories that were switched off are not switched on by a
\* recursive or a mirroring download (init.cpp:563-603, 789-1110).
THEOREM RefusedOrLockedKept == OptionsSpec => OptionsKept /\ []NoDirectoriesWins
<1>1. OptionsInit => OptionsInv
  BY OptionsStart
<1>2. OptionsInv /\ [OptionsNext]_ovars => OptionsInv'
  BY OptionsStart
<1>3. OptionsInv /\ [OptionsNext]_ovars
        => [opt.ftp_pasv \in {-1, 2} => opt'.ftp_pasv = opt.ftp_pasv]_ovars
  BY StepOptions DEF ovars
<1>4. OptionsInv /\ [OptionsNext]_ovars => [outcome' = "exit" => opt' = opt]_ovars
  BY StepOptions DEF ovars
<1>5. OptionsInv => NoDirectoriesWins
  BY DEF OptionsInv
<1> QED
  BY <1>1, <1>2, <1>3, <1>4, <1>5, PTL
     DEF OptionsSpec, OptionsKept, LockKept, RefusedChangesNothing

-----------------------------------------------------------------------------
(* Options: The table of commands                                          *)

\* Ascending without repetition, as the comment before commands[] demands.
Ascending(table) == \A i, j \in 1 .. Len(table) : i < j => table[i] < table[j]

\* The ranges of places, counted from 0, that the search goes through.
Lows(table) == 0 .. Len(table)
Highs(table) == -1 .. Len(table) - 1
Ranges(table) == Lows(table) \X Highs(table)
Middle(lo, hi) == (lo + hi) \div 2

\* What one turn of the search makes of the searches of the two halves.
Turn(table, name, within, r) ==
    LET mid == Middle(r[1], r[2]) IN
    IF r[1] > r[2] THEN -1
    ELSE IF name < table[mid + 1] THEN within[<<r[1], mid - 1>>]
    ELSE IF name > table[mid + 1] THEN within[<<mid + 1, r[2]>>]
    ELSE mid

Searches(within, table, name) == within = [r \in Ranges(table) |-> Turn(table, name, within, r)]

\* Where the name is between two places.
At(table, name, lo, hi) == {i \in lo .. hi : table[i + 1] = name}
Place(table, name, lo, hi) ==
    IF At(table, name, lo, hi) = {} THEN -1 ELSE CHOOSE i \in At(table, name, lo, hi) : TRUE

LEMMA MiddleBetween ==
    ASSUME NEW lo \in Int, NEW hi \in Int, lo <= hi
    PROVE  Middle(lo, hi) \in lo .. hi
BY DEF Middle

LEMMA PlaceIs ==
    ASSUME NEW table \in Seq(Int), Ascending(table), NEW name \in Int,
           NEW lo \in Lows(table), NEW hi \in Highs(table), NEW i \in lo .. hi, table[i + 1] = name
    PROVE  Place(table, name, lo, hi) = i
<1>1. \A j \in At(table, name, lo, hi) : j = i
  <2> SUFFICES ASSUME NEW j \in At(table, name, lo, hi), j # i PROVE FALSE
    OBVIOUS
  <2>1. j \in lo .. hi /\ table[j + 1] = name
    BY DEF At
  <2>2. i + 1 \in 1 .. Len(table) /\ j + 1 \in 1 .. Len(table)
    BY <2>1 DEF Lows, Highs
  <2>3. table[i + 1] \in Int /\ table[j + 1] \in Int
    BY <2>2, ElementOfSeq
  <2>4. i + 1 < j + 1 \/ j + 1 < i + 1
    BY <2>1, <2>2
  <2> QED
    BY <2>1, <2>2, <2>3, <2>4 DEF Ascending
<1>2. i \in At(table, name, lo, hi)
  BY DEF At
<1> QED
  BY <1>1, <1>2 DEF Place

LEMMA NoPlace ==
    ASSUME NEW table, NEW name, NEW lo, NEW hi, \A i \in lo .. hi : table[i + 1] # name
    PROVE  Place(table, name, lo, hi) = -1
BY DEF Place, At

\* The place of a name is found by looking in the middle first.
LEMMA PlaceTurns ==
    ASSUME NEW table \in Seq(Int), Ascending(table), NEW name \in Int,
           NEW lo \in Lows(table), NEW hi \in Highs(table), lo <= hi
    PROVE  LET mid == Middle(lo, hi) IN
           /\ mid \in lo .. hi /\ mid + 1 \in Lows(table) /\ mid - 1 \in Highs(table)
           /\ table[mid + 1] \in Int
           /\ name < table[mid + 1] => Place(table, name, lo, hi) = Place(table, name, lo, mid - 1)
           /\ name > table[mid + 1] => Place(table, name, lo, hi) = Place(table, name, mid + 1, hi)
           /\ name = table[mid + 1] => Place(table, name, lo, hi) = mid
<1> DEFINE mid == Middle(lo, hi)
<1>1. lo \in Int /\ hi \in Int /\ 0 <= lo /\ hi < Len(table) /\ Len(table) \in Nat
  BY DEF Lows, Highs
<1>2. mid \in lo .. hi
  BY <1>1, MiddleBetween
<1> HIDE DEF mid
<1>3. mid + 1 \in Lows(table) /\ mid - 1 \in Highs(table)
  BY <1>1, <1>2 DEF Lows, Highs
<1>4. \A i \in lo .. hi : i + 1 \in 1 .. Len(table) /\ table[i + 1] \in Int
  BY <1>1, ElementOfSeq
<1>5. \A i \in lo .. hi : /\ i < mid => table[i + 1] < table[mid + 1]
                          /\ i > mid => table[i + 1] > table[mid + 1]
  BY <1>1, <1>2, <1>4 DEF Ascending
<1>6. ASSUME name < table[mid + 1]
      PROVE  Place(table, name, lo, hi) = Place(table, name, lo, mid - 1)
  <2>1. \A i \in lo .. hi : table[i + 1] = name => i \in lo .. mid - 1
    BY <1>1, <1>2, <1>4, <1>5, <1>6
  <2>2. At(table, name, lo, hi) = At(table, name, lo, mid - 1)
    BY <1>1, <1>2, <2>1 DEF At
  <2> QED
    BY <2>2 DEF Place
<1>7. ASSUME name > table[mid + 1]
      PROVE  Place(table, name, lo, hi) = Place(table, name, mid + 1, hi)
  <2>1. \A i \in lo .. hi : table[i + 1] = name => i \in mid + 1 .. hi
    BY <1>1, <1>2, <1>4, <1>5, <1>7
  <2>2. At(table, name, lo, hi) = At(table, name, mid + 1, hi)
    BY <1>1, <1>2, <2>1 DEF At
  <2> QED
    BY <2>2 DEF Place
<1>8. name = table[mid + 1] => Place(table, name, lo, hi) = mid
  BY <1>2, PlaceIs
<1> QED
  BY <1>2, <1>3, <1>4, <1>6, <1>7, <1>8 DEF mid

\* There is a function that searches: the one that knows every place.
LEMMA SearchExists ==
    ASSUME NEW table \in Seq(Int), Ascending(table), NEW name \in Int
    PROVE  \E within : Searches(within, table, name)
<1> DEFINE within == [r \in Ranges(table) |-> Place(table, name, r[1], r[2])]
<1>0. /\ within = [r \in Ranges(table) |-> Place(table, name, r[1], r[2])]
      /\ \A lo \in Lows(table), hi \in Highs(table) : within[<<lo, hi>>] = Place(table, name, lo, hi)
  BY DEF Ranges
<1> HIDE DEF within
<1>1. ASSUME NEW lo \in Lows(table), NEW hi \in Highs(table)
      PROVE  Place(table, name, lo, hi) = Turn(table, name, within, <<lo, hi>>)
  <2>1. CASE lo > hi
    <3>1. lo .. hi = {}
      BY <2>1 DEF Lows, Highs
    <3> QED
      BY <2>1, <3>1, NoPlace DEF Turn
  <2>2. CASE ~ lo > hi
    <3>1. lo <= hi
      BY <2>2 DEF Lows, Highs
    <3> DEFINE mid == Middle(lo, hi)
    <3>2. /\ mid \in lo .. hi /\ mid + 1 \in Lows(table) /\ mid - 1 \in Highs(table)
          /\ table[mid + 1] \in Int
          /\ name < table[mid + 1] => Place(table, name, lo, hi) = Place(table, name, lo, mid - 1)
          /\ name > table[mid + 1] => Place(table, name, lo, hi) = Place(table, name, mid + 1, hi)
          /\ name = table[mid + 1] => Place(table, name, lo, hi) = mid
      BY <3>1, PlaceTurns
    <3> HIDE DEF mid
    <3>3. /\ within[<<lo, mid - 1>>] = Place(table, name, lo, mid - 1)
          /\ within[<<mid + 1, hi>>] = Place(table, name, mid + 1, hi)
      BY <1>0, <3>2
    <3>4. Turn(table, name, within, <<lo, hi>>) =
              IF name < table[mid + 1] THEN within[<<lo, mid - 1>>]
              ELSE IF name > table[mid + 1] THEN within[<<mid + 1, hi>>] ELSE mid
      BY <2>2 DEF Turn, mid
    <3>5. name < table[mid + 1] \/ name > table[mid + 1] \/ name = table[mid + 1]
      BY <3>2
    <3> QED
      BY <3>2, <3>3, <3>4, <3>5
  <2> QED
    BY <2>1, <2>2
<1>2. within = [r \in Ranges(table) |-> Turn(table, name, within, r)]
  <2>1. ASSUME NEW r \in Ranges(table)
        PROVE  Place(table, name, r[1], r[2]) = Turn(table, name, within, r)
    <3>1. r = <<r[1], r[2]>> /\ r[1] \in Lows(table) /\ r[2] \in Highs(table)
      BY DEF Ranges
    <3>2. Place(table, name, r[1], r[2]) = Turn(table, name, within, <<r[1], r[2]>>)
      BY <1>1, <3>1
    <3> QED
      BY <3>1, <3>2
  <2> QED
    BY <1>0, <2>1
<1> QED
  BY <1>2 DEF Searches

\* Whatever searches finds the place, in ranges of more and more places.
LEMMA SearchFinds ==
    ASSUME NEW table \in Seq(Int), Ascending(table), NEW name \in Int,
           NEW within, Searches(within, table, name)
    PROVE  \A lo \in Lows(table), hi \in Highs(table) : within[<<lo, hi>>] = Place(table, name, lo, hi)
<1> DEFINE Right(d) == \A lo \in Lows(table), hi \in Highs(table) :
                           hi - lo < d => within[<<lo, hi>>] = Place(table, name, lo, hi)
           P == {d \in Nat : Right(d)}
<1>0. Len(table) \in Nat
  OBVIOUS
<1>1. \A lo \in Lows(table), hi \in Highs(table) : within[<<lo, hi>>] = Turn(table, name, within, <<lo, hi>>)
  BY DEF Searches, Ranges
<1>2. ASSUME NEW lo \in Lows(table), NEW hi \in Highs(table), lo > hi
      PROVE  within[<<lo, hi>>] = Place(table, name, lo, hi)
  <2>1. lo .. hi = {}
    BY <1>2 DEF Lows, Highs
  <2>2. Place(table, name, lo, hi) = -1
    BY <2>1, NoPlace
  <2>3. Turn(table, name, within, <<lo, hi>>) = -1
    BY <1>2 DEF Turn
  <2> QED
    BY <1>1, <2>2, <2>3
<1>3. 0 \in P
  <2>1. \A lo \in Lows(table), hi \in Highs(table) : hi - lo < 0 => lo > hi
    BY DEF Lows, Highs
  <2> QED
    BY <1>2, <2>1
<1>4. ASSUME NEW d \in 1 .. Len(table), d - 1 \in P PROVE d \in P
  <2> SUFFICES ASSUME NEW lo \in Lows(table), NEW hi \in Highs(table), hi - lo < d, ~ lo > hi
               PROVE  within[<<lo, hi>>] = Place(table, name, lo, hi)
    <3>1. d \in Nat
      OBVIOUS
    <3> QED
      BY <1>2, <3>1
  <2>1. lo <= hi
    BY DEF Lows, Highs
  <2> DEFINE mid == Middle(lo, hi)
  <2>2. /\ mid \in lo .. hi /\ mid + 1 \in Lows(table) /\ mid - 1 \in Highs(table)
        /\ table[mid + 1] \in Int
        /\ name < table[mid + 1] => Place(table, name, lo, hi) = Place(table, name, lo, mid - 1)
        /\ name > table[mid + 1] => Place(table, name, lo, hi) = Place(table, name, mid + 1, hi)
        /\ name = table[mid + 1] => Place(table, name, lo, hi) = mid
    BY <2>1, PlaceTurns
  <2>4. Turn(table, name, within, <<lo, hi>>) =
              IF name < table[mid + 1] THEN within[<<lo, mid - 1>>]
              ELSE IF name > table[mid + 1] THEN within[<<mid + 1, hi>>] ELSE mid
    BY DEF Turn, mid
  <2> HIDE DEF mid
  <2>3. /\ within[<<lo, mid - 1>>] = Place(table, name, lo, mid - 1)
        /\ within[<<mid + 1, hi>>] = Place(table, name, mid + 1, hi)
    <3>1. (mid - 1) - lo < d - 1 /\ hi - (mid + 1) < d - 1
      BY <2>2 DEF Lows, Highs
    <3> QED
      BY <1>4, <2>2, <3>1
  <2>5. name < table[mid + 1] \/ name > table[mid + 1] \/ name = table[mid + 1]
    BY <2>2
  <2>6. within[<<lo, hi>>] = Turn(table, name, within, <<lo, hi>>)
    BY <1>1
  <2> QED
    BY <2>2, <2>3, <2>4, <2>5, <2>6
<1>5. 0 .. Len(table) \subseteq P
  <2> HIDE DEF P
  <2> QED
    BY <1>0, <1>3, <1>4, Inductive
<1>6. ASSUME NEW lo \in Lows(table), NEW hi \in Highs(table)
      PROVE  within[<<lo, hi>>] = Place(table, name, lo, hi)
  <2>1. hi - lo < Len(table)
    BY DEF Lows, Highs
  <2>2. Right(Len(table))
    BY <1>0, <1>5
  <2> QED
    BY <2>1, <2>2
<1> QED
  BY <1>6

LEMMA CommandPlace ==
    ASSUME NEW table \in Seq(Int), Ascending(table), NEW name \in Int
    PROVE  command_by_name(table, name) = Place(table, name, 0, Len(table) - 1)
<1> DEFINE within == CHOOSE w : Searches(w, table, name)
<1>1. Searches(within, table, name)
  BY SearchExists
<1>2. command_by_name(table, name) = within[<<0, Len(table) - 1>>]
  BY DEF command_by_name, Searches, Turn, Middle, Ranges, Lows, Highs
<1> HIDE DEF within
<1>3. 0 \in Lows(table) /\ Len(table) - 1 \in Highs(table)
  BY DEF Lows, Highs
<1> QED
  BY <1>1, <1>2, <1>3, SearchFinds

\* For every table in ascending order, a command that is there is found at its
\* place and a name that is not there is not found (init.cpp:249-268).
THEOREM EveryCommandFound ==
    ASSUME NEW table \in Seq(Int), Ascending(table), NEW name \in Int
    PROVE  /\ \A i \in 1 .. Len(table) : table[i] = name => command_by_name(table, name) = i - 1
           /\ (\A i \in 1 .. Len(table) : table[i] # name) => command_by_name(table, name) = -1
<1>1. command_by_name(table, name) = Place(table, name, 0, Len(table) - 1)
  BY CommandPlace
<1>2. 0 \in Lows(table) /\ Len(table) - 1 \in Highs(table) /\ Len(table) \in Nat
  BY DEF Lows, Highs
<1>3. ASSUME NEW i \in 1 .. Len(table), table[i] = name
      PROVE  command_by_name(table, name) = i - 1
  <2>1. i - 1 \in 0 .. Len(table) - 1 /\ (i - 1) + 1 = i
    BY <1>2
  <2>2. Place(table, name, 0, Len(table) - 1) = i - 1
    BY <1>2, <1>3, <2>1, PlaceIs
  <2> QED
    BY <1>1, <2>2
<1>4. ASSUME \A i \in 1 .. Len(table) : table[i] # name
      PROVE  command_by_name(table, name) = -1
  <2>1. \A i \in 0 .. Len(table) - 1 : table[i + 1] # name
    BY <1>2, <1>4
  <2> QED
    BY <1>1, <2>1, NoPlace
<1> QED
  BY <1>3, <1>4

\* So the tables of all the lengths that are looked at are searched rightly, whatever
\* these are (init.cpp:249-268).
THEOREM CommandsAreFound == OptionsSpec => []CommandsFound
<1>1. ASSUME NEW n \in Nat, NEW name \in 1 .. 2 * n + 1
      PROVE  LET table == [i \in 1 .. n |-> 2 * i]
             IN  command_by_name(table, name) = IF name % 2 = 0 THEN name \div 2 - 1 ELSE -1
  <2> DEFINE table == [i \in 1 .. n |-> 2 * i]
  <2>1. table \in Seq(Int) /\ Len(table) = n /\ \A i \in 1 .. n : table[i] = 2 * i
    OBVIOUS
  <2>0. name \in Int
    OBVIOUS
  <2> HIDE DEF table
  <2>2. Ascending(table)
    BY <2>1 DEF Ascending
  <2>3. CASE name % 2 = 0
    <3>1. name \div 2 \in 1 .. n /\ 2 * (name \div 2) = name
      BY <2>3
    <3>2. table[name \div 2] = name
      BY <2>1, <3>1
    <3>3. command_by_name(table, name) = name \div 2 - 1
      BY <2>0, <2>1, <2>2, <3>1, <3>2, EveryCommandFound
    <3> QED
      BY <2>3, <3>3 DEF table
  <2>4. CASE name % 2 # 0
    <3>1. \A i \in 1 .. n : 2 * i # name
      BY <2>4
    <3>2. command_by_name(table, name) = -1
      BY <2>0, <2>1, <2>2, <3>1, EveryCommandFound
    <3> QED
      BY <2>4, <3>2 DEF table
  <2> QED
    BY <2>3, <2>4
<1>2. CommandsFound
  BY <1>1, OptionsAssumption DEF CommandsFound
<1> QED
  BY <1>2, PTL

-----------------------------------------------------------------------------
(* Options: Reading a number                                               *)

\* What numbers are made of, with their units and blanks.
Inner == {"-", "+", "0", "1", "2", "5", "."}
Marks == Inner \cup {Gap, "k", "m"}

NumStates == [num : Int, div : Int, seen : SUBSET {"dot", "digit", "other"}]

LEMMA DigitIs ==
    /\ \A c : DigitOf(c) \in {-1, 0, 1, 2, 5}
    /\ DigitOf("0") = 0 /\ DigitOf("1") = 1 /\ DigitOf("2") = 2 /\ DigitOf("5") = 5
    /\ DigitOf(".") = -1 /\ DigitOf("k") = -1
  BY DEF DigitOf

LEMMA NumTyped ==
    ASSUME NEW n \in NumStates, NEW c
    PROVE  NumberGoesOn(n, c) \in NumStates
<1> DEFINE d == DigitOf(c)
<1>1. n.num \in Int /\ n.div \in Int /\ n.seen \in SUBSET {"dot", "digit", "other"} /\ d \in Int
  BY DigitIs DEF NumStates
<1>2. ASSUME d >= 0 PROVE NumberGoesOn(n, c) \in NumStates
  <2> DEFINE e == IF "dot" \in n.seen THEN 10 * n.div ELSE n.div
             v == 10 * n.num + d
             kinds == n.seen \cup {"digit"}
  <2>1. e \in Int /\ v \in Int /\ kinds \in SUBSET {"dot", "digit", "other"}
    BY <1>1
  <2>2. NumberGoesOn(n, c) = [num |-> v, div |-> e, seen |-> kinds]
    BY <1>2 DEF NumberGoesOn
  <2> HIDE DEF e, v, kinds
  <2> QED
    BY <2>1, <2>2 DEF NumStates
<1>3. ASSUME ~ d >= 0 PROVE NumberGoesOn(n, c) \in NumStates
  <2> DEFINE kinds == n.seen \cup {IF c = "." /\ "dot" \notin n.seen THEN "dot" ELSE "other"}
  <2>1. kinds \in SUBSET {"dot", "digit", "other"}
    BY <1>1
  <2>2. NumberGoesOn(n, c) = [num |-> n.num, div |-> n.div, seen |-> kinds]
    BY <1>3 DEF NumberGoesOn
  <2> HIDE DEF kinds
  <2> QED
    BY <1>1, <2>1, <2>2 DEF NumStates
<1> QED
  BY <1>2, <1>3

NumRuns(f, t) ==
    /\ f \in [0 .. Len(t) -> NumStates] /\ f[0] = NumberStart
    /\ \A i \in 1 .. Len(t) : f[i] = NumberGoesOn(f[i - 1], t[i])

LEMMA NumberRuns ==
    ASSUME NEW t \in Seq(Marks)
    PROVE  \E f : NumRuns(f, t) /\ NumberOf(t) = f[Len(t)]
<1> DEFINE N == Len(t)
           S == NumStates
           Body(f) == [i \in 0 .. N |-> IF i = 0 THEN NumberStart ELSE NumberGoesOn(f[i - 1], t[i])]
           f0 == CHOOSE f : f = Body(f)
           step == [i \in 1 .. N |-> [x \in S |-> NumberGoesOn(x, t[i])]]
<1>1. N \in Nat
  BY LenProperties
<1>0. NumberStart \in S
  BY DEF NumberStart, NumStates
<1>2. NumberOf(t) = f0[N]
  BY DEF NumberOf
<1>5. ASSUME NEW i \in 1 .. N, NEW x \in S PROVE NumberGoesOn(x, t[i]) \in S
  BY NumTyped
<1>6. step \in [1 .. N -> [S -> S]]
  <2> HIDE DEF S, N
  <2> QED
    BY <1>5
<1>7. \E f : Recurs(f, S, NumberStart, N, step)
  <2> HIDE DEF S, N, step
  <2> QED
    BY <1>0, <1>1, <1>6, Recursion, Zenon
<1>8. PICK g : /\ g \in [0 .. N -> S] /\ g[0] = NumberStart
               /\ \A i \in 1 .. N : g[i] = NumberGoesOn(g[i - 1], t[i])
  <2> PICK g : Recurs(g, S, NumberStart, N, step)
    BY <1>7
  <2> HIDE DEF S, N
  <2>1. g \in [0 .. N -> S] /\ g[0] = NumberStart /\ \A i \in 1 .. N : g[i] = step[i][g[i - 1]]
    BY DEF Recurs
  <2>2. ASSUME NEW i \in 1 .. N PROVE g[i] = NumberGoesOn(g[i - 1], t[i])
    <3>1. i - 1 \in 0 .. N
      BY <1>1
    <3>2. g[i - 1] \in S
      BY <3>1, <2>1
    <3> QED
      BY <2>1, <3>2
  <2> QED
    BY <2>1, <2>2
<1>9. NumRuns(f0, t)
  <2> HIDE DEF S, N
  <2>1. g = Body(g)
    <3>1. \A i \in 0 .. N : i # 0 => i \in 1 .. N
      BY <1>1
    <3> QED
      BY <1>8, <3>1
  <2>2. f0 = Body(f0)
    <3> HIDE DEF Body
    <3> QED
      BY <2>1
  <2> HIDE DEF f0
  <2>3. DOMAIN f0 = 0 .. N
    BY <2>2
  <2>4. f0[0] = NumberStart
    <3>1. 0 \in 0 .. N
      BY <1>1
    <3> QED
      BY <2>2, <3>1
  <2>5. ASSUME NEW i \in 1 .. N PROVE f0[i] = NumberGoesOn(f0[i - 1], t[i])
    <3>1. i \in 0 .. N /\ i # 0
      BY <1>1
    <3> QED
      BY <2>2, <3>1
  <2>6. \A i \in 0 .. N : f0[i] \in S
    <3> DEFINE P == {i \in 0 .. N : f0[i] \in S}
    <3>1. 0 \in P
      BY <2>4, <1>1, <1>0
    <3>2. \A i \in 1 .. N : i - 1 \in P => i \in P
      BY <2>5, <1>5, <1>1
    <3>3. 0 .. N \subseteq P
      <4> HIDE DEF P
      <4> QED
        BY <1>1, <3>1, <3>2, Inductive
    <3> QED
      BY <3>3
  <2>7. f0 \in [0 .. N -> S]
    BY <2>2, <2>3, <2>6
  <2> QED
    BY <2>4, <2>5, <2>7 DEF NumRuns, N, S
<1> QED
  BY <1>2, <1>9

\* There is one run over a text and, for a text that goes on, as far as the text goes.
LEMMA NumRunsAgree ==
    ASSUME NEW t \in Seq(Marks), NEW u \in Seq(Marks), Len(t) <= Len(u),
           \A i \in 1 .. Len(t) : t[i] = u[i], NEW f, NEW g, NumRuns(f, t), NumRuns(g, u)
    PROVE  f[Len(t)] = g[Len(t)]
<1> DEFINE n == Len(t)
           m == Len(u)
           P == {i \in 0 .. n : f[i] = g[i]}
<1>1. n \in Nat /\ m \in Nat /\ n <= m
  BY LenProperties
<1>2. /\ f[0] = NumberStart /\ g[0] = NumberStart
      /\ \A i \in 1 .. n : f[i] = NumberGoesOn(f[i - 1], t[i])
      /\ \A i \in 1 .. m : g[i] = NumberGoesOn(g[i - 1], u[i])
  BY DEF NumRuns
<1>3. \A i \in 1 .. n : t[i] = u[i]
  OBVIOUS
<1> HIDE DEF n, m
<1>4. 0 \in P
  BY <1>1, <1>2
<1>5. ASSUME NEW i \in 1 .. n, i - 1 \in P PROVE i \in P
  <2>1. i \in 1 .. m /\ i \in 0 .. n
    BY <1>1
  <2>2. f[i - 1] = g[i - 1] /\ t[i] = u[i]
    BY <1>3, <1>5
  <2>3. f[i] = NumberGoesOn(f[i - 1], t[i]) /\ g[i] = NumberGoesOn(g[i - 1], u[i])
    BY <1>2, <2>1
  <2> QED
    BY <2>1, <2>2, <2>3
<1>6. 0 .. n \subseteq P
  <2> HIDE DEF P
  <2> QED
    BY <1>1, <1>4, <1>5, Inductive
<1> QED
  BY <1>1, <1>6 DEF n

\* A number is read character by character.
LEMMA NumberGrows ==
    /\ NumberOf(<<>>) = NumberStart
    /\ \A t \in Seq(Marks) : NumberOf(t) \in NumStates
    /\ \A t \in Seq(Marks) : \A c \in Marks : NumberOf(Longer(t, c)) = NumberGoesOn(NumberOf(t), c)
<1>1. NumberOf(<<>>) = NumberStart
  <2>1. <<>> \in Seq(Marks) /\ Len(<<>>) = 0
    BY EmptySeq
  <2> PICK f : NumRuns(f, <<>>) /\ NumberOf(<<>>) = f[Len(<<>>)]
    BY <2>1, NumberRuns
  <2> QED
    BY <2>1 DEF NumRuns
<1>2. ASSUME NEW t \in Seq(Marks) PROVE NumberOf(t) \in NumStates
  <2> PICK f : NumRuns(f, t) /\ NumberOf(t) = f[Len(t)]
    BY NumberRuns
  <2>1. Len(t) \in 0 .. Len(t)
    BY LenProperties
  <2> QED
    BY <2>1 DEF NumRuns
<1>3. ASSUME NEW t \in Seq(Marks), NEW c \in Marks PROVE NumberOf(Longer(t, c)) = NumberGoesOn(NumberOf(t), c)
  <2> DEFINE u == Longer(t, c)
             n == Len(t)
  <2>1. u \in Seq(Marks) /\ Len(u) = n + 1 /\ (\A i \in 1 .. n : u[i] = t[i]) /\ u[n + 1] = c
    BY LongerIs
  <2>0. n \in Nat
    BY LenProperties
  <2> HIDE DEF u
  <2> PICK f : NumRuns(f, t) /\ NumberOf(t) = f[n]
    BY NumberRuns
  <2> PICK g : NumRuns(g, u) /\ NumberOf(u) = g[Len(u)]
    BY <2>1, NumberRuns
  <2>2. f[n] = g[n]
    <3>1. Len(t) <= Len(u) /\ \A i \in 1 .. Len(t) : t[i] = u[i]
      BY <2>0, <2>1
    <3> QED
      BY <2>1, <3>1, NumRunsAgree
  <2>3. n + 1 \in 1 .. Len(u) /\ (n + 1) - 1 = n
    BY <2>0, <2>1
  <2>4. g[n + 1] = NumberGoesOn(g[(n + 1) - 1], u[n + 1])
    BY <2>3 DEF NumRuns
  <2> QED
    BY <2>1, <2>2, <2>3, <2>4 DEF u
<1> QED
  BY <1>1, <1>2, <1>3

-----------------------------------------------------------------------------
(* Options: Digits and the point                                           *)

Wholes == {<<>>, <<"2">>, <<"1", "0">>}
Fracs == {<<>>, <<".">>, <<".", "5">>, <<".", "5", ".">>}
WholeOf(w) == IF w = <<>> THEN 0 ELSE IF w = <<"2">> THEN 2 ELSE 10

\* The short texts, and how each goes on from a shorter one.
LEMMA ShortTexts ==
    /\ <<>> \in Seq(Marks) /\ <<"2">> \in Seq(Marks) /\ <<"1">> \in Seq(Marks) /\ <<"1", "0">> \in Seq(Marks)
    /\ <<".">> \in Seq(Marks) /\ <<".", "5">> \in Seq(Marks) /\ <<".", "5", ".">> \in Seq(Marks)
    /\ <<"2">> = Longer(<<>>, "2") /\ <<"1">> = Longer(<<>>, "1") /\ <<"1", "0">> = Longer(<<"1">>, "0")
    /\ <<".">> = Longer(<<>>, ".") /\ <<".", "5">> = Longer(<<".">>, "5")
    /\ <<".", "5", ".">> = Longer(<<".", "5">>, ".")
  BY DEF Marks, Inner, Longer

\* A number that has been read as num / div, of these kinds of characters.
Read(t, num, div, kinds) ==
    NumberOf(t).num = num /\ NumberOf(t).div = div /\ NumberOf(t).seen = kinds

LEMMA NextDigit ==
    ASSUME NEW t \in Seq(Marks), NEW num, NEW div, NEW kinds, Read(t, num, div, kinds),
           NEW c \in {"0", "1", "2", "5"}
    PROVE  Read(Longer(t, c), 10 * num + DigitOf(c), IF "dot" \in kinds THEN 10 * div ELSE div, kinds \cup {"digit"})
<1>1. DigitOf(c) >= 0
  BY DigitIs
<1>2. c \in Marks
  BY DEF Marks, Inner
<1>3. NumberOf(Longer(t, c)) = NumberGoesOn(NumberOf(t), c)
  BY <1>2, NumberGrows
<1> QED
  BY <1>1, <1>3 DEF NumberGoesOn, Read

LEMMA NextPoint ==
    ASSUME NEW t \in Seq(Marks), NEW num, NEW div, NEW kinds, Read(t, num, div, kinds)
    PROVE  Read(Longer(t, "."), num, div, kinds \cup {IF "dot" \in kinds THEN "other" ELSE "dot"})
<1>1. ~ DigitOf(".") >= 0
  BY DigitIs
<1>2. "." \in Marks
  BY DEF Marks, Inner
<1>3. NumberOf(Longer(t, ".")) = NumberGoesOn(NumberOf(t), ".")
  BY <1>2, NumberGrows
<1> QED
  BY <1>1, <1>3 DEF NumberGoesOn, Read

\* The kinds of characters of a number.
WholeSeen(w) == IF w = <<>> THEN {} ELSE {"digit"}

LEMMA WholeRead ==
    ASSUME NEW w \in Wholes
    PROVE  Read(w, WholeOf(w), 1, WholeSeen(w))
<1>1. Read(<<>>, 0, 1, {})
  BY NumberGrows DEF NumberStart, Read
<1>2. Read(<<"2">>, 2, 1, {"digit"})
  <2>1. Read(Longer(<<>>, "2"), 10 * 0 + DigitOf("2"), IF "dot" \in {} THEN 10 * 1 ELSE 1, {} \cup {"digit"})
    BY <1>1, ShortTexts, NextDigit
  <2> QED
    BY <2>1, ShortTexts, DigitIs
<1>3. Read(<<"1">>, 1, 1, {"digit"})
  <2>1. Read(Longer(<<>>, "1"), 10 * 0 + DigitOf("1"), IF "dot" \in {} THEN 10 * 1 ELSE 1, {} \cup {"digit"})
    BY <1>1, ShortTexts, NextDigit
  <2> QED
    BY <2>1, ShortTexts, DigitIs
<1>4. Read(<<"1", "0">>, 10, 1, {"digit"})
  <2>1. Read(Longer(<<"1">>, "0"), 10 * 1 + DigitOf("0"), IF "dot" \in {"digit"} THEN 10 * 1 ELSE 1,
             {"digit"} \cup {"digit"})
    BY <1>3, ShortTexts, NextDigit
  <2>2. 10 * 1 + DigitOf("0") = 10 /\ (IF "dot" \in {"digit"} THEN 10 * 1 ELSE 1) = 1
        /\ {"digit"} \cup {"digit"} = {"digit"}
    BY DigitIs
  <2>3. Longer(<<"1">>, "0") = <<"1", "0">>
    BY ShortTexts
  <2> QED
    BY <2>1, <2>2, <2>3, Zenon
<1>5. <<"2">> # <<>> /\ <<"1", "0">> # <<>> /\ <<"1", "0">> # <<"2">>
  OBVIOUS
<1> QED
  BY <1>1, <1>2, <1>4, <1>5 DEF Wholes, WholeOf, WholeSeen

\* How a text goes on by the part behind the point.
LEMMA FracJoined ==
    ASSUME NEW w \in Seq(Marks)
    PROVE  /\ Joined(w, <<>>) = w /\ Joined(w, <<".">>) = Longer(w, ".")
           /\ Joined(w, <<".", "5">>) = Longer(Longer(w, "."), "5")
           /\ Joined(w, <<".", "5", ".">>) = Longer(Longer(Longer(w, "."), "5"), ".")
<1>m. "." \in Marks /\ "5" \in Marks
  BY DEF Marks, Inner
<1>1. Joined(w, <<>>) = w
  BY JoinedNothing
<1> DEFINE w1 == Longer(w, ".")
           w2 == Longer(w1, "5")
           w3 == Longer(w2, ".")
<1>2. w1 \in Seq(Marks) /\ w2 \in Seq(Marks)
  BY <1>m, LongerIs
<1>a. Joined(w, <<".">>) = w1
  BY <1>m, LongerOne
<1>b. Joined(w, <<".", "5">>) = w2
  <2>1. <<".", "5">> = Joined(<<".">>, <<"5">>)
    <3>1. Longer(<<".">>, "5") = Joined(<<".">>, <<"5">>)
      BY <1>m, ShortTexts, LongerOne
    <3> QED
      BY <3>1, ShortTexts
  <2>2. <<".">> \in Seq(Marks) /\ <<"5">> \in Seq(Marks)
    BY <1>m, ShortTexts
  <2> DEFINE dot == <<".">>
             five == <<"5">>
  <2>3. Joined(w, Joined(dot, five)) = Joined(Joined(w, dot), five)
    <3>1. dot \in Seq(Marks) /\ five \in Seq(Marks)
      BY <2>2
    <3> HIDE DEF dot, five
    <3> QED
      BY <3>1, JoinedTwice
  <2>4. Joined(w1, <<"5">>) = w2
    BY <1>m, <1>2, LongerOne
  <2> QED
    BY <1>a, <2>1, <2>3, <2>4
<1>c. Joined(w, <<".", "5", ".">>) = w3
  <2>1. <<".", "5", ".">> = Joined(<<".", "5">>, <<".">>)
    <3>1. Longer(<<".", "5">>, ".") = Joined(<<".", "5">>, <<".">>)
      BY <1>m, ShortTexts, LongerOne
    <3> QED
      BY <3>1, ShortTexts
  <2> DEFINE some == <<".", "5">>
             dot == <<".">>
  <2>3. Joined(w, Joined(some, dot)) = Joined(Joined(w, some), dot)
    <3>1. some \in Seq(Marks) /\ dot \in Seq(Marks)
      BY ShortTexts
    <3> HIDE DEF some, dot
    <3> QED
      BY <3>1, JoinedTwice
  <2>4. Joined(w2, <<".">>) = w3
    BY <1>m, <1>2, LongerOne
  <2> QED
    BY <1>b, <2>1, <2>3, <2>4
<1> QED
  BY <1>1, <1>a, <1>b, <1>c DEF w1, w2, w3

\* What the part behind the point makes of a number.
LEMMA FracRead ==
    ASSUME NEW w \in Seq(Marks), NEW v \in Int, NEW d \in {{}, {"digit"}}, Read(w, v, 1, d)
    PROVE  /\ Read(Joined(w, <<>>), v, 1, d)
           /\ Read(Joined(w, <<".">>), v, 1, d \cup {"dot"})
           /\ Read(Joined(w, <<".", "5">>), 10 * v + 5, 10, {"dot", "digit"})
           /\ Read(Joined(w, <<".", "5", ".">>), 10 * v + 5, 10, {"dot", "digit", "other"})
<1> DEFINE w1 == Longer(w, ".")
           w2 == Longer(w1, "5")
           w3 == Longer(w2, ".")
<1>1. w1 \in Seq(Marks) /\ w2 \in Seq(Marks)
  <2>1. "." \in Marks /\ "5" \in Marks
    BY DEF Marks, Inner
  <2> QED
    BY <2>1, LongerIs
<1>2. Read(w1, v, 1, d \cup {"dot"})
  <2>1. Read(w1, v, 1, d \cup {IF "dot" \in d THEN "other" ELSE "dot"})
    BY NextPoint
  <2>2. "dot" \notin d
    OBVIOUS
  <2> QED
    BY <2>1, <2>2
<1>3. Read(w2, 10 * v + 5, 10, {"dot", "digit"})
  <2> DEFINE e == d \cup {"dot"}
  <2>1. "dot" \in e /\ e \cup {"digit"} = {"dot", "digit"}
    OBVIOUS
  <2>2. Read(w1, v, 1, e)
    BY <1>2
  <2> HIDE DEF w1, w2, e
  <2>3. Read(Longer(w1, "5"), 10 * v + DigitOf("5"), IF "dot" \in e THEN 10 * 1 ELSE 1, e \cup {"digit"})
    BY <1>1, <2>2, NextDigit
  <2>4. 10 * v + DigitOf("5") = 10 * v + 5 /\ (IF "dot" \in e THEN 10 * 1 ELSE 1) = 10
    BY <2>1, DigitIs
  <2> QED
    BY <2>1, <2>3, <2>4, Zenon DEF w2
<1>4. Read(w3, 10 * v + 5, 10, {"dot", "digit", "other"})
  <2> DEFINE e == {"dot", "digit"}
             u == 10 * v + 5
  <2>1. "dot" \in e /\ e \cup {"other"} = {"dot", "digit", "other"}
    OBVIOUS
  <2>2. Read(w2, u, 10, e)
    BY <1>3
  <2> HIDE DEF w2, e, u
  <2>3. Read(Longer(w2, "."), u, 10, e \cup {IF "dot" \in e THEN "other" ELSE "dot"})
    BY <1>1, <2>2, NextPoint
  <2> QED
    BY <2>1, <2>3 DEF u
<1> QED
  BY <1>2, <1>3, <1>4, FracJoined

-----------------------------------------------------------------------------
(* Options: Blanks around a text                                           *)

Blanks == Seq({Gap})

LEMMA JoinedThree ==
    ASSUME NEW S, NEW p \in Seq(S), NEW b \in Seq(S), NEW q \in Seq(S)
    PROVE  LET s == Joined(Joined(p, b), q) IN
           /\ s \in Seq(S) /\ Len(s) = Len(p) + Len(b) + Len(q)
           /\ \A i \in 1 .. Len(p) : s[i] = p[i]
           /\ \A i \in 1 .. Len(b) : s[Len(p) + i] = b[i]
           /\ \A i \in 1 .. Len(q) : s[Len(p) + Len(b) + i] = q[i]
<1> DEFINE j == Joined(p, b)
           s == Joined(j, q)
           n == Len(p)
           m == Len(b)
<1>a. j \in Seq(S) /\ Len(j) = Len(p) + Len(b)
  BY JoinedIs
<1>b. \A i \in 1 .. Len(p) : j[i] = p[i]
  BY JoinedIs
<1>c. \A i \in 1 .. Len(b) : j[Len(p) + i] = b[i]
  BY JoinedIs
<1>2. n \in Nat /\ m \in Nat
  BY LenProperties
<1> HIDE DEF j
<1>d. j \in Seq(S)
  BY <1>a
<1>e. s \in Seq(S) /\ Len(s) = Len(j) + Len(q)
  BY <1>d, JoinedIs
<1>f. \A i \in 1 .. Len(j) : s[i] = j[i]
  BY <1>d, JoinedIs
<1>g. \A i \in 1 .. Len(q) : s[Len(j) + i] = q[i]
  BY <1>d, JoinedIs
<1> HIDE DEF n, m, s
<1>4. Len(j) = n + m /\ (\A i \in 1 .. n : j[i] = p[i]) /\ \A i \in 1 .. m : j[n + i] = b[i]
  BY <1>a, <1>b, <1>c DEF n, m
<1>5. \A i \in 1 .. n : i \in 1 .. n + m
  BY <1>2
<1>6. \A i \in 1 .. m : n + i \in 1 .. n + m
  BY <1>2
<1>7. /\ \A i \in 1 .. n : s[i] = p[i]
      /\ \A i \in 1 .. m : s[n + i] = b[i]
      /\ \A i \in 1 .. Len(q) : s[n + m + i] = q[i]
  BY <1>e, <1>f, <1>g, <1>4, <1>5, <1>6
<1> QED
  BY <1>e, <1>4, <1>7 DEF s, j, n, m

LEMMA StrippedBlanks ==
    ASSUME NEW q \in Blanks
    PROVE  Stripped(q) = <<>>
<1>1. \A i \in DOMAIN q : q[i] = Gap
  BY ElementOfSeq, LenProperties DEF Blanks
<1> QED
  BY <1>1 DEF Stripped

\* Only the blanks on both sides are taken away.
LEMMA StrippedIs ==
    ASSUME NEW p \in Blanks, NEW q \in Blanks, NEW b \in Seq(Marks), b # <<>>,
           b[1] # Gap, b[Len(b)] # Gap
    PROVE  Stripped(Joined(Joined(p, b), q)) = b
<1> DEFINE s == Joined(Joined(p, b), q)
           n == Len(p)
           m == Len(b)
           kept == {i \in DOMAIN s : s[i] # Gap}
<1>1. p \in Seq(Marks) /\ q \in Seq(Marks)
  <2>1. {Gap} \subseteq Marks
    BY DEF Marks
  <2> QED
    BY <2>1, SeqMonotonic DEF Blanks
<1>2. n \in Nat /\ m \in Nat /\ m > 0 /\ Len(q) \in Nat
  BY <1>1, LenProperties, EmptySeq
<1>3. /\ s \in Seq(Marks) /\ Len(s) = n + m + Len(q)
      /\ \A i \in 1 .. n : s[i] = p[i]
      /\ \A i \in 1 .. m : s[n + i] = b[i]
      /\ \A i \in 1 .. Len(q) : s[n + m + i] = q[i]
  <2>1. s \in Seq(Marks) /\ Len(s) = n + m + Len(q)
    BY <1>1, JoinedThree
  <2>2. \A i \in 1 .. n : s[i] = p[i]
    BY <1>1, JoinedThree
  <2>3. \A i \in 1 .. m : s[n + i] = b[i]
    BY <1>1, JoinedThree
  <2>4. \A i \in 1 .. Len(q) : s[n + m + i] = q[i]
    BY <1>1, JoinedThree
  <2> HIDE DEF s, n, m
  <2> QED
    BY <2>1, <2>2, <2>3, <2>4
<1>4. (\A i \in 1 .. n : p[i] = Gap) /\ \A i \in 1 .. Len(q) : q[i] = Gap
  BY ElementOfSeq DEF Blanks
<1>5. DOMAIN s = 1 .. n + m + Len(q)
  BY <1>3, LenProperties
<1>b. b[1] # Gap /\ b[m] # Gap
  OBVIOUS
<1>u. Stripped(s) = IF kept = {} THEN <<>>
                    ELSE SubSeq(s, CHOOSE i \in kept : \A j \in kept : i <= j,
                                   CHOOSE i \in kept : \A j \in kept : j <= i)
  BY DEF Stripped
<1> HIDE DEF s, n, m
<1>6. n + 1 \in kept /\ n + m \in kept
  <2>1. 1 \in 1 .. m /\ m \in 1 .. m
    BY <1>2
  <2>2. s[n + 1] = b[1] /\ s[n + m] = b[m]
    BY <1>3, <2>1
  <2> QED
    BY <1>2, <1>5, <1>b, <2>2
<1>7. \A i \in kept : i \in n + 1 .. n + m
  <2> SUFFICES ASSUME NEW i \in kept, ~ i \in n + 1 .. n + m PROVE FALSE
    OBVIOUS
  <2>1. i \in 1 .. n + m + Len(q) /\ s[i] # Gap
    BY <1>5
  <2>2. CASE i <= n
    <3>1. i \in 1 .. n
      BY <1>2, <2>1, <2>2
    <3> QED
      BY <1>3, <1>4, <2>1, <3>1
  <2>3. CASE i > n + m
    <3> DEFINE k == i - (n + m)
    <3>1. k \in 1 .. Len(q) /\ n + m + k = i
      BY <1>2, <2>1, <2>3
    <3> HIDE DEF k
    <3> QED
      BY <1>3, <1>4, <2>1, <3>1
  <2> QED
    BY <1>2, <2>1, <2>2, <2>3
<1>8. (CHOOSE i \in kept : \A j \in kept : i <= j) = n + 1
  <2>1. \A j \in kept : n + 1 <= j
    BY <1>2, <1>7
  <2>2. \A i \in kept : (\A j \in kept : i <= j) => i = n + 1
    BY <1>2, <1>6, <1>7
  <2> HIDE DEF kept
  <2> QED
    BY <1>6, <2>1, <2>2
<1>9. (CHOOSE i \in kept : \A j \in kept : j <= i) = n + m
  <2>1. \A j \in kept : j <= n + m
    BY <1>2, <1>7
  <2>2. \A i \in kept : (\A j \in kept : j <= i) => i = n + m
    BY <1>2, <1>6, <1>7
  <2> HIDE DEF kept
  <2> QED
    BY <1>6, <2>1, <2>2
<1>10. Stripped(s) = SubSeq(s, n + 1, n + m)
  BY <1>6, <1>8, <1>9, <1>u
<1>11. SubSeq(s, n + 1, n + m) = b
  <2> DEFINE r == SubSeq(s, n + 1, n + m)
  <2>0. \A i \in n + 1 .. n + m : s[i] \in Marks
    BY <1>2, <1>3, ElementOfSeq
  <2>1. r \in Seq(Marks) /\ Len(r) = m /\ \A i \in 1 .. m : r[i] = s[n + i]
    <3>1. n + 1 \in Int /\ n + m \in Int /\ (n + m) - (n + 1) + 1 = m /\ ~ n + m < n + 1
      BY <1>2
    <3>2. /\ r \in Seq(Marks)
          /\ Len(r) = IF n + 1 <= n + m THEN (n + m) - (n + 1) + 1 ELSE 0
          /\ \A i \in 1 .. (n + m) - (n + 1) + 1 : r[i] = s[(n + 1) + i - 1]
      BY <2>0, <3>1, SubSeqProperties
    <3>3. \A i \in 1 .. m : (n + 1) + i - 1 = n + i
      BY <1>2
    <3> QED
      BY <1>2, <3>1, <3>2, <3>3
  <2> HIDE DEF r
  <2>2. r = b
    BY <1>3, <2>1, SameSeq DEF m
  <2> QED
    BY <2>2 DEF r
<1> QED
  BY <1>10, <1>11 DEF s

-----------------------------------------------------------------------------
(* Options: The value of a number                                          *)

Leads == {<<>>, <<Gap>>}
Signs == {<<>>, <<"-">>, <<"+">>}
Units == {<<>>, <<"k">>, <<"m">>}

\* A number without blanks and unit.
Core(sign, whole, frac) == Joined(Joined(sign, whole), frac)

\* It has a digit and not two points.
Proper(whole, frac) == Len(frac) < 3 /\ (whole # <<>> \/ Len(frac) = 2)

LEMMA MarksDiffer ==
    /\ Inner \subseteq Marks /\ {Gap} \subseteq Marks
    /\ Gap \notin Inner /\ Gap # "k" /\ Gap # "m"
    /\ \A c \in Inner : c # "k" /\ c # "m" /\ ByteUnit(c) = 0 /\ TimeUnit(c) = 0
  BY DEF Marks, Inner, Gap, ByteUnit, TimeUnit

LEMMA PartsIs ==
    /\ \A s \in Leads : s \in Blanks /\ s \in Seq(Marks)
    /\ \A s \in Signs \cup Wholes \cup Fracs : s \in Seq(Inner) /\ s \in Seq(Marks)
    /\ \A s \in Wholes \cup Fracs : s # <<>> => s[1] \notin {"-", "+"}
    /\ \A s \in Units : s \in Seq(Marks) /\ s \in Seq({"k", "m"}) /\ Len(s) \in {0, 1} /\ (s # <<>> => Len(s) = 1)
<1>1. \A s \in Leads : s \in Seq({Gap})
  <2>1. <<>> \in Seq({Gap}) /\ <<Gap>> \in Seq({Gap})
    OBVIOUS
  <2> QED
    BY <2>1 DEF Leads
<1>2. \A s \in Signs : s \in Seq(Inner)
  <2>1. "-" \in Inner /\ "+" \in Inner
    BY DEF Inner
  <2>2. <<>> \in Seq(Inner) /\ <<"-">> \in Seq(Inner) /\ <<"+">> \in Seq(Inner)
    BY <2>1
  <2> QED
    BY <2>2 DEF Signs
<1>3. \A s \in Wholes : s \in Seq(Inner)
  <2>1. "0" \in Inner /\ "1" \in Inner /\ "2" \in Inner
    BY DEF Inner
  <2>2. <<>> \in Seq(Inner) /\ <<"2">> \in Seq(Inner) /\ <<"1", "0">> \in Seq(Inner)
    BY <2>1
  <2> QED
    BY <2>2 DEF Wholes
<1>4. \A s \in Fracs : s \in Seq(Inner)
  <2>1. "." \in Inner /\ "5" \in Inner
    BY DEF Inner
  <2>2. <<>> \in Seq(Inner) /\ <<".">> \in Seq(Inner) /\ <<".", "5">> \in Seq(Inner)
    BY <2>1
  <2>3. <<".", "5", ".">> \in Seq(Inner)
    BY <2>1
  <2> QED
    BY <2>2, <2>3 DEF Fracs
<1>5. \A s \in Wholes \cup Fracs : s # <<>> => s[1] \notin {"-", "+"}
  BY DEF Wholes, Fracs
<1>6. \A s \in Units : s \in Seq({"k", "m"}) /\ Len(s) \in {0, 1} /\ (s # <<>> => Len(s) = 1)
  <2>1. <<>> \in Seq({"k", "m"}) /\ <<"k">> \in Seq({"k", "m"}) /\ <<"m">> \in Seq({"k", "m"})
    OBVIOUS
  <2>2. Len(<<>>) = 0 /\ Len(<<"k">>) = 1 /\ Len(<<"m">>) = 1
    OBVIOUS
  <2> QED
    BY <2>1, <2>2 DEF Units
<1>7. {Gap} \subseteq Marks /\ Inner \subseteq Marks /\ {"k", "m"} \subseteq Marks
  BY DEF Marks
<1>8. \A s \in Leads : s \in Seq(Marks)
  BY <1>1, <1>7, SeqMonotonic
<1>9. \A s \in Signs \cup Wholes \cup Fracs : s \in Seq(Marks)
  BY <1>2, <1>3, <1>4, <1>7, SeqMonotonic
<1>10. \A s \in Units : s \in Seq(Marks)
  BY <1>6, <1>7, SeqMonotonic
<1> QED
  BY <1>1, <1>2, <1>3, <1>4, <1>5, <1>6, <1>8, <1>9, <1>10 DEF Blanks

LEMMA CoreIs ==
    ASSUME NEW sign \in Signs, NEW whole \in Wholes, NEW frac \in Fracs
    PROVE  LET core == Core(sign, whole, frac) IN
           /\ core \in Seq(Inner) /\ core \in Seq(Marks)
           /\ core # <<>> => core[1] # Gap /\ core[Len(core)] # Gap
           /\ core # <<>> => ByteUnit(Last(core)) = 0 /\ TimeUnit(Last(core)) = 0
<1> DEFINE j == Joined(sign, whole)
           core == Joined(j, frac)
<1>1. sign \in Seq(Inner) /\ whole \in Seq(Inner) /\ frac \in Seq(Inner)
  BY PartsIs
<1>2. j \in Seq(Inner)
  BY <1>1, JoinedIs
<1> HIDE DEF j
<1>3. core \in Seq(Inner)
  BY <1>1, <1>2, JoinedIs
<1> HIDE DEF core
<1>4. core \in Seq(Marks)
  BY <1>3, MarksDiffer, SeqMonotonic
<1>5. core # <<>> => Len(core) \in 1 .. Len(core) /\ 1 \in 1 .. Len(core)
  BY <1>3, EmptySeq
<1>6. core # <<>> => core[1] \in Inner /\ core[Len(core)] \in Inner
  BY <1>3, <1>5, ElementOfSeq
<1>7. core = Core(sign, whole, frac)
  BY DEF Core, core, j
<1> QED
  BY <1>3, <1>4, <1>6, <1>7, MarksDiffer DEF Last

\* The digits are what is behind the sign.
LEMMA SignTaken ==
    ASSUME NEW sign \in Signs, NEW whole \in Wholes, NEW frac \in Fracs
    PROVE  LET core == Core(sign, whole, frac)
               digits == Joined(whole, frac)
           IN  /\ sign = <<>> => core = digits /\ (digits = <<>> \/ digits[1] \notin {"-", "+"})
               /\ sign # <<>> => core # <<>> /\ core[1] = sign[1] /\ Tail(core) = digits
<1> DEFINE core == Core(sign, whole, frac)
           digits == Joined(whole, frac)
<1>1. sign \in Seq(Inner) /\ whole \in Seq(Inner) /\ frac \in Seq(Inner)
  BY PartsIs
<1>2. digits \in Seq(Inner) /\ Len(digits) = Len(whole) + Len(frac)
  BY <1>1, JoinedIs
<1>3. core = Joined(sign, digits)
  BY <1>1, JoinedTwice DEF Core
<1>w. Len(whole) \in Nat /\ Len(frac) \in Nat /\ (whole # <<>> => Len(whole) > 0) /\ (frac # <<>> => Len(frac) > 0)
  BY <1>1, LenProperties, EmptySeq
<1>4. digits = <<>> \/ digits[1] \notin {"-", "+"}
  <2>1. CASE whole # <<>>
    <3>1. 1 \in 1 .. Len(whole)
      BY <1>w, <2>1
    <3>2. digits[1] = whole[1]
      BY <1>1, <3>1, JoinedIs
    <3> QED
      BY <2>1, <3>2, PartsIs
  <2>2. CASE whole = <<>>
    <3>1. digits = frac
      BY <1>1, <2>2, JoinedNothing
    <3> HIDE DEF digits
    <3> QED
      BY <3>1, PartsIs
  <2> QED
    BY <2>1, <2>2
<1>5. ASSUME sign = <<>> PROVE core = digits
  BY <1>2, <1>3, <1>5, JoinedNothing
<1>6. ASSUME sign # <<>> PROVE core # <<>> /\ core[1] = sign[1] /\ Tail(core) = digits
  <2>1. Len(sign) = 1
    BY <1>6 DEF Signs
  <2> DEFINE j == Joined(sign, digits)
  <2> HIDE DEF digits
  <2>a. sign \in Seq(Inner) /\ digits \in Seq(Inner)
    BY <1>1, <1>2
  <2>2. j \in Seq(Inner) /\ Len(j) = Len(sign) + Len(digits)
    BY <1>1, <1>2, JoinedIs
  <2>3. \A i \in 1 .. Len(sign) : j[i] = sign[i]
    BY <2>a, JoinedIs
  <2>4. \A i \in 1 .. Len(digits) : j[Len(sign) + i] = digits[i]
    BY <2>a, JoinedIs
  <2> HIDE DEF j
  <2>5. Len(digits) \in Nat
    BY <1>2, LenProperties
  <2>6. j # <<>> /\ j[1] = sign[1]
    BY <2>1, <2>2, <2>3, <2>5, EmptySeq
  <2>7. /\ Tail(j) \in Seq(Inner) /\ Len(Tail(j)) = Len(j) - 1
        /\ \A i \in 1 .. Len(Tail(j)) : Tail(j)[i] = j[i + 1]
    BY <2>2, <2>6, HeadTailProperties
  <2>8. Tail(j) = digits
    <3> DEFINE t == Tail(j)
    <3>1. t \in Seq(Inner) /\ Len(t) = Len(digits)
      BY <2>1, <2>2, <2>5, <2>7
    <3>2. \A i \in 1 .. Len(digits) : t[i] = digits[i]
      BY <2>1, <2>4, <2>5, <2>7, <3>1
    <3> HIDE DEF t
    <3>3. t = digits
      BY <1>2, <3>1, <3>2, SameSeq
    <3> QED
      BY <3>3 DEF t
  <2>9. core = j
    BY <1>3 DEF j
  <2> HIDE DEF core
  <2> QED
    BY <2>6, <2>8, <2>9
<1> QED
  BY <1>4, <1>5, <1>6

\* The number of a text: a fraction with the sign in front.
Magnitude(whole, frac) == IF Len(frac) < 2 THEN WholeOf(whole) ELSE 10 * WholeOf(whole) + 5
Divisor(frac) == IF Len(frac) < 2 THEN 1 ELSE 10
Signed(sign, v) == IF sign = <<"-">> THEN - v ELSE v

LEMMA DigitsRead ==
    ASSUME NEW whole \in Wholes, NEW frac \in Fracs
    PROVE  LET n == NumberOf(Joined(whole, frac)) IN
           /\ n.num = Magnitude(whole, frac) /\ n.div = Divisor(frac)
           /\ "digit" \in n.seen /\ "other" \notin n.seen <=> Proper(whole, frac)
<1> DEFINE w == whole
           d == WholeSeen(whole)
           v == WholeOf(whole)
<1>1. w \in Seq(Marks) /\ d \in {{}, {"digit"}} /\ v \in Int /\ Read(w, v, 1, d) /\ ("digit" \in d <=> whole # <<>>)
  BY PartsIs, WholeRead DEF WholeOf, WholeSeen
<1>2. "other" \notin d
  BY <1>1
<1> HIDE DEF d, v, w
<1>3. /\ Read(Joined(w, <<>>), v, 1, d)
      /\ Read(Joined(w, <<".">>), v, 1, d \cup {"dot"})
      /\ Read(Joined(w, <<".", "5">>), 10 * v + 5, 10, {"dot", "digit"})
      /\ Read(Joined(w, <<".", "5", ".">>), 10 * v + 5, 10, {"dot", "digit", "other"})
  BY <1>1, FracRead
<1>4. CASE frac = <<>>
  BY <1>1, <1>2, <1>3, <1>4 DEF Read, Magnitude, Divisor, Proper, v, w
<1>5. CASE frac = <<".">>
  BY <1>1, <1>2, <1>3, <1>5 DEF Read, Magnitude, Divisor, Proper, v, w
<1>6. CASE frac = <<".", "5">>
  BY <1>1, <1>2, <1>3, <1>6 DEF Read, Magnitude, Divisor, Proper, v, w
<1>7. CASE frac = <<".", "5", ".">>
  BY <1>1, <1>2, <1>3, <1>7 DEF Read, Magnitude, Divisor, Proper, v, w
<1> QED
  BY <1>4, <1>5, <1>6, <1>7 DEF Fracs

LEMMA AtofIs ==
    ASSUME NEW sign \in Signs, NEW whole \in Wholes, NEW frac \in Fracs,
           NEW x, Stripped(x) = Core(sign, whole, frac)
    PROVE  /\ simple_atof(x).ok <=> Proper(whole, frac)
           /\ simple_atof(x).num = Signed(sign, Magnitude(whole, frac))
           /\ simple_atof(x).div = Divisor(frac)
<1> DEFINE t == Stripped(x)
           signed == t # <<>> /\ t[1] \in {"-", "+"}
           digits == Joined(whole, frac)
           n == NumberOf(IF signed THEN Tail(t) ELSE t)
<1>1. (sign = <<>> => t = digits /\ (digits = <<>> \/ digits[1] \notin {"-", "+"}))
      /\ (sign # <<>> => t # <<>> /\ t[1] = sign[1] /\ Tail(t) = digits)
  BY SignTaken
<1>2. sign # <<>> => sign[1] \in {"-", "+"} /\ (sign[1] = "-" <=> sign = <<"-">>)
  BY DEF Signs
<1> DEFINE good == "digit" \in n.seen /\ "other" \notin n.seen
           num == IF signed /\ t[1] = "-" THEN - n.num ELSE n.num
<1>s. simple_atof(x) = [ok |-> good, num |-> num, div |-> n.div]
  BY DEF simple_atof
<1> HIDE DEF good, num
<1>r. simple_atof(x).ok = good /\ simple_atof(x).num = num /\ simple_atof(x).div = n.div
  BY <1>s
<1> HIDE DEF t, digits
<1>3. (signed <=> sign # <<>>) /\ (IF signed THEN Tail(t) ELSE t) = digits
  BY <1>1, <1>2
<1>4. n = NumberOf(digits)
  BY <1>3
<1>5. signed /\ t[1] = "-" <=> sign = <<"-">>
  BY <1>1, <1>2, <1>3
<1> HIDE DEF n, signed
<1>6. /\ n.num = Magnitude(whole, frac) /\ n.div = Divisor(frac)
      /\ "digit" \in n.seen /\ "other" \notin n.seen <=> Proper(whole, frac)
  BY <1>4, DigitsRead DEF digits
<1>7. good <=> Proper(whole, frac)
  BY <1>6 DEF good
<1>8. num = Signed(sign, Magnitude(whole, frac))
  BY <1>5, <1>6 DEF num, Signed
<1> QED
  BY <1>r, <1>6, <1>7, <1>8

-----------------------------------------------------------------------------
(* Options: A number with its unit                                         *)

CoreOf(a) == Core(a.sign, a.whole, a.frac)

LEMMA AmountIs ==
    ASSUME NEW a \in Amounts
    PROVE  a.lead \in Leads /\ a.sign \in Signs /\ a.whole \in Wholes /\ a.frac \in Fracs /\ a.gap \in Leads /\ a.unit \in Units
  BY DEF Amounts, Leads, Signs, Wholes, Fracs, Units

\* The pieces of a text, with the number as one of them.
LEMMA TextIs ==
    ASSUME NEW a \in Amounts
    PROVE  TextOf(a) = Joined(Joined(Joined(Joined(a.lead, CoreOf(a)), a.gap), a.unit), a.lead)
<1> DEFINE l == a.lead
           s == a.sign
           w == a.whole
           f == a.frac
<1>1. l \in Seq(Marks) /\ s \in Seq(Marks) /\ w \in Seq(Marks) /\ f \in Seq(Marks)
  BY AmountIs, PartsIs
<1>2. TextOf(a) = Joined(Joined(Joined(Joined(Joined(Joined(l, s), w), f), a.gap), a.unit), l)
  BY DEF TextOf, Joined
<1> HIDE DEF l, s, w, f
<1>3. Joined(Joined(l, s), w) = Joined(l, Joined(s, w))
  BY <1>1, JoinedTwice
<1>4. Joined(s, w) \in Seq(Marks)
  BY <1>1, JoinedIs
<1>5. Joined(Joined(l, Joined(s, w)), f) = Joined(l, Core(s, w, f))
  BY <1>1, <1>4, JoinedTwice DEF Core
<1>6. Core(s, w, f) = CoreOf(a)
  BY DEF CoreOf, s, w, f
<1> QED
  BY <1>2, <1>3, <1>5, <1>6 DEF l

\* A text without a digit and without a point is no number.
LEMMA EmptyCore ==
    ASSUME NEW sign \in Signs, NEW whole \in Wholes, NEW frac \in Fracs, Core(sign, whole, frac) = <<>>
    PROVE  ~ Proper(whole, frac)
<1> DEFINE digits == Joined(whole, frac)
<1>1. whole \in Seq(Inner) /\ frac \in Seq(Inner)
  BY PartsIs
<1>2. digits = <<>>
  BY SignTaken
<1>3. Len(digits) = Len(whole) + Len(frac)
  BY <1>1, JoinedIs
<1> HIDE DEF digits
<1>4. Len(whole) \in Nat /\ Len(frac) \in Nat /\ (whole # <<>> => Len(whole) > 0)
  BY <1>1, LenProperties, EmptySeq
<1>5. Len(whole) = 0 /\ Len(frac) = 0
  BY <1>2, <1>3, <1>4, EmptySeq
<1> QED
  BY <1>4, <1>5 DEF Proper

\* A text of one piece, and what is behind it, before its end.
LEMMA EndTaken ==
    ASSUME NEW b \in Seq(Marks), NEW u \in Seq(Marks)
    PROVE  LET t == Joined(b, u) IN
           t \in Seq(Marks) /\ (Len(u) = 1 => t # <<>> /\ Last(t) = u[1] /\ Front(t) = b)
<1> DEFINE t == Joined(b, u)
           n == Len(b)
<1>1. t \in Seq(Marks) /\ Len(t) = Len(b) + Len(u)
  BY JoinedIs
<1>2. \A i \in 1 .. n : t[i] = b[i]
  BY JoinedIs
<1>3. \A i \in 1 .. Len(u) : t[Len(b) + i] = u[i]
  BY JoinedIs
<1>4. n \in Nat
  BY LenProperties
<1> SUFFICES ASSUME Len(u) = 1 PROVE t # <<>> /\ Last(t) = u[1] /\ Front(t) = b
  BY <1>1
<1> HIDE DEF t
<1>5. Len(t) = n + 1 /\ t[n + 1] = u[1] /\ t # <<>>
  <2>1. Len(t) = n + 1
    BY <1>1
  <2>2. t[n + 1] = u[1]
    BY <1>3
  <2> QED
    BY <1>4, <2>1, <2>2, EmptySeq
<1> HIDE DEF n
<1>6. Last(t) = u[1]
  BY <1>5 DEF Last
<1>7. Front(t) = b
  <2> DEFINE r == SubSeq(t, 1, n)
  <2>0. \A i \in 1 .. n : t[i] \in Marks
    BY <1>1, <1>4, <1>5, ElementOfSeq
  <2>1. r \in Seq(Marks) /\ Len(r) = n /\ \A i \in 1 .. n : r[i] = t[i]
    <3>1. /\ r \in Seq(Marks)
          /\ Len(r) = IF 1 <= n THEN n - 1 + 1 ELSE 0
          /\ \A i \in 1 .. n - 1 + 1 : r[i] = t[1 + i - 1]
      BY <1>4, <2>0, SubSeqProperties
    <3> QED
      BY <1>4, <3>1
  <2>2. Front(t) = r
    BY <1>4, <1>5 DEF Front
  <2> HIDE DEF r
  <2>3. r = b
    BY <1>2, <2>1, SameSeq DEF n
  <2> QED
    BY <2>2, <2>3
<1> QED
  BY <1>5, <1>6, <1>7

\* What is left of a text without the blanks around it.
LEMMA StrippedText ==
    ASSUME NEW a \in Amounts
    PROVE  LET t == Stripped(TextOf(a)) IN
           /\ a.unit = <<>> => t = CoreOf(a) /\ Stripped(t) = t
           /\ a.unit # <<>> => /\ t \in Seq(Marks) /\ t # <<>> /\ t[1] # Gap /\ Last(t) = a.unit[1]
                              /\ Stripped(Front(t)) = CoreOf(a)
<1> DEFINE l == a.lead
           c == CoreOf(a)
           g == a.gap
           u == a.unit
           chars == TextOf(a)
<1>1. /\ l \in Blanks /\ l \in Seq(Marks) /\ g \in Blanks /\ g \in Seq(Marks)
      /\ u \in Seq(Marks) /\ u \in Seq({"k", "m"}) /\ (u # <<>> => Len(u) = 1)
  BY AmountIs, PartsIs
<1>2. c \in Seq(Marks) /\ (c # <<>> => c[1] # Gap /\ c[Len(c)] # Gap)
  BY AmountIs, CoreIs DEF CoreOf
<1>3. chars = Joined(Joined(Joined(Joined(l, c), g), u), l)
  BY TextIs
<1>4. <<>> \in Blanks /\ <<>> \in Seq(Marks)
  BY EmptySeq DEF Blanks
<1>5. u # <<>> => u[1] # Gap /\ u[Len(u)] # Gap
  <2> SUFFICES ASSUME u # <<>> PROVE u[1] # Gap /\ u[Len(u)] # Gap
    OBVIOUS
  <2>1. 1 \in 1 .. Len(u) /\ Len(u) \in 1 .. Len(u)
    BY <1>1
  <2>2. u[1] \in {"k", "m"} /\ u[Len(u)] \in {"k", "m"}
    BY <1>1, <2>1, ElementOfSeq
  <2> QED
    BY <2>2, MarksDiffer
<1>6. \A x \in Blanks : \A y \in Blanks : Joined(x, y) \in Blanks
  BY JoinedIs DEF Blanks
<1>7. \A x \in Seq(Marks) : Joined(x, <<>>) = x /\ Joined(<<>>, x) = x
  BY JoinedNothing
<1>8. Joined(l, c) \in Seq(Marks) /\ Joined(c, g) \in Seq(Marks)
  BY <1>1, <1>2, JoinedIs
<1> HIDE DEF l, c, g, u, chars
<1>9. c # <<>> => Stripped(c) = c
  <2>1. Joined(Joined(<<>>, c), <<>>) = c
    BY <1>2, <1>7
  <2> QED
    BY <1>2, <1>4, <2>1, StrippedIs
<1>10. Stripped(<<>>) = <<>>
  BY <1>4, StrippedBlanks
<1>11. ASSUME u = <<>> PROVE Stripped(chars) = c
  <2>1. Joined(Joined(Joined(l, c), g), u) = Joined(Joined(l, c), g)
    <3>1. Joined(Joined(l, c), g) \in Seq(Marks)
      BY <1>1, <1>8, JoinedIs
    <3> QED
      BY <1>7, <1>11, <3>1
  <2>2. Joined(Joined(Joined(l, c), g), l) = Joined(Joined(l, c), Joined(g, l))
    BY <1>1, <1>8, JoinedTwice
  <2>3. chars = Joined(Joined(l, c), Joined(g, l))
    BY <1>3, <2>1, <2>2
  <2>4. Joined(g, l) \in Blanks
    BY <1>1, <1>6
  <2>5. CASE c # <<>>
    BY <1>1, <1>2, <2>3, <2>4, <2>5, StrippedIs
  <2>6. CASE c = <<>>
    <3>1. Joined(l, c) = l
      BY <1>1, <1>7, <2>6
    <3>2. chars \in Blanks
      BY <1>1, <1>6, <2>3, <2>4, <3>1
    <3> QED
      BY <2>6, <3>2, StrippedBlanks
  <2> QED
    BY <2>5, <2>6
<1>12. ASSUME u # <<>>, c # <<>>
       PROVE  LET t == Stripped(chars) IN
              t \in Seq(Marks) /\ t # <<>> /\ t[1] # Gap /\ Last(t) = u[1] /\ Stripped(Front(t)) = c
  <2> DEFINE b == Joined(c, g)
             t == Joined(b, u)
  <2>1. Joined(Joined(Joined(l, c), g), u) = Joined(l, t)
    <3>1. Joined(Joined(l, c), g) = Joined(l, b)
      BY <1>1, <1>2, JoinedTwice
    <3>2. b \in Seq(Marks)
      BY <1>8
    <3> HIDE DEF b
    <3>3. Joined(Joined(l, b), u) = Joined(l, Joined(b, u))
      BY <1>1, <3>2, JoinedTwice
    <3> QED
      BY <3>1, <3>3
  <2>2. b \in Seq(Marks) /\ Len(u) = 1
    BY <1>1, <1>8, <1>12
  <2>b. b[1] = c[1] /\ Len(b) \in Nat /\ Len(b) > 0
    <3>1. \A i \in 1 .. Len(c) : b[i] = c[i]
      BY <1>1, <1>2, JoinedIs
    <3>2. Len(b) = Len(c) + Len(g)
      BY <1>1, <1>2, JoinedIs
    <3> HIDE DEF b
    <3>3. Len(c) \in Nat /\ Len(c) > 0 /\ Len(g) \in Nat
      BY <1>1, <1>2, <1>12, LenProperties, EmptySeq
    <3> QED
      BY <3>1, <3>2, <3>3
  <2> HIDE DEF b
  <2>3. t \in Seq(Marks)
    BY <1>1, <2>2, EndTaken
  <2>4. t # <<>> /\ Last(t) = u[1] /\ Front(t) = b
    BY <1>1, <2>2, EndTaken
  <2>5. t[1] = b[1]
    <3>1. b \in Seq(Marks) /\ u \in Seq(Marks)
      BY <1>1, <2>2
    <3>2. \A i \in 1 .. Len(b) : t[i] = b[i]
      BY <3>1, JoinedIs
    <3> QED
      BY <2>b, <3>2
  <2> HIDE DEF t
  <2>6. t[1] # Gap /\ t[Len(t)] # Gap
    BY <1>1, <1>2, <1>5, <1>12, <2>2, <2>b, <2>4, <2>5 DEF Last
  <2>7. Stripped(chars) = t
    <3>1. chars = Joined(Joined(l, t), l)
      BY <1>3, <2>1
    <3> QED
      BY <1>1, <2>3, <2>4, <2>6, <3>1, StrippedIs
  <2>8. Stripped(b) = c
    <3>1. b = Joined(Joined(<<>>, c), g)
      BY <1>2, <1>7 DEF b
    <3> QED
      BY <1>1, <1>2, <1>4, <1>12, <3>1, StrippedIs
  <2> QED
    BY <2>3, <2>4, <2>6, <2>7, <2>8
<1>13. ASSUME u # <<>>, c = <<>>
       PROVE  LET t == Stripped(chars) IN
              t \in Seq(Marks) /\ t # <<>> /\ t[1] # Gap /\ Last(t) = u[1] /\ Stripped(Front(t)) = c
  <2>1. Joined(l, c) = l
    BY <1>1, <1>7, <1>13
  <2>2. chars = Joined(Joined(Joined(l, g), u), l)
    BY <1>3, <2>1
  <2>3. Joined(l, g) \in Blanks
    BY <1>1, <1>6
  <2>4. Stripped(chars) = u
    BY <1>1, <1>5, <1>13, <2>2, <2>3, StrippedIs
  <2>5. Joined(<<>>, u) = u
    BY <1>1, <1>7
  <2>6. Last(u) = u[1] /\ Front(u) = <<>>
    <3>1. u \in Seq(Marks) /\ Len(u) = 1 /\ <<>> \in Seq(Marks)
      BY <1>1, <1>4, <1>13
    <3>2. Last(Joined(<<>>, u)) = u[1] /\ Front(Joined(<<>>, u)) = <<>>
      BY <3>1, EndTaken
    <3> QED
      BY <2>5, <3>2
  <2> QED
    BY <1>1, <1>5, <1>10, <1>13, <2>4, <2>6
<1> QED
  BY <1>9, <1>10, <1>11, <1>12, <1>13 DEF chars, c, u

\* A text with a k at its end is no number.
LEMMA EndsInK ==
    ASSUME NEW t \in Seq(Marks), t # <<>>, t[1] # Gap, Last(t) = "k"
    PROVE  ~ simple_atof(t).ok
<1> DEFINE f == Front(t)
           signed == t # <<>> /\ t[1] \in {"-", "+"}
           x == IF signed THEN Tail(t) ELSE t
           n == NumberOf(x)
<1>1. Stripped(t) = t
  <2>1. <<>> \in Blanks /\ <<>> \in Seq(Marks)
    BY EmptySeq DEF Blanks
  <2>2. t[Len(t)] # Gap
    BY MarksDiffer DEF Last
  <2>3. Stripped(Joined(Joined(<<>>, t), <<>>)) = t
    BY <2>1, <2>2, StrippedIs
  <2>4. Joined(Joined(<<>>, t), <<>>) = t
    BY JoinedNothing
  <2> QED
    BY <2>3, <2>4
<1>2. \E y \in Seq(Marks) : x = Longer(y, "k")
  <2> DEFINE m == Len(t)
  <2>1. m \in Nat /\ m > 0 /\ t[m] = "k" /\ "k" \in Marks
    BY LenProperties, EmptySeq DEF Last, Marks
  <2>2. \A s \in Seq(Marks) : s # <<>> /\ s[Len(s)] = "k" => \E y \in Seq(Marks) : s = Longer(y, "k")
    <3> SUFFICES ASSUME NEW s \in Seq(Marks), s # <<>>, s[Len(s)] = "k"
                 PROVE  \E y \in Seq(Marks) : s = Longer(y, "k")
      OBVIOUS
    <3> DEFINE k == Len(s)
               e == k - 1
               y == SubSeq(s, 1, e)
    <3>1. k \in Nat /\ k > 0 /\ (\A i \in 1 .. k : s[i] \in Marks) /\ s[k] = "k"
      BY LenProperties, EmptySeq, ElementOfSeq
    <3>e. e \in Nat /\ e = k - 1
      BY <3>1
    <3> HIDE DEF e, k
    <3>2. y \in Seq(Marks) /\ Len(y) = k - 1 /\ \A i \in 1 .. k - 1 : y[i] = s[i]
      <4>1. \A i \in 1 .. e : s[i] \in Marks
        BY <3>1, <3>e
      <4>2. /\ y \in Seq(Marks)
            /\ Len(y) = IF 1 <= e THEN e - 1 + 1 ELSE 0
            /\ \A i \in 1 .. e - 1 + 1 : y[i] = s[1 + i - 1]
        BY <3>e, <4>1, SubSeqProperties
      <4> QED
        BY <3>1, <3>e, <4>2
    <3> HIDE DEF y
    <3>3. /\ Longer(y, "k") \in Seq(Marks) /\ Len(Longer(y, "k")) = Len(y) + 1
          /\ (\A i \in 1 .. Len(y) : Longer(y, "k")[i] = y[i])
          /\ Longer(y, "k")[Len(y) + 1] = "k"
      BY <2>1, <3>2, AppendProperties DEF Longer
    <3> DEFINE z == Longer(y, "k")
    <3>4. /\ z \in Seq(Marks) /\ Len(z) = k /\ z[k] = "k" /\ \A i \in 1 .. k - 1 : z[i] = s[i]
      BY <3>1, <3>2, <3>3
    <3> HIDE DEF z
    <3>5. \A i \in 1 .. k : s[i] = z[i]
      <4> TAKE i \in 1 .. k
      <4>1. CASE i = k
        BY <3>4, <4>1 DEF k
      <4>2. CASE i # k
        BY <3>1, <3>4, <4>2
      <4> QED
        BY <4>1, <4>2
    <3>6. s = z
      BY <3>4, <3>5, SameSeq DEF k
    <3> QED
      BY <3>2, <3>6 DEF z
  <2>3. CASE ~ signed
    BY <2>1, <2>2, <2>3 DEF Last
  <2>4. CASE signed
    <3> DEFINE r == Tail(t)
    <3>1. m > 1
      <4>1. t[1] # t[m]
        BY <2>1, <2>4
      <4> QED
        BY <2>1, <4>1
    <3>2. r \in Seq(Marks) /\ Len(r) = m - 1 /\ \A i \in 1 .. m - 1 : r[i] = t[i + 1]
      BY HeadTailProperties
    <3> HIDE DEF r, m
    <3>3. r # <<>> /\ r[m - 1] = "k"
      <4>1. m - 1 \in 1 .. m - 1 /\ m - 1 + 1 = m
        BY <2>1, <3>1
      <4>2. r[m - 1] = "k"
        BY <2>1, <3>2, <4>1
      <4> QED
        BY <3>1, <3>2, <2>1, <4>2, EmptySeq
    <3>4. x = r
      BY <2>4 DEF r
    <3> QED
      BY <2>2, <3>2, <3>3, <3>4
  <2> QED
    BY <2>3, <2>4
<1>3. PICK y \in Seq(Marks) : x = Longer(y, "k")
  BY <1>2
<1>4. n = NumberGoesOn(NumberOf(y), "k")
  BY <1>3, NumberGrows DEF Marks
<1>5. "other" \in n.seen
  BY <1>4, DigitIs DEF NumberGoesOn
<1> DEFINE good == "digit" \in n.seen /\ "other" \notin n.seen
           num == IF signed /\ t[1] = "-" THEN - n.num ELSE n.num
<1>6. simple_atof(t) = [ok |-> good, num |-> num, div |-> n.div]
  BY <1>1 DEF simple_atof
<1>7. ~ good
  BY <1>5
<1> HIDE DEF good, num
<1> QED
  BY <1>6, <1>7

-----------------------------------------------------------------------------
(* Options: What the commands make of a number                             *)

\* What a unit stands for; 0 if it is none of this kind.
Worth(unit, of) == IF unit = <<>> THEN 1 ELSE IF of = "bytes" THEN ByteUnit(unit[1]) ELSE TimeUnit(unit[1])

LEMMA WorthIs ==
    /\ \A of : Worth(<<>>, of) = 1
    /\ Worth(<<"k">>, "bytes") = 1024 /\ Worth(<<"m">>, "bytes") = 1024 * 1024
    /\ Worth(<<"k">>, "seconds") = 0 /\ Worth(<<"m">>, "seconds") = 60
  BY DEF Worth, ByteUnit, TimeUnit

\* The value of an amount.
ValueOf(a, of, scale) ==
    (Signed(a.sign, Magnitude(a.whole, a.frac)) * scale * Worth(a.unit, of)) \div Divisor(a.frac)

LEMMA WithUnitIs ==
    ASSUME NEW a \in Amounts, NEW of \in {"bytes", "seconds"}, NEW scale \in Nat
    PROVE  WithUnit(TextOf(a), of, scale) =
             IF Proper(a.whole, a.frac) /\ Worth(a.unit, of) # 0 THEN Yes(ValueOf(a, of, scale)) ELSE No
<1> DEFINE t == Stripped(TextOf(a))
           Unit(c) == IF of = "bytes" THEN ByteUnit(c) ELSE TimeUnit(c)
           unit == IF t = <<>> THEN 0 ELSE Unit(Last(t))
           x == IF unit > 0 THEN Front(t) ELSE t
           n == simple_atof(x)
           fine == Proper(a.whole, a.frac)
           c == CoreOf(a)
           factor == IF unit > 0 THEN unit ELSE 1
           num == n.num
           div == n.div
<1>1. WithUnit(TextOf(a), of, scale) = IF t = <<>> \/ ~ n.ok THEN No ELSE Yes((num * scale * factor) \div div)
  BY DEF WithUnit
<1>2. a.sign \in Signs /\ a.whole \in Wholes /\ a.frac \in Fracs /\ a.unit \in Units
  BY AmountIs
<1>3. \A y : Stripped(y) = c =>
          /\ simple_atof(y).ok <=> fine
          /\ simple_atof(y).num = Signed(a.sign, Magnitude(a.whole, a.frac))
          /\ simple_atof(y).div = Divisor(a.frac)
  BY <1>2, AtofIs DEF CoreOf
<1>4. c = <<>> => ~ fine
  BY <1>2, EmptyCore DEF CoreOf
<1>5. c # <<>> => Unit(Last(c)) = 0
  BY <1>2, CoreIs DEF CoreOf
<1>6. /\ a.unit = <<>> => t = c /\ Stripped(t) = t
      /\ a.unit # <<>> => /\ t \in Seq(Marks) /\ t # <<>> /\ t[1] # Gap /\ Last(t) = a.unit[1]
                          /\ Stripped(Front(t)) = c
  BY StrippedText
<1> HIDE DEF t, fine, c
<1>7. CASE a.unit = <<>>
  <2>1. unit = 0 /\ x = t
    BY <1>5, <1>6, <1>7
  <2>2. Stripped(x) = c
    BY <1>6, <1>7, <2>1
  <2>3. factor = 1
    BY <2>1
  <2>4. Worth(a.unit, of) = 1
    BY <1>7, WorthIs
  <2>5. (n.ok <=> fine) /\ num = Signed(a.sign, Magnitude(a.whole, a.frac)) /\ div = Divisor(a.frac)
    BY <1>3, <2>2
  <2>6. t = <<>> => ~ n.ok
    BY <1>4, <1>6, <1>7, <2>5
  <2> HIDE DEF num, div, factor, n, x, unit
  <2>7. (num * scale * factor) \div div = ValueOf(a, of, scale)
    BY <2>3, <2>4, <2>5 DEF ValueOf
  <2> QED
    BY <1>1, <2>4, <2>5, <2>6, <2>7 DEF fine
<1>8. CASE a.unit # <<>> /\ Worth(a.unit, of) > 0
  <2>1. unit = Worth(a.unit, of)
    BY <1>6, <1>8 DEF Worth
  <2>2. x = Front(t) /\ factor = Worth(a.unit, of)
    BY <1>8, <2>1
  <2>3. Stripped(x) = c
    BY <1>6, <1>8, <2>2
  <2>5. (n.ok <=> fine) /\ num = Signed(a.sign, Magnitude(a.whole, a.frac)) /\ div = Divisor(a.frac)
    BY <1>3, <2>3
  <2>6. t # <<>> /\ Worth(a.unit, of) # 0
    BY <1>6, <1>8
  <2> HIDE DEF num, div, factor, n, x, unit
  <2>7. (num * scale * factor) \div div = ValueOf(a, of, scale)
    BY <2>2, <2>5 DEF ValueOf
  <2> QED
    BY <1>1, <2>5, <2>6, <2>7 DEF fine
<1>9. CASE a.unit # <<>> /\ ~ Worth(a.unit, of) > 0
  <2>1. a.unit = <<"k">> /\ of = "seconds" /\ Worth(a.unit, of) = 0
    BY <1>2, <1>9, WorthIs DEF Units
  <2>2. Last(t) = "k"
    BY <1>6, <1>9, <2>1
  <2>3. unit = 0
    BY <1>6, <1>9, <2>1, <2>2 DEF TimeUnit
  <2>4. x = t
    BY <2>3
  <2>5. ~ n.ok
    BY <1>6, <1>9, <2>2, <2>4, EndsInK
  <2> HIDE DEF num, div, factor, n, x, unit
  <2> QED
    BY <1>1, <2>1, <2>5
<1> QED
  BY <1>7, <1>8, <1>9

\* The tenths a text means, as NumbersMeanWhatTheySay has them.
TenthsOf(a) ==
    (IF a.whole = <<>> THEN 0 ELSE IF a.whole = <<"2">> THEN 20 ELSE 100) + (IF Len(a.frac) = 2 THEN 5 ELSE 0)
AmountOf(a) == IF a.sign = <<"-">> THEN - TenthsOf(a) ELSE TenthsOf(a)

LEMMA TenthsAre ==
    ASSUME NEW a \in Amounts, Proper(a.whole, a.frac)
    PROVE  \E v \in {0, 2, 10} :
             \/ /\ Magnitude(a.whole, a.frac) = v /\ Divisor(a.frac) = 1
                /\ TenthsOf(a) = 10 * v /\ TenthsOf(a) % 10 = 0
             \/ /\ Magnitude(a.whole, a.frac) = 10 * v + 5 /\ Divisor(a.frac) = 10
                /\ TenthsOf(a) = 10 * v + 5 /\ TenthsOf(a) % 10 = 5
<1> DEFINE w == a.whole
           f == a.frac
           v == WholeOf(w)
           m == Len(f)
<1>1. w \in {<<>>, <<"2">>, <<"1", "0">>} /\ f \in Fracs
  BY AmountIs DEF Wholes
<1>2. v \in {0, 2, 10} /\ (IF w = <<>> THEN 0 ELSE IF w = <<"2">> THEN 20 ELSE 100) = 10 * v
  BY <1>1 DEF WholeOf
<1>3. m \in {0, 1, 2}
  <2>1. m \in {0, 1, 2, 3}
    BY <1>1 DEF Fracs
  <2> QED
    BY <2>1 DEF Proper
<1>4. /\ Magnitude(w, f) = IF m < 2 THEN v ELSE 10 * v + 5
      /\ Divisor(f) = IF m < 2 THEN 1 ELSE 10
      /\ TenthsOf(a) = 10 * v + (IF m = 2 THEN 5 ELSE 0)
  BY <1>2 DEF Magnitude, Divisor, TenthsOf
<1> HIDE DEF w, f, v, m
<1>5. (10 * v) % 10 = 0 /\ (10 * v + 5) % 10 = 5
  BY <1>2
<1>6. CASE m < 2
  <2>1. m # 2
    BY <1>3, <1>6
  <2>2. Magnitude(w, f) = v /\ Divisor(f) = 1 /\ TenthsOf(a) = 10 * v
    BY <1>2, <1>4, <1>6, <2>1
  <2> QED
    BY <1>2, <1>5, <2>2 DEF w, f
<1>7. CASE m = 2
  <2>1. Magnitude(w, f) = 10 * v + 5 /\ Divisor(f) = 10 /\ TenthsOf(a) = 10 * v + 5
    BY <1>2, <1>4, <1>7
  <2> QED
    BY <1>2, <1>5, <2>1 DEF w, f
<1> QED
  BY <1>3, <1>6, <1>7

LEMMA RateArithmetic ==
    ASSUME NEW v \in {0, 2, 10}, NEW u \in {1, 1024, 1024 * 1024}
    PROVE  /\ (v * 1 * u) \div 1 >= 0 /\ 10 * ((v * 1 * u) \div 1) = (10 * v) * u
           /\ v # 0 => ((- v) * 1 * u) \div 1 < 0
           /\ v = 0 => ((- v) * 1 * u) \div 1 = 0
           /\ ((10 * v + 5) * 1 * u) \div 10 >= 0
           /\ 10 * (((10 * v + 5) * 1 * u) \div 10) = (10 * v + 5) * u - (IF u = 1 THEN 5 ELSE 0)
           /\ ((- (10 * v + 5)) * 1 * u) \div 10 < 0
<1>1. CASE u = 1
  BY <1>1
<1>2. CASE u = 1024
  BY <1>2
<1>3. CASE u = 1024 * 1024
  BY <1>3
<1> QED
  BY <1>1, <1>2, <1>3

LEMMA TimeArithmetic ==
    ASSUME NEW v \in {0, 2, 10}, NEW u \in {1, 60}
    PROVE  /\ (v * 10 * u) \div 1 = (10 * v) * u
           /\ ((- v) * 10 * u) \div 1 = (- (10 * v)) * u
           /\ ((10 * v + 5) * 10 * u) \div 10 = (10 * v + 5) * u
           /\ ((- (10 * v + 5)) * 10 * u) \div 10 = (- (10 * v + 5)) * u
<1>1. CASE u = 1
  BY <1>1
<1>2. CASE u = 60
  BY <1>2
<1> QED
  BY <1>1, <1>2

\* A number of bytes: what parse_bytes_helper makes of it.
LEMMA RateMeant ==
    ASSUME NEW a \in Amounts, TextOf(a) # <<"inf">>
    PROVE  LET r == parse_bytes_helper(TextOf(a)) IN
           /\ r.ok <=> Proper(a.whole, a.frac) /\ AmountOf(a) >= 0
           /\ r.ok => 10 * r.value = AmountOf(a) * (IF a.unit = <<>> THEN 1 ELSE ByteUnit(a.unit[1]))
                                      - (IF a.unit = <<>> /\ TenthsOf(a) % 10 # 0 THEN 5 ELSE 0)
<1> DEFINE n == WithUnit(TextOf(a), "bytes", 1)
           r == parse_bytes_helper(TextOf(a))
           u == Worth(a.unit, "bytes")
           neg == a.sign = <<"-">>
           m == Magnitude(a.whole, a.frac)
           d == Divisor(a.frac)
           x == ValueOf(a, "bytes", 1)
           tenths == TenthsOf(a)
           fine == Proper(a.whole, a.frac)
<1>1. r = IF n.value < 0 THEN No ELSE n
  BY DEF parse_bytes_helper
<1>2. u \in {1, 1024, 1024 * 1024} /\ (u = 1 <=> a.unit = <<>>)
  BY AmountIs, WorthIs DEF Units
<1>3. n = IF fine /\ u # 0 THEN Yes(x) ELSE No
  BY WithUnitIs
<1>4. x = ((IF neg THEN - m ELSE m) * 1 * u) \div d
  BY DEF ValueOf, Signed
<1>5. AmountOf(a) = IF neg THEN - tenths ELSE tenths
  BY DEF AmountOf
<1>6. u = IF a.unit = <<>> THEN 1 ELSE ByteUnit(a.unit[1])
  BY DEF Worth
<1> HIDE DEF r, n, x, u, m, d, tenths, neg
<1>7. ASSUME fine
      PROVE  /\ x < 0 <=> AmountOf(a) < 0
             /\ x \in Int /\ tenths \in Int
             /\ x >= 0 => 10 * x = AmountOf(a) * u - (IF u = 1 /\ tenths % 10 # 0 THEN 5 ELSE 0)
  <2> PICK v \in {0, 2, 10} : \/ m = v /\ d = 1 /\ tenths = 10 * v /\ tenths % 10 = 0
                              \/ m = 10 * v + 5 /\ d = 10 /\ tenths = 10 * v + 5 /\ tenths % 10 = 5
    BY <1>7, TenthsAre DEF m, d, tenths
  <2> QED
    BY <1>2, <1>4, <1>5, RateArithmetic
<1>8. CASE ~ fine
  <2>1. r = No
    BY <1>1, <1>3, <1>8 DEF No
  <2> QED
    BY <1>8, <2>1 DEF No, r
<1>9. CASE fine
  <2>1. n = Yes(x) /\ x \in Int /\ AmountOf(a) \in Int
    BY <1>2, <1>3, <1>5, <1>7, <1>9
  <2>2. n.value = x /\ n.ok
    BY <2>1 DEF Yes
  <2>3. CASE x < 0
    BY <1>1, <1>7, <1>9, <2>1, <2>2, <2>3 DEF No, r
  <2>4. CASE x >= 0
    BY <1>1, <1>2, <1>6, <1>7, <1>9, <2>1, <2>2, <2>4 DEF r, tenths
  <2> QED
    BY <2>1, <2>3, <2>4
<1> QED
  BY <1>8, <1>9

\* A time: what cmd_time makes of it.
LEMMA TimeMeant ==
    ASSUME NEW a \in Amounts
    PROVE  LET r == cmd_time(TextOf(a)) IN
           /\ r.ok <=> Proper(a.whole, a.frac) /\ a.unit # <<"k">>
           /\ r.ok => r.value = AmountOf(a) * (IF a.unit = <<"m">> THEN 60 ELSE 1)
<1> DEFINE r == cmd_time(TextOf(a))
           u == Worth(a.unit, "seconds")
           neg == a.sign = <<"-">>
           m == Magnitude(a.whole, a.frac)
           d == Divisor(a.frac)
           x == ValueOf(a, "seconds", 10)
           tenths == TenthsOf(a)
           fine == Proper(a.whole, a.frac)
<1>1. r = IF fine /\ u # 0 THEN Yes(x) ELSE No
  BY WithUnitIs DEF cmd_time
<1>2. a.unit \in Units
  BY AmountIs
<1>3. (a.unit = <<"k">> => u = 0) /\ (a.unit # <<"k">> => u = IF a.unit = <<"m">> THEN 60 ELSE 1)
  BY <1>2, WorthIs DEF Units
<1>4. x = ((IF neg THEN - m ELSE m) * 10 * u) \div d
  BY DEF ValueOf, Signed
<1>5. AmountOf(a) = IF neg THEN - tenths ELSE tenths
  BY DEF AmountOf
<1> HIDE DEF r, x, u, m, d, tenths, neg
<1>7. ASSUME fine, u \in {1, 60}
      PROVE  x = AmountOf(a) * u
  <2> PICK v \in {0, 2, 10} : \/ m = v /\ d = 1 /\ tenths = 10 * v /\ tenths % 10 = 0
                              \/ m = 10 * v + 5 /\ d = 10 /\ tenths = 10 * v + 5 /\ tenths % 10 = 5
    BY <1>7, TenthsAre DEF m, d, tenths
  <2> QED
    BY <1>4, <1>5, <1>7, TimeArithmetic
<1>8. CASE ~ (fine /\ a.unit # <<"k">>)
  BY <1>1, <1>3, <1>8 DEF No, r
<1>9. CASE fine /\ a.unit # <<"k">>
  <2>1. r = Yes(x) /\ x = AmountOf(a) * u
    BY <1>1, <1>3, <1>7, <1>9
  <2> QED
    BY <1>3, <1>9, <2>1 DEF Yes, r
<1> QED
  BY <1>8, <1>9
-----------------------------------------------------------------------------
(* Options: What the numbers on a command line mean                        *)

\* The option set last has been decided by its value alone: it holds the number
\* of its text, or the program has ended.
Decided(com, field, r) ==
    last.com = com => (outcome = "running" <=> r.ok) /\ (outcome = "running" => opt[field] = r.value)

NumbersInv ==
    /\ Decided("limitrate", "limit_rate", parse_bytes_helper(last.val))
    /\ Decided("readtimeout", "read_timeout", cmd_time(last.val))

LEMMA SetsNumber ==
    ASSUME OptionsInv, NEW com \in ValueOptions \cup BooleanOptions, NEW val, setoptval(com, val)
    PROVE  NumbersInv'
<1>1. last' = [com |-> com, val |-> val]
  BY DEF setoptval
<1>2. last'.com = com /\ last'.val = val
  BY <1>1
<1>3. ASSUME NEW f \in {"limit_rate", "read_timeout"}, NEW r, Command(opt, com, val) = Plain(opt, f, r)
      PROVE  (outcome' = "running" <=> r.ok) /\ (outcome' = "running" => opt'[f] = r.value)
  <2> DEFINE p == Plain(opt, f, r)
  <2>1. opt' = p.opt /\ outcome' = IF p.ok THEN "running" ELSE "exit"
    BY <1>3 DEF setoptval
  <2>2. p.ok <=> r.ok
    BY DEF Plain
  <2>3. r.ok => p.opt = [opt EXCEPT ![f] = r.value]
    BY DEF Plain
  <2>4. f \in DOMAIN opt
    BY FieldsOfDefaults DEF OptionsInv, Fielded
  <2> HIDE DEF p
  <2>5. r.ok => p.opt[f] = r.value
    BY <2>3, <2>4
  <2> QED
    BY <2>1, <2>2, <2>5
<1>4. ASSUME com = "limitrate"
      PROVE  LET r == parse_bytes_helper(val) IN
             (outcome' = "running" <=> r.ok) /\ (outcome' = "running" => opt'["limit_rate"] = r.value)
  <2>1. Command(opt, com, val) = Plain(opt, "limit_rate", parse_bytes_helper(val))
    BY <1>4 DEF Command
  <2> QED
    BY <1>3, <2>1
<1>5. ASSUME com = "readtimeout"
      PROVE  LET r == cmd_time(val) IN
             (outcome' = "running" <=> r.ok) /\ (outcome' = "running" => opt'["read_timeout"] = r.value)
  <2>1. Command(opt, com, val) = Plain(opt, "read_timeout", cmd_time(val))
    BY <1>5 DEF Command
  <2> QED
    BY <1>3, <2>1
<1>6. Decided("limitrate", "limit_rate", parse_bytes_helper(last.val))'
  BY <1>2, <1>4 DEF Decided
<1>7. Decided("readtimeout", "read_timeout", cmd_time(last.val))'
  BY <1>2, <1>5 DEF Decided
<1> QED
  BY <1>6, <1>7 DEF NumbersInv

LEMMA StepNumbers ==
    ASSUME OptionsInv, OptionsNext
    PROVE  NumbersInv'
<1>1. ASSUME last'.com \notin {"limitrate", "readtimeout"} PROVE NumbersInv'
  BY <1>1 DEF NumbersInv, Decided
<1>2. CASE \E com \in ValueOptions \cup BooleanOptions : \E val \in ValueTexts(com) : setoptval(com, val)
  BY <1>2, SetsNumber
<1>3. CASE NoLetters
  <2>1. CASE \E l \in DOMAIN LetterCommands : setoptval(LetterCommands[l][1], <<LetterCommands[l][2]>>)
    <3>1. \A l \in DOMAIN LetterCommands : LetterCommands[l][1] \in BooleanOptions
      BY DEF LetterCommands, BooleanOptions
    <3> QED
      BY <2>1, <3>1, SetsNumber
  <2>2. CASE last' = [com |-> "no", val |-> <<"z">>]
    BY <1>1, <2>2
  <2> QED
    BY <1>3, <2>1, <2>2 DEF NoLetters
<1>4. CASE \E com \in {"noparent", "noclobber"}, val \in {<<>>, <<"1">>, <<"no">>} : ParentOrClobber(com, val)
  BY <1>4, SetsNumber DEF ParentOrClobber, BooleanOptions
<1>5. CASE DontRemoveListing
  BY <1>5, SetsNumber DEF DontRemoveListing, BooleanOptions
<1>6. CASE Crashes
  <2>1. PICK com \in {"egdfile", "randomfile", "dirprefix", "execute"} : last' = [com |-> com, val |-> <<>>]
    BY <1>6 DEF Crashes
  <2>2. last'.com \notin {"limitrate", "readtimeout"}
    BY <2>1
  <2> QED
    BY <1>1, <2>2
<1> QED
  BY <1>2, <1>3, <1>4, <1>5, <1>6 DEF OptionsNext

LEMMA NumbersMeant ==
    ASSUME NumbersInv
    PROVE  NumbersMeanWhatTheySay
<1> SUFFICES ASSUME last.com \in {"limitrate", "readtimeout"}, last.val # <<"inf">>,
                    NEW a \in Amounts, TextOf(a) = last.val
             PROVE  LET tenths == TenthsOf(a)
                        right  == Len(a.frac) < 3 /\ (a.whole # <<>> \/ Len(a.frac) = 2)
                        amount == AmountOf(a)
                    IN  IF last.com = "limitrate"
                        THEN /\ outcome = "running" <=> right /\ amount >= 0
                             /\ outcome = "running" =>
                                  10 * opt.limit_rate = amount * (IF a.unit = <<>> THEN 1 ELSE ByteUnit(a.unit[1]))
                                                        - (IF a.unit = <<>> /\ tenths % 10 # 0 THEN 5 ELSE 0)
                        ELSE /\ outcome = "running" <=> right /\ a.unit # <<"k">>
                             /\ outcome = "running" =>
                                  opt.read_timeout = amount * (IF a.unit = <<"m">> THEN 60 ELSE 1)
  BY DEF NumbersMeanWhatTheySay, TenthsOf, AmountOf
<1>1. CASE last.com = "limitrate"
  <2> DEFINE r == parse_bytes_helper(TextOf(a))
  <2>1. (outcome = "running" <=> r.ok) /\ (outcome = "running" => opt.limit_rate = r.value)
    BY <1>1 DEF NumbersInv, Decided
  <2>2. /\ r.ok <=> Proper(a.whole, a.frac) /\ AmountOf(a) >= 0
        /\ r.ok => 10 * r.value = AmountOf(a) * (IF a.unit = <<>> THEN 1 ELSE ByteUnit(a.unit[1]))
                                   - (IF a.unit = <<>> /\ TenthsOf(a) % 10 # 0 THEN 5 ELSE 0)
    BY RateMeant
  <2> HIDE DEF r
  <2> QED
    BY <1>1, <2>1, <2>2 DEF Proper
<1>2. CASE last.com = "readtimeout"
  <2> DEFINE r == cmd_time(TextOf(a))
  <2>1. (outcome = "running" <=> r.ok) /\ (outcome = "running" => opt.read_timeout = r.value)
    BY <1>2 DEF NumbersInv, Decided
  <2>2. /\ r.ok <=> Proper(a.whole, a.frac) /\ a.unit # <<"k">>
        /\ r.ok => r.value = AmountOf(a) * (IF a.unit = <<"m">> THEN 60 ELSE 1)
    BY TimeMeant
  <2> HIDE DEF r
  <2> QED
    BY <1>2, <2>1, <2>2 DEF Proper
<1> QED
  BY <1>1, <1>2

\* However many options a command line has: the numbers of the rate and of the
\* time are what their texts say and refused if they say nothing, directories
\* switched off stay off, and every command there is is found, and no other
\* (init.cpp:249-268, 789-972, 1237-1285).
THEOREM OptionsAreMeant == OptionsSpec => []OptionsMean
<1>1. OptionsInit => NumbersInv
  <2>1. OptionsInit => last.com = ""
    <3> DEFINE e == ""
               n == <<>>
    <3>1. OptionsInit => last = [com |-> e, val |-> n]
      BY DEF OptionsInit
    <3> HIDE DEF e, n
    <3>2. OptionsInit => last.com = e
      BY <3>1
    <3> QED
      BY <3>2 DEF e
  <2>2. "" # "limitrate" /\ "" # "readtimeout"
    OBVIOUS
  <2> QED
    BY <2>1, <2>2 DEF NumbersInv, Decided
<1>2. OptionsInv /\ NumbersInv /\ [OptionsNext]_ovars => NumbersInv'
  <2>1. OptionsInv /\ OptionsNext => NumbersInv'
    BY StepNumbers
  <2>2. NumbersInv /\ UNCHANGED ovars => NumbersInv'
    BY DEF NumbersInv, Decided, ovars
  <2> QED
    BY <2>1, <2>2
<1>3. NumbersInv => NumbersMeanWhatTheySay
  BY NumbersMeant
<1>4. OptionsInit => OptionsInv
  BY OptionsStart
<1>5. OptionsInv /\ [OptionsNext]_ovars => OptionsInv'
  BY OptionsStart
<1> QED
  BY <1>1, <1>2, <1>3, <1>4, <1>5, RefusedOrLockedKept, CommandsAreFound, PTL DEF OptionsSpec, OptionsMean

-----------------------------------------------------------------------------
(* URLs: Searches                                                          *)

\* c is not in t from a on before k.
FreeOf(t, c, a, k) == \A i \in Int : a <= i /\ i < k => t[i] # c

LEMMA PlaceFound ==
    ASSUME NEW t, NEW c, NEW a \in Int, NEW k \in Int, Len(t) \in Nat,
           a <= k, k <= Len(t), t[k] = c, FreeOf(t, c, a, k)
    PROVE  Find(t, c, a) = k
<1> DEFINE at == {i \in a .. Len(t) : t[i] = c}
<1>1. k \in at /\ \A j \in at : k <= j
  BY DEF FreeOf
<1>2. \A i \in at : (\A j \in at : i <= j) => i = k
  BY <1>1
<1> HIDE DEF at
<1>3. (CHOOSE i \in at : \A j \in at : i <= j) = k
  BY <1>1, <1>2
<1>4. at # {}
  BY <1>1
<1> QED
  BY <1>3, <1>4 DEF Find, at

LEMMA PlaceNone ==
    ASSUME NEW t, NEW c, NEW a \in Int, NEW k \in Int, Len(t) \in Nat, Len(t) < k, FreeOf(t, c, a, k)
    PROVE  Find(t, c, a) = 0
<1> DEFINE at == {i \in a .. Len(t) : t[i] = c}
<1>1. at = {}
  BY DEF FreeOf
<1> HIDE DEF at
<1> QED
  BY <1>1 DEF Find, at

LEMMA LastPlaceFound ==
    ASSUME NEW t, NEW c, NEW a \in Int, NEW b \in Int, NEW k \in Int, NEW l \in Int,
           a <= k, k <= b, l = k + 1, t[k] = c, FreeOf(t, c, l, b + 1)
    PROVE  FindLast(t, c, a, b) = k
<1> DEFINE at == {i \in a .. b : t[i] = c}
<1>1. k \in at /\ \A j \in at : k >= j
  BY DEF FreeOf
<1>2. \A i \in at : (\A j \in at : i >= j) => i = k
  BY <1>1
<1> HIDE DEF at
<1>3. (CHOOSE i \in at : \A j \in at : i >= j) = k
  BY <1>1, <1>2
<1>4. at # {}
  BY <1>1
<1> QED
  BY <1>3, <1>4 DEF FindLast, at

LEMMA LastPlaceNone ==
    ASSUME NEW t, NEW c, NEW a \in Int, NEW b \in Int, FreeOf(t, c, a, b + 1)
    PROVE  FindLast(t, c, a, b) = 0
<1> DEFINE at == {i \in a .. b : t[i] = c}
<1>1. at = {}
  BY DEF FreeOf
<1> HIDE DEF at
<1> QED
  BY <1>1 DEF FindLast, at

-----------------------------------------------------------------------------
(* URLs: Layout                                                            *)

\* s lies in t behind k.
Lies(s, t, k) == k + Len(s) <= Len(t) /\ \A i \in 1 .. Len(s) : t[k + i] = s[i]

LEMMA LiesBehind ==
    ASSUME NEW S, NEW t \in Seq(S), NEW s \in Seq(S)
    PROVE  Joined(t, s) \in Seq(S) /\ Len(Joined(t, s)) = Len(t) + Len(s) /\ Lies(s, Joined(t, s), Len(t))
<1>1. Len(t) \in Nat /\ Len(s) \in Nat
  BY LenProperties
<1> DEFINE j == Joined(t, s)
<1>2. j \in Seq(S) /\ Len(j) = Len(t) + Len(s) /\ \A i \in 1 .. Len(s) : j[Len(t) + i] = s[i]
  BY JoinedIs
<1> HIDE DEF j
<1>3. Lies(s, j, Len(t))
  BY <1>1, <1>2 DEF Lies
<1> QED
  BY <1>2, <1>3 DEF j

LEMMA LiesStill ==
    ASSUME NEW S, NEW t \in Seq(S), NEW s \in Seq(S), NEW u \in Seq(S), NEW k \in Nat, Lies(s, t, k)
    PROVE  Lies(s, Joined(t, u), k)
<1> DEFINE j == Joined(t, u)
<1>1. Len(t) \in Nat /\ Len(s) \in Nat /\ Len(u) \in Nat
  BY LenProperties
<1>2. Len(j) = Len(t) + Len(u) /\ \A i \in 1 .. Len(t) : j[i] = t[i]
  BY JoinedIs
<1> HIDE DEF j
<1>3. \A i \in 1 .. Len(s) : k + i \in 1 .. Len(t)
  BY <1>1 DEF Lies
<1> QED
  BY <1>1, <1>2, <1>3 DEF Lies, j

\* What URLs are made of.
Words == {"http", "ftp", "me", "secret", "www", "dir", "file", "q", "part", "x"} \cup Separators \cup Schemes \cup DOMAIN Ports

\* Where the parts of p end in t, which begins with a scheme.
LoginAt(p, t, a) ==
    \/ a = 4 /\ p.login = <<>>
    \/ a = 6 /\ p.login = <<"me", "@">> /\ t[5] = "me" /\ t[6] = "@"
    \/ a = 8 /\ p.login = <<"me", ":", "secret", "@">>
       /\ t[5] = "me" /\ t[6] = ":" /\ t[7] = "secret" /\ t[8] = "@"
PortAt(p, t, a, b) ==
    \/ b = a + 1 /\ p.port = <<>>
    \/ b = a + 3 /\ t[a + 2] = ":" /\ t[a + 3] \in DOMAIN Ports /\ p.port = <<":", t[a + 3]>>
PathAt(p, t, b, d) ==
    \/ d = b /\ p.path = <<>>
    \/ d = b + 1 /\ p.path = <<"/">> /\ t[b + 1] = "/"
    \/ d = b + 4 /\ p.path = <<"/", "dir", "/", "file">>
       /\ t[b + 1] = "/" /\ t[b + 2] = "dir" /\ t[b + 3] = "/" /\ t[b + 4] = "file"
QueryAt(p, t, d, f) ==
    \/ f = d /\ p.query = <<>>
    \/ f = d + 2 /\ p.query = <<"?", "q">> /\ t[d + 1] = "?" /\ t[d + 2] = "q"
FragmentAt(p, t, f, n) ==
    \/ n = f /\ p.fragment = <<>>
    \/ n = f + 2 /\ p.fragment = <<"#", "part">> /\ t[f + 1] = "#" /\ t[f + 2] = "part"
    \/ n = f + 4 /\ p.fragment = <<"#", "part", "?", "x">>
       /\ t[f + 1] = "#" /\ t[f + 2] = "part" /\ t[f + 3] = "?" /\ t[f + 4] = "x"

SchemeAt(s, t) == s \notin Separators \cup {Terminator} /\ t[1] = s /\ t[2] = ":" /\ t[3] = "/" /\ t[4] = "/"

Laid(p, s, t, a, b, d, f, n) ==
    /\ t \in Seq(Words) /\ Len(t) = n
    /\ a \in Int /\ b \in Int /\ d \in Int /\ f \in Int /\ n \in Int
    /\ SchemeAt(s, t) /\ LoginAt(p, t, a) /\ t[a + 1] = "www" /\ PortAt(p, t, a, b)
    /\ PathAt(p, t, b, d) /\ QueryAt(p, t, d, f) /\ FragmentAt(p, t, f, n)

Schemed(s) == <<s, ":", "/", "/">>
Composed(p, q) == q \o p.login \o <<"www">> \o p.port \o p.path \o p.query \o p.fragment

\* And what p has is there.
Filled(p, t, a, b, d, f, n) ==
    /\ Lies(p.login, t, 4) /\ a = 4 + Len(p.login)
    /\ Lies(<<"www">>, t, a)
    /\ Lies(p.port, t, a + 1) /\ b = a + 1 + Len(p.port)
    /\ Lies(p.path, t, b) /\ d = b + Len(p.path)
    /\ Lies(p.query, t, d) /\ f = d + Len(p.query)
    /\ Lies(p.fragment, t, f) /\ n = f + Len(p.fragment)

LEMMA SumIs == ASSUME NEW x \in Nat, NEW y \in Nat, NEW z, z = x + y PROVE z \in Nat
  OBVIOUS

LEMMA FewAre ==
    ASSUME NEW S, NEW w \in S, NEW x \in S, NEW y \in S, NEW z \in S
    PROVE  /\ <<>> \in Seq(S) /\ <<w>> \in Seq(S) /\ <<w, x>> \in Seq(S) /\ <<w, x, y, z>> \in Seq(S)
           /\ Len(<<>>) = 0 /\ Len(<<w>>) = 1 /\ Len(<<w, x>>) = 2 /\ Len(<<w, x, y, z>>) = 4
<1>1. <<>> \in Seq(S) /\ <<w>> \in Seq(S) /\ <<w, x>> \in Seq(S) /\ <<w, x, y>> \in Seq(S)
  BY EmptySeq
<1>2. <<w, x, y, z>> = Append(<<w, x, y>>, z)
  OBVIOUS
<1>3. <<w, x, y, z>> \in Seq(S)
  BY <1>1, <1>2, AppendProperties
<1>4. Len(<<>>) = 0 /\ Len(<<w>>) = 1 /\ Len(<<w, x>>) = 2 /\ Len(<<w, x, y, z>>) = 4
  OBVIOUS
<1> QED
  BY <1>1, <1>3, <1>4

LEMMA LiesOne == ASSUME NEW t, NEW k, NEW i, NEW x, Lies(<<x>>, t, k), k \in Nat, i = k + 1 PROVE t[i] = x
  BY DEF Lies

LEMMA LiesTwo ==
    ASSUME NEW t, NEW k, NEW i, NEW j, NEW x, NEW y, Lies(<<x, y>>, t, k), k \in Nat, i = k + 1, j = k + 2
    PROVE  t[i] = x /\ t[j] = y
  BY DEF Lies

LEMMA LiesFour ==
    ASSUME NEW t, NEW k, NEW h, NEW i, NEW j, NEW l, NEW w, NEW x, NEW y, NEW z,
           Lies(<<w, x, y, z>>, t, k), k \in Nat, h = k + 1, i = k + 2, j = k + 3, l = k + 4
    PROVE  t[h] = w /\ t[i] = x /\ t[j] = y /\ t[l] = z
  BY DEF Lies

LEMMA PartsAre ==
    ASSUME NEW p \in PartsSet
    PROVE  /\ p.login \in {<<>>, <<"me", "@">>, <<"me", ":", "secret", "@">>}
           /\ p.port = <<>> \/ \E w \in DOMAIN Ports : p.port = <<":", w>>
           /\ p.path \in {<<>>, <<"/">>, <<"/", "dir", "/", "file">>}
           /\ p.query \in {<<>>, <<"?", "q">>}
           /\ p.fragment \in {<<>>, <<"#", "part">>, <<"#", "part", "?", "x">>}
           /\ p.scheme = <<>> \/ \E s \in Schemes : p.scheme = Schemed(s)
  BY DEF PartsSet, Optional, Schemed

LEMMA PartsWords ==
    ASSUME NEW p \in PartsSet
    PROVE  /\ p.login \in Seq(Words) /\ p.port \in Seq(Words) /\ p.path \in Seq(Words)
           /\ p.query \in Seq(Words) /\ p.fragment \in Seq(Words) /\ <<"www">> \in Seq(Words)
<1>1. \A w \in DOMAIN Ports : w \in Words
  BY DEF Words
<1>s. "me" \in Words /\ "@" \in Words /\ ":" \in Words /\ "secret" \in Words /\ "/" \in Words /\ "dir" \in Words
      /\ "file" \in Words /\ "?" \in Words /\ "q" \in Words /\ "#" \in Words /\ "part" \in Words /\ "x" \in Words
      /\ "www" \in Words
  BY DEF Words, Separators
<1>2. <<>> \in Seq(Words) /\ <<"www">> \in Seq(Words)
  BY <1>s, FewAre
<1>3. \A w \in Words : <<":", w>> \in Seq(Words)
  BY <1>s, FewAre
<1>4. <<"me", "@">> \in Seq(Words) /\ <<"?", "q">> \in Seq(Words) /\ <<"#", "part">> \in Seq(Words)
  BY <1>s, FewAre
<1>5. <<"me", ":", "secret", "@">> \in Seq(Words) /\ <<"/">> \in Seq(Words)
      /\ <<"/", "dir", "/", "file">> \in Seq(Words) /\ <<"#", "part", "?", "x">> \in Seq(Words)
  BY <1>s, FewAre
<1>6. p.port = <<>> \/ \E w \in DOMAIN Ports : p.port = <<":", w>>
  BY PartsAre
<1>7. p.port \in Seq(Words)
  BY <1>1, <1>2, <1>3, <1>6
<1>8. /\ p.login \in {<<>>, <<"me", "@">>, <<"me", ":", "secret", "@">>}
      /\ p.path \in {<<>>, <<"/">>, <<"/", "dir", "/", "file">>} /\ p.query \in {<<>>, <<"?", "q">>}
      /\ p.fragment \in {<<>>, <<"#", "part">>, <<"#", "part", "?", "x">>}
  BY PartsAre
<1> QED
  BY <1>2, <1>4, <1>5, <1>7, <1>8

LEMMA LayOut ==
    ASSUME NEW p \in PartsSet, NEW s \in Words, s \notin Separators \cup {Terminator}
    PROVE  \E a, b, d, f, n \in Int : LET t == Composed(p, Schemed(s)) IN
               Laid(p, s, t, a, b, d, f, n) /\ Filled(p, t, a, b, d, f, n)
<1> DEFINE S == Words
           lo == p.login
           po == p.port
           pa == p.path
           qu == p.query
           fr == p.fragment
           t0 == Schemed(s)
           t1 == Joined(t0, lo)
           t2 == Joined(t1, <<"www">>)
           t3 == Joined(t2, po)
           t4 == Joined(t3, pa)
           t5 == Joined(t4, qu)
           t6 == Joined(t5, fr)
           a == 4 + Len(lo)
           w == a + 1
           b == w + Len(po)
           d == b + Len(pa)
           f == d + Len(qu)
           n == f + Len(fr)
<1>1. lo \in Seq(S) /\ po \in Seq(S) /\ pa \in Seq(S) /\ qu \in Seq(S) /\ fr \in Seq(S) /\ <<"www">> \in Seq(S)
  BY PartsWords
<1>2. Len(lo) \in Nat /\ Len(po) \in Nat /\ Len(pa) \in Nat /\ Len(qu) \in Nat /\ Len(fr) \in Nat
  BY <1>1, LenProperties
<1>3. t0 \in Seq(S) /\ Len(t0) = 4 /\ t0[1] = s /\ t0[2] = ":" /\ t0[3] = "/" /\ t0[4] = "/"
  <2>1. s \in Words /\ ":" \in Words /\ "/" \in Words
    BY DEF Words, Separators
  <2>2. t0 \in Seq(S) /\ Len(t0) = 4
    BY <2>1, FewAre DEF Schemed
  <2> QED
    BY <2>2, Zenon DEF Schemed
<1>4. Lies(t0, t0, 0)
  <2> HIDE DEF t0
  <2> QED
    BY <1>3 DEF Lies
<1>l. a = 4 + Len(lo) /\ w = a + 1 /\ b = w + Len(po) /\ d = b + Len(pa) /\ f = d + Len(qu) /\ n = f + Len(fr)
  OBVIOUS
<1> HIDE DEF a, w, b, d, f, n
<1>5. a \in Nat /\ w \in Nat /\ b \in Nat /\ d \in Nat /\ f \in Nat /\ n \in Nat /\ 0 \in Nat /\ 4 \in Nat
  <2>1. a \in Nat /\ w \in Nat
    BY <1>2, <1>l
  <2>2. b \in Nat
    BY <1>2, <1>l, <2>1, SumIs, Zenon
  <2>3. d \in Nat
    BY <1>2, <1>l, <2>2, SumIs, Zenon
  <2>4. f \in Nat
    BY <1>2, <1>l, <2>3, SumIs, Zenon
  <2>5. n \in Nat
    BY <1>2, <1>l, <2>4, SumIs, Zenon
  <2> QED
    BY <2>1, <2>2, <2>3, <2>4, <2>5
<1>6. Composed(p, Schemed(s)) = t6
  BY DEF Composed, Joined
<1> HIDE DEF t0
<1>11. t1 \in Seq(S) /\ Len(t1) = a /\ Lies(lo, t1, 4)
  BY <1>1, <1>3, <1>l, LiesBehind, ZenonT(40)
<1>12. Lies(t0, t1, 0)
  BY <1>1, <1>3, <1>4, <1>5, LiesStill
<1> HIDE DEF t1
<1>21. t2 \in Seq(S) /\ Len(t2) = w /\ Lies(<<"www">>, t2, a)
  <2>1. Len(<<"www">>) = 1
    OBVIOUS
  <2> QED
    BY <1>1, <1>11, <1>l, <2>1, LiesBehind, ZenonT(40)
<1>22. Lies(t0, t2, 0) /\ Lies(lo, t2, 4)
  BY <1>1, <1>3, <1>5, <1>11, <1>12, LiesStill
<1> HIDE DEF t2
<1>31. t3 \in Seq(S) /\ Len(t3) = b /\ Lies(po, t3, w)
  BY <1>1, <1>21, <1>l, LiesBehind, ZenonT(40)
<1>32. Lies(t0, t3, 0) /\ Lies(lo, t3, 4) /\ Lies(<<"www">>, t3, a)
  BY <1>1, <1>3, <1>5, <1>21, <1>22, LiesStill
<1> HIDE DEF t3
<1>41. t4 \in Seq(S) /\ Len(t4) = d /\ Lies(pa, t4, b)
  BY <1>1, <1>31, <1>l, LiesBehind, ZenonT(40)
<1>42. Lies(t0, t4, 0) /\ Lies(lo, t4, 4) /\ Lies(<<"www">>, t4, a) /\ Lies(po, t4, w)
  BY <1>1, <1>3, <1>5, <1>31, <1>32, LiesStill
<1> HIDE DEF t4
<1>51. t5 \in Seq(S) /\ Len(t5) = f /\ Lies(qu, t5, d)
  BY <1>1, <1>41, <1>l, LiesBehind, ZenonT(40)
<1>52. Lies(t0, t5, 0) /\ Lies(lo, t5, 4) /\ Lies(<<"www">>, t5, a) /\ Lies(po, t5, w) /\ Lies(pa, t5, b)
  BY <1>1, <1>3, <1>5, <1>41, <1>42, LiesStill
<1> HIDE DEF t5
<1>61. t6 \in Seq(S) /\ Len(t6) = n /\ Lies(fr, t6, f)
  BY <1>1, <1>51, <1>l, LiesBehind, ZenonT(40)
<1>62. Lies(t0, t6, 0) /\ Lies(lo, t6, 4) /\ Lies(<<"www">>, t6, a) /\ Lies(po, t6, w) /\ Lies(pa, t6, b) /\ Lies(qu, t6, d)
  BY <1>1, <1>3, <1>5, <1>51, <1>52, LiesStill
<1> HIDE DEF t6
<1>71. SchemeAt(s, t6)
  <2>1. Len(t0) = 4 /\ t0[1] = s /\ t0[2] = ":" /\ t0[3] = "/" /\ t0[4] = "/"
    BY <1>3
  <2>2. t6[0 + 1] = t0[1] /\ t6[0 + 2] = t0[2] /\ t6[0 + 3] = t0[3] /\ t6[0 + 4] = t0[4]
    BY <1>62, <2>1 DEF Lies
  <2>3. t6[1] = t0[1] /\ t6[2] = t0[2] /\ t6[3] = t0[3] /\ t6[4] = t0[4]
    BY <2>2
  <2> QED
    BY <2>1, <2>3, Zenon DEF SchemeAt
<1>72. LoginAt(p, t6, a)
  <2>1. lo \in {<<>>, <<"me", "@">>, <<"me", ":", "secret", "@">>}
    BY PartsAre
  <2>2. CASE lo = <<>>
    <3>1. Len(lo) = 0
      BY <2>2
    <3>2. a = 4
      BY <1>5, <1>l, <3>1
    <3> QED
      BY <2>2, <3>2, Zenon DEF LoginAt
  <2>3. CASE lo = <<"me", "@">>
    <3>1. Len(lo) = 2
      BY <2>3
    <3>2. a = 6
      BY <1>5, <1>l, <3>1
    <3>3. Lies(<<"me", "@">>, t6, 4)
      BY <1>61, <1>62, <2>3
    <3>4. 5 = 4 + 1 /\ 6 = 4 + 2 /\ 4 \in Nat
      BY <1>5, <1>l
    <3>5. t6[5] = "me" /\ t6[6] = "@"
      BY <3>3, <3>4, LiesTwo
    <3> QED
      BY <2>3, <3>2, <3>5, Zenon DEF LoginAt
  <2>4. CASE lo = <<"me", ":", "secret", "@">>
    <3>1. Len(lo) = 4
      BY <2>4
    <3>2. a = 8
      BY <1>5, <1>l, <3>1
    <3>3. Lies(<<"me", ":", "secret", "@">>, t6, 4)
      BY <1>61, <1>62, <2>4
    <3>4. 5 = 4 + 1 /\ 6 = 4 + 2 /\ 7 = 4 + 3 /\ 8 = 4 + 4 /\ 4 \in Nat
      BY <1>5, <1>l
    <3>5. t6[5] = "me" /\ t6[6] = ":" /\ t6[7] = "secret" /\ t6[8] = "@"
      BY <3>3, <3>4, LiesFour
    <3> QED
      BY <2>4, <3>2, <3>5, Zenon DEF LoginAt
  <2> QED
    BY <2>1, <2>2, <2>3, <2>4, Zenon
<1>73. t6[w] = "www"
  <2>1. Lies(<<"www">>, t6, a) /\ a \in Nat /\ w = a + 1
    BY <1>5, <1>62, <1>l
  <2> QED
    BY <2>1, LiesOne
<1>74. PortAt(p, t6, a, b)
  <2>1. CASE po = <<>>
    <3>1. Len(po) = 0
      BY <2>1
    <3>2. b = a + 1
      BY <1>5, <1>l, <3>1
    <3> QED
      BY <2>1, <3>2, Zenon DEF PortAt
  <2>2. CASE \E x \in DOMAIN Ports : po = <<":", x>>
    <3>1. PICK x \in DOMAIN Ports : po = <<":", x>>
      BY <2>2
    <3>2. Len(po) = 2
      BY <3>1
    <3>3. a + 2 = w + 1 /\ a + 3 = w + 2 /\ b = a + 3 /\ w \in Nat
      BY <1>5, <1>l, <3>2
    <3>4. Lies(<<":", x>>, t6, w)
      BY <1>62, <3>1
    <3>5. t6[a + 2] = ":" /\ t6[a + 3] = x
      BY <3>3, <3>4, LiesTwo
    <3> QED
      BY <3>1, <3>3, <3>5, Zenon DEF PortAt
  <2>3. po = <<>> \/ \E x \in DOMAIN Ports : po = <<":", x>>
    BY PartsAre
  <2> QED
    BY <2>1, <2>2, <2>3, Zenon
<1>75. PathAt(p, t6, b, d)
  <2>1. pa \in {<<>>, <<"/">>, <<"/", "dir", "/", "file">>}
    BY PartsAre
  <2>2. CASE pa = <<>>
    <3>1. Len(pa) = 0
      BY <2>2
    <3>2. d = b
      BY <1>5, <1>l, <3>1
    <3> QED
      BY <2>2, <3>2, Zenon DEF PathAt
  <2>3. CASE pa = <<"/">>
    <3>1. Len(pa) = 1
      BY <2>3
    <3>2. d = b + 1
      BY <1>5, <1>l, <3>1
    <3>3. Lies(<<"/">>, t6, b)
      BY <1>61, <1>62, <2>3
    <3>4. b + 1 = b + 1 /\ b \in Nat
      BY <1>5, <1>l
    <3>5. t6[b + 1] = "/"
      BY <3>3, <3>4, LiesOne
    <3> QED
      BY <2>3, <3>2, <3>5, Zenon DEF PathAt
  <2>4. CASE pa = <<"/", "dir", "/", "file">>
    <3>1. Len(pa) = 4
      BY <2>4
    <3>2. d = b + 4
      BY <1>5, <1>l, <3>1
    <3>3. Lies(<<"/", "dir", "/", "file">>, t6, b)
      BY <1>61, <1>62, <2>4
    <3>4. b + 1 = b + 1 /\ b + 2 = b + 2 /\ b + 3 = b + 3 /\ b + 4 = b + 4 /\ b \in Nat
      BY <1>5, <1>l
    <3>5. t6[b + 1] = "/" /\ t6[b + 2] = "dir" /\ t6[b + 3] = "/" /\ t6[b + 4] = "file"
      BY <3>3, <3>4, LiesFour
    <3> QED
      BY <2>4, <3>2, <3>5, Zenon DEF PathAt
  <2> QED
    BY <2>1, <2>2, <2>3, <2>4, Zenon
<1>76. QueryAt(p, t6, d, f)
  <2>1. qu \in {<<>>, <<"?", "q">>}
    BY PartsAre
  <2>2. CASE qu = <<>>
    <3>1. Len(qu) = 0
      BY <2>2
    <3>2. f = d
      BY <1>5, <1>l, <3>1
    <3> QED
      BY <2>2, <3>2, Zenon DEF QueryAt
  <2>3. CASE qu = <<"?", "q">>
    <3>1. Len(qu) = 2
      BY <2>3
    <3>2. f = d + 2
      BY <1>5, <1>l, <3>1
    <3>3. Lies(<<"?", "q">>, t6, d)
      BY <1>61, <1>62, <2>3
    <3>4. d + 1 = d + 1 /\ d + 2 = d + 2 /\ d \in Nat
      BY <1>5, <1>l
    <3>5. t6[d + 1] = "?" /\ t6[d + 2] = "q"
      BY <3>3, <3>4, LiesTwo
    <3> QED
      BY <2>3, <3>2, <3>5, Zenon DEF QueryAt
  <2> QED
    BY <2>1, <2>2, <2>3, Zenon
<1>77. FragmentAt(p, t6, f, n)
  <2>1. fr \in {<<>>, <<"#", "part">>, <<"#", "part", "?", "x">>}
    BY PartsAre
  <2>2. CASE fr = <<>>
    <3>1. Len(fr) = 0
      BY <2>2
    <3>2. n = f
      BY <1>5, <1>l, <3>1
    <3> QED
      BY <2>2, <3>2, Zenon DEF FragmentAt
  <2>3. CASE fr = <<"#", "part">>
    <3>1. Len(fr) = 2
      BY <2>3
    <3>2. n = f + 2
      BY <1>5, <1>l, <3>1
    <3>3. Lies(<<"#", "part">>, t6, f)
      BY <1>61, <1>62, <2>3
    <3>4. f + 1 = f + 1 /\ f + 2 = f + 2 /\ f \in Nat
      BY <1>5, <1>l
    <3>5. t6[f + 1] = "#" /\ t6[f + 2] = "part"
      BY <3>3, <3>4, LiesTwo
    <3> QED
      BY <2>3, <3>2, <3>5, Zenon DEF FragmentAt
  <2>4. CASE fr = <<"#", "part", "?", "x">>
    <3>1. Len(fr) = 4
      BY <2>4
    <3>2. n = f + 4
      BY <1>5, <1>l, <3>1
    <3>3. Lies(<<"#", "part", "?", "x">>, t6, f)
      BY <1>61, <1>62, <2>4
    <3>4. f + 1 = f + 1 /\ f + 2 = f + 2 /\ f + 3 = f + 3 /\ f + 4 = f + 4 /\ f \in Nat
      BY <1>5, <1>l
    <3>5. t6[f + 1] = "#" /\ t6[f + 2] = "part" /\ t6[f + 3] = "?" /\ t6[f + 4] = "x"
      BY <3>3, <3>4, LiesFour
    <3> QED
      BY <2>4, <3>2, <3>5, Zenon DEF FragmentAt
  <2> QED
    BY <2>1, <2>2, <2>3, <2>4, Zenon
<1>78. Laid(p, s, t6, a, b, d, f, n)
  <2>1. a \in Int /\ b \in Int /\ d \in Int /\ f \in Int /\ n \in Int
    BY <1>5
  <2>2. t6[a + 1] = "www"
    BY <1>73, <1>l
  <2> QED
    BY <1>61, <1>71, <1>72, <1>74, <1>75, <1>76, <1>77, <2>1, <2>2, Zenon DEF Laid
<1>79. Filled(p, t6, a, b, d, f, n)
  <2>1. w = a + 1
    BY <1>l
  <2>2. b = a + 1 + Len(po)
    BY <1>l, Zenon
  <2> QED
    BY <1>61, <1>62, <1>l, <2>1, <2>2, Zenon DEF Filled
<1> QED
  <2>1. a \in Int /\ b \in Int /\ d \in Int /\ f \in Int /\ n \in Int
    BY <1>5
  <2> QED
    BY <1>6, <1>78, <1>79, <2>1

-----------------------------------------------------------------------------
(* URLs: What is where                                                     *)

\* What lies in t is what is cut out of it.
LEMMA CutOut ==
    ASSUME NEW S, NEW t \in Seq(S), NEW u \in Seq(S), NEW k \in Nat, Lies(u, t, k),
           NEW i \in Int, NEW j \in Int, i = k + 1, j = k + Len(u)
    PROVE  SubSeq(t, i, j) = u
<1> DEFINE v == SubSeq(t, i, j)
<1>1. Len(t) \in Nat /\ Len(u) \in Nat
  BY LenProperties
<1>2. \A l \in i .. j : t[l] \in S
  <2>1. \A l \in i .. j : l \in 1 .. Len(t)
    BY <1>1 DEF Lies
  <2> QED
    BY <2>1, ElementOfSeq
<1>3. /\ v \in Seq(S) /\ Len(v) = (IF i <= j THEN j - i + 1 ELSE 0)
      /\ \A l \in 1 .. j - i + 1 : v[l] = t[i + l - 1]
  BY <1>2, SubSeqProperties
<1> HIDE DEF v
<1>4. j - i + 1 = Len(u) /\ (IF i <= j THEN j - i + 1 ELSE 0) = Len(u)
  BY <1>1
<1>5. ASSUME NEW l \in 1 .. Len(v) PROVE v[l] = u[l]
  <2>1. l \in 1 .. Len(u) /\ i + l - 1 = k + l
    BY <1>1, <1>3, <1>4
  <2>2. v[l] = t[i + l - 1]
    BY <1>3, <1>4, <2>1
  <2>3. t[k + l] = u[l]
    BY <2>1 DEF Lies
  <2> QED
    BY <2>1, <2>2, <2>3
<1>6. v = u
  <2>1. Len(v) = Len(u)
    BY <1>3, <1>4
  <2> QED
    BY <1>3, <1>5, <2>1, SameSeq
<1> QED
  BY <1>6 DEF v

LEMMA OneCut == ASSUME NEW S, NEW t \in Seq(S), NEW i \in 1 .. Len(t) PROVE SubSeq(t, i, i) = <<t[i]>>
<1> DEFINE k == i - 1
           u == <<t[i]>>
<1>1. Len(t) \in Nat /\ t[i] \in S
  BY LenProperties, ElementOfSeq
<1>2. u \in Seq(S) /\ Len(u) = 1 /\ u[1] = t[i]
  BY <1>1, FewAre
<1>3. k \in Nat /\ i = k + 1 /\ i = k + Len(u) /\ i \in Int
  BY <1>1, <1>2
<1> HIDE DEF u, k
<1>4. Lies(u, t, k)
  BY <1>1, <1>2, <1>3 DEF Lies
<1>5. SubSeq(t, i, i) = u
  BY <1>2, <1>3, <1>4, CutOut
<1> QED
  BY <1>5 DEF u

LEMMA InOrderLaid ==
    ASSUME NEW p, NEW s, NEW t, NEW a, NEW b, NEW d, NEW f, NEW n, Laid(p, s, t, a, b, d, f, n)
    PROVE  /\ a \in Int /\ b \in Int /\ d \in Int /\ f \in Int /\ n \in Int
           /\ 4 <= a /\ a < b /\ b <= d /\ d <= f /\ f <= n /\ Len(t) = n
           /\ \A i \in Int : 1 <= i /\ i <= n => i \in DOMAIN t
  BY LenProperties DEF Laid, LoginAt, PortAt, PathAt, QueryAt, FragmentAt

\* No part but the login has an @, and none of the first has what ends them.
LEMMA AuthorityLetters ==
    ASSUME NEW p, NEW s, NEW t, NEW a, NEW b, NEW d, NEW f, NEW n, Laid(p, s, t, a, b, d, f, n)
    PROVE  \A i \in Int : 5 <= i /\ i <= b => t[i] \notin {"/", "?", "#"}
<1>1. \A w \in DOMAIN Ports : w \notin {"/", "?", "#"}
  BY UrlAssumption DEF Separators
<1>2. \A i \in Int : 5 <= i /\ i <= a => t[i] \notin {"/", "?", "#"}
  BY DEF Laid, LoginAt
<1>3. \A i \in Int : a < i /\ i <= b => t[i] \notin {"/", "?", "#"}
  BY <1>1 DEF Laid, PortAt
<1> QED
  BY <1>2, <1>3 DEF Laid

LEMMA PathLetters ==
    ASSUME NEW p, NEW s, NEW t, NEW a, NEW b, NEW d, NEW f, NEW n, Laid(p, s, t, a, b, d, f, n)
    PROVE  \A i \in Int : b < i /\ i <= d => t[i] \in {"/", "dir", "file"}
  BY SMTT(30) DEF Laid, PathAt

LEMMA QueryLetters ==
    ASSUME NEW p, NEW s, NEW t, NEW a, NEW b, NEW d, NEW f, NEW n, Laid(p, s, t, a, b, d, f, n)
    PROVE  \A i \in Int : d < i /\ i <= f => t[i] \in {"?", "q"}
  BY DEF Laid, QueryAt

LEMMA FragmentLetters ==
    ASSUME NEW p, NEW s, NEW t, NEW a, NEW b, NEW d, NEW f, NEW n, Laid(p, s, t, a, b, d, f, n)
    PROVE  \A i \in Int : f < i /\ i <= n => t[i] \in {"#", "part", "?", "x"}
  BY SMTT(30) DEF Laid, FragmentAt

LEMMA PortLetters ==
    ASSUME NEW p, NEW s, NEW t, NEW a, NEW b, NEW d, NEW f, NEW n, Laid(p, s, t, a, b, d, f, n)
    PROVE  \A i \in Int : a < i /\ i <= b => t[i] \in {"www", ":"} \cup DOMAIN Ports
  BY DEF Laid, PortAt

\* A fragment with a question mark and no query before it is a query too.
PlainUrl(p) == p.fragment \in {<<>>, <<"#", "part">>} \/ p.query # <<>>

LEMMA ColonFound ==
    ASSUME NEW p, NEW s, NEW t, NEW a, NEW b, NEW d, NEW f, NEW n, Laid(p, s, t, a, b, d, f, n)
    PROVE  Find(t, ":", 1) = 2
<1>1. FreeOf(t, ":", 1, 2) /\ t[2] = ":"
  BY DEF FreeOf, Laid, SchemeAt, Separators
<1>2. Len(t) \in Nat /\ 2 <= Len(t)
  BY InOrderLaid
<1> QED
  BY <1>1, <1>2, PlaceFound

\* A URL with a scheme stays as it is.
LEMMA PrefixStays ==
    ASSUME NEW t \in Seq(Words), Len(t) \in Nat, 4 <= Len(t),
           t[1] \notin {":", "/"}, t[2] = ":", t[3] = "/", t[4] = "/"
    PROVE  Rewritten(t) = t
<1> DEFINE stops == {i \in DOMAIN t : t[i] \in {":", "/"}}
           q == IF stops = {} THEN Len(t) + 1 ELSE CHOOSE i \in stops : \A j \in stops : i <= j
<1>1. t[1] \notin {":", "/"} /\ t[2] = ":" /\ t[3] = "/" /\ t[4] = "/"
  OBVIOUS
<1>2. 1 \in DOMAIN t /\ 2 \in DOMAIN t /\ 3 \in DOMAIN t /\ 4 \in DOMAIN t /\ DOMAIN t \subseteq Nat \ {0}
  <2>1. DOMAIN t = 1 .. Len(t)
    BY LenProperties
  <2> QED
    BY <2>1
<1>3. 2 \in stops /\ \A j \in stops : 2 <= j
  BY <1>1, <1>2
<1>4. \A i \in stops : (\A j \in stops : i <= j) => i = 2
  BY <1>2, <1>3
<1>5. stops # {}
  BY <1>3
<1> HIDE DEF stops
<1>6. (CHOOSE i \in stops : \A j \in stops : i <= j) = 2
  BY <1>3, <1>4
<1>7. q = 2
  BY <1>5, <1>6
<1>8. CharAt(t, 2) = ":" /\ CharAt(t, 2 + 1) = "/" /\ CharAt(t, 2 + 2) = "/"
  BY <1>1, <1>2 DEF CharAt
<1> HIDE DEF q
<1>9. q = 1 \/ (CharAt(t, q) = ":" /\ CharAt(t, q + 1) = "/" /\ CharAt(t, q + 2) = "/")
  BY <1>7, <1>8
<1> QED
  BY <1>9 DEF Rewritten, q, stops

LEMMA NotRewritten ==
    ASSUME NEW p, NEW s, NEW t, NEW a, NEW b, NEW d, NEW f, NEW n, Laid(p, s, t, a, b, d, f, n)
    PROVE  Rewritten(t) = t
<1>1. t[1] \notin {":", "/"} /\ t[2] = ":" /\ t[3] = "/" /\ t[4] = "/"
  BY DEF Laid, SchemeAt, Separators
<1>2. t \in Seq(Words)
  BY DEF Laid
<1>3. Len(t) \in Nat /\ 4 <= Len(t)
  BY InOrderLaid
<1> QED
  BY <1>1, <1>2, <1>3, PrefixStays

LEMMA SchemeFound ==
    ASSUME NEW p, NEW s, NEW t, NEW a, NEW b, NEW d, NEW f, NEW n, Laid(p, s, t, a, b, d, f, n)
    PROVE  SchemeOf(t) = [scheme |-> <<s>>, s |-> 5, host |-> TRUE, port |-> 0]
<1>1. Find(t, ":", 1) = 2
  BY ColonFound
<1>2. t[3] = "/" /\ t[4] = "/" /\ t[1] = s /\ t[5] \in {"me", "www"}
  BY DEF Laid, SchemeAt, LoginAt
<1>3. t \in Seq(Words) /\ 1 <= Len(t) /\ 1 \in DOMAIN t /\ 3 \in DOMAIN t /\ 4 \in DOMAIN t /\ 5 \in DOMAIN t
  <2>1. t \in Seq(Words) /\ Len(t) = n /\ DOMAIN t = 1 .. Len(t) /\ n \in Int
    BY LenProperties DEF Laid
  <2>2. 5 <= n
    BY InOrderLaid
  <2> QED
    BY <2>1, <2>2
<1>4. CharAt(t, 2 + 1) = "/" /\ CharAt(t, 2 + 2) = "/" /\ CharAt(t, 2 + 3) # "/"
  BY <1>2, <1>3 DEF CharAt
<1>5. SubSeq(t, 1, 2 - 1) = <<s>>
  <2>1. t[1] \in Words /\ Len(t) \in Nat
    BY <1>3, ElementOfSeq, LenProperties
  <2>2. SubSeq(t, 1, 1) = <<t[1]>>
    BY <1>3, <2>1, OneCut
  <2> QED
    BY <1>2, <2>2
<1> QED
  <2>1. 2 # 0 /\ 2 # 1 /\ 2 + 3 = 5
    OBVIOUS
  <2> HIDE DEF CharAt
  <2> QED
    BY <1>1, <1>4, <1>5, <2>1 DEF SchemeOf

-----------------------------------------------------------------------------
(* URLs: The authority                                                     *)

LEMMA FirstLetters ==
    ASSUME NEW p, NEW s, NEW t, NEW a, NEW b, NEW d, NEW f, NEW n, Laid(p, s, t, a, b, d, f, n)
    PROVE  /\ d > b => t[b + 1] = "/"
           /\ f > d => t[d + 1] = "?"
           /\ n > f => t[f + 1] = "#"
           /\ PlainUrl(p) /\ f = d => \A i \in Int : f < i /\ i <= n => t[i] \in {"#", "part"}
<1>1. d > b => t[b + 1] = "/"
  BY DEF Laid, PathAt
<1>2. f > d => t[d + 1] = "?"
  BY DEF Laid, QueryAt
<1>3. n > f => t[f + 1] = "#"
  BY DEF Laid, FragmentAt
<1>4. ASSUME PlainUrl(p), f = d PROVE \A i \in Int : f < i /\ i <= n => t[i] \in {"#", "part"}
  <2>1. p.query = <<>>
    BY <1>4 DEF Laid, QueryAt
  <2>2. p.fragment \in {<<>>, <<"#", "part">>}
    BY <1>4, <2>1, Zenon DEF PlainUrl
  <2>3. <<"#", "part">> # <<"#", "part", "?", "x">> /\ <<>> # <<"#", "part", "?", "x">>
    <3>1. Len(<<"#", "part">>) = 2 /\ Len(<<"#", "part", "?", "x">>) = 4 /\ Len(<<>>) = 0
      OBVIOUS
    <3> QED
      BY <3>1
  <2>4. n = f \/ (n = f + 2 /\ t[f + 1] = "#" /\ t[f + 2] = "part")
    BY <2>2, <2>3, Zenon DEF Laid, FragmentAt
  <2> QED
    BY <2>4 DEF Laid
<1> QED
  BY <1>1, <1>2, <1>3, <1>4

LEMMA SlashFound ==
    ASSUME NEW p, NEW s, NEW t, NEW a, NEW b, NEW d, NEW f, NEW n, Laid(p, s, t, a, b, d, f, n)
    PROVE  Find(t, "/", 5) = IF d > b THEN b + 1 ELSE 0
<1>1. /\ a \in Int /\ b \in Int /\ d \in Int /\ f \in Int /\ n \in Int
      /\ 4 <= a /\ a < b /\ b <= d /\ d <= f /\ f <= n /\ Len(t) = n
  BY InOrderLaid
<1>2. FreeOf(t, "/", 5, b + 1)
  BY <1>1, AuthorityLetters DEF FreeOf
<1>3. CASE d > b
  <2>1. t[b + 1] = "/"
    BY <1>3, FirstLetters
  <2>2. Find(t, "/", 5) = b + 1
    BY <1>1, <1>2, <1>3, <2>1, PlaceFound
  <2> QED
    BY <1>3, <2>2
<1>4. CASE ~ (d > b)
  <2>1. d = b
    BY <1>1, <1>4
  <2>2. \A i \in Int : b < i /\ i <= n => t[i] # "/"
    <3>1. \A i \in Int : b < i /\ i <= f => t[i] # "/"
      BY <2>1, QueryLetters
    <3>2. \A i \in Int : f < i /\ i <= n => t[i] # "/"
      BY FragmentLetters
    <3> QED
      BY <1>1, <3>1, <3>2
  <2>3. FreeOf(t, "/", 5, n + 1)
    BY <1>1, <1>2, <2>2 DEF FreeOf
  <2>4. Find(t, "/", 5) = 0
    BY <1>1, <2>3, PlaceNone
  <2> QED
    BY <1>4, <2>4
<1> QED
  BY <1>3, <1>4

LEMMA QuestionFound ==
    ASSUME NEW p, NEW s, NEW t, NEW a, NEW b, NEW d, NEW f, NEW n, Laid(p, s, t, a, b, d, f, n),
           PlainUrl(p), NEW x \in Int, 5 <= x, x <= b + 1
    PROVE  Find(t, "?", x) = IF f > d THEN d + 1 ELSE 0
<1>1. /\ a \in Int /\ b \in Int /\ d \in Int /\ f \in Int /\ n \in Int
      /\ 4 <= a /\ a < b /\ b <= d /\ d <= f /\ f <= n /\ Len(t) = n
  BY InOrderLaid
<1>2. FreeOf(t, "?", x, d + 1)
  <2>1. \A i \in Int : 5 <= i /\ i <= b => t[i] # "?"
    BY AuthorityLetters
  <2>2. \A i \in Int : b < i /\ i <= d => t[i] # "?"
    BY PathLetters
  <2> QED
    BY <1>1, <2>1, <2>2 DEF FreeOf
<1>3. CASE f > d
  <2>1. t[d + 1] = "?"
    BY <1>3, FirstLetters
  <2>2. Find(t, "?", x) = d + 1
    BY <1>1, <1>2, <1>3, <2>1, PlaceFound
  <2> QED
    BY <1>3, <2>2
<1>4. CASE ~ (f > d)
  <2>1. f = d
    BY <1>1, <1>4
  <2>2. \A i \in Int : f < i /\ i <= n => t[i] # "?"
    <3>1. \A i \in Int : f < i /\ i <= n => t[i] \in {"#", "part"}
      BY <2>1, FirstLetters
    <3> QED
      BY <3>1
  <2>3. FreeOf(t, "?", x, n + 1)
    BY <1>1, <1>2, <2>1, <2>2 DEF FreeOf
  <2>4. Find(t, "?", x) = 0
    BY <1>1, <2>3, PlaceNone
  <2> QED
    BY <1>4, <2>4
<1> QED
  BY <1>3, <1>4

LEMMA HashFound ==
    ASSUME NEW p, NEW s, NEW t, NEW a, NEW b, NEW d, NEW f, NEW n, Laid(p, s, t, a, b, d, f, n),
           NEW x \in Int, 5 <= x, x <= b + 1
    PROVE  Find(t, "#", x) = IF n > f THEN f + 1 ELSE 0
<1>1. /\ a \in Int /\ b \in Int /\ d \in Int /\ f \in Int /\ n \in Int
      /\ 4 <= a /\ a < b /\ b <= d /\ d <= f /\ f <= n /\ Len(t) = n
  BY InOrderLaid
<1>2. FreeOf(t, "#", x, f + 1)
  <2>1. \A i \in Int : 5 <= i /\ i <= b => t[i] # "#"
    BY AuthorityLetters
  <2>2. \A i \in Int : b < i /\ i <= d => t[i] # "#"
    BY PathLetters
  <2>3. \A i \in Int : d < i /\ i <= f => t[i] # "#"
    BY QueryLetters
  <2> QED
    BY <1>1, <2>1, <2>2, <2>3 DEF FreeOf
<1>3. CASE n > f
  <2>1. t[f + 1] = "#"
    BY <1>3, FirstLetters
  <2>2. Find(t, "#", x) = f + 1
    BY <1>1, <1>2, <1>3, <2>1, PlaceFound
  <2> QED
    BY <1>3, <2>2
<1>4. CASE ~ (n > f)
  <2>1. n = f
    BY <1>1, <1>4
  <2>4. Find(t, "#", x) = 0
    BY <1>1, <1>2, <2>1, PlaceNone
  <2> QED
    BY <1>4, <2>4
<1> QED
  BY <1>3, <1>4

LEMMA AuthorityEnds ==
    ASSUME NEW p, NEW s, NEW t, NEW a, NEW b, NEW d, NEW f, NEW n, Laid(p, s, t, a, b, d, f, n), PlainUrl(p)
    PROVE  AuthorityEnd(t, 5) = b + 1
<1>1. /\ a \in Int /\ b \in Int /\ d \in Int /\ f \in Int /\ n \in Int
      /\ 4 <= a /\ a < b /\ b <= d /\ d <= f /\ f <= n /\ Len(t) = n
  BY InOrderLaid
<1>2. Find(t, "/", 5) = (IF d > b THEN b + 1 ELSE 0)
  BY SlashFound
<1>3. 5 \in Int /\ 5 <= 5 /\ 5 <= b + 1
  BY <1>1
<1>4. Find(t, "?", 5) = (IF f > d THEN d + 1 ELSE 0)
  BY <1>3, QuestionFound
<1>5. Find(t, "#", 5) = (IF n > f THEN f + 1 ELSE 0)
  BY <1>3, HashFound
<1> QED
  BY <1>1, <1>2, <1>4, <1>5 DEF AuthorityEnd

LEMMA AtFound ==
    ASSUME NEW p, NEW s, NEW t, NEW a, NEW b, NEW d, NEW f, NEW n, Laid(p, s, t, a, b, d, f, n)
    PROVE  Find(t, "@", 5) = IF a > 4 THEN a ELSE 0
<1>1. /\ a \in Int /\ b \in Int /\ d \in Int /\ f \in Int /\ n \in Int
      /\ 4 <= a /\ a < b /\ b <= d /\ d <= f /\ f <= n /\ Len(t) = n
  BY InOrderLaid
<1>2. \A w \in DOMAIN Ports : w # "@"
  BY UrlAssumption DEF Separators
<1>3. CASE a > 4
  <2>1. FreeOf(t, "@", 5, a) /\ t[a] = "@"
    BY <1>3 DEF Laid, LoginAt, FreeOf
  <2>2. Find(t, "@", 5) = a
    BY <1>1, <1>3, <2>1, PlaceFound
  <2> QED
    BY <1>3, <2>2
<1>4. CASE ~ (a > 4)
  <2>1. a = 4
    BY <1>1, <1>4
  <2>2. \A i \in Int : a < i /\ i <= b => t[i] # "@"
    BY <1>2, PortLetters
  <2>3. \A i \in Int : b < i /\ i <= d => t[i] # "@"
    BY PathLetters
  <2>4. \A i \in Int : d < i /\ i <= f => t[i] # "@"
    BY QueryLetters
  <2>5. \A i \in Int : f < i /\ i <= n => t[i] # "@"
    BY FragmentLetters
  <2>6. FreeOf(t, "@", 5, n + 1)
    BY <1>1, <2>1, <2>2, <2>3, <2>4, <2>5 DEF FreeOf
  <2>7. Find(t, "@", 5) = 0
    BY <1>1, <2>6, PlaceNone
  <2> QED
    BY <1>4, <2>7
<1> QED
  BY <1>3, <1>4

\* Only a login with a password has a colon before its @.
LEMMA PassFound ==
    ASSUME NEW p, NEW s, NEW t, NEW a, NEW b, NEW d, NEW f, NEW n, Laid(p, s, t, a, b, d, f, n), a > 4
    PROVE  LET c == Find(t, ":", 5) IN IF a = 8 THEN c = 6 ELSE a = 6 /\ ~ (c > 0 /\ c < a)
<1>1. /\ a \in Int /\ b \in Int /\ d \in Int /\ f \in Int /\ n \in Int
      /\ 4 <= a /\ a < b /\ b <= d /\ d <= f /\ f <= n /\ Len(t) = n
  BY InOrderLaid
<1>2. a = 6 \/ a = 8
  BY DEF Laid, LoginAt
<1>3. CASE a = 8
  <2>1. FreeOf(t, ":", 5, 6) /\ t[6] = ":"
    BY <1>3 DEF Laid, LoginAt, FreeOf
  <2>2. Find(t, ":", 5) = 6
    BY <1>1, <1>3, <2>1, PlaceFound
  <2> QED
    BY <1>3, <2>2
<1>4. CASE a = 6
  <2>1. t[5] # ":" /\ t[6] # ":"
    BY <1>4 DEF Laid, LoginAt
  <2> DEFINE at == {i \in 5 .. Len(t) : t[i] = ":"}
  <2>2. \A i \in at : i >= a
    BY <1>1, <1>4, <2>1
  <2>3. at # {} => (CHOOSE i \in at : \A j \in at : i <= j) \in at
    <3>1. ASSUME at # {} PROVE \E i \in at : \A j \in at : i <= j
      <4>1. at \subseteq 0 .. n /\ n \in Nat
        BY <1>1
      <4> HIDE DEF at
      <4> QED
        BY <3>1, <4>1, Least
    <3> HIDE DEF at
    <3> QED
      BY <3>1
  <2>4. Find(t, ":", 5) = (IF at = {} THEN 0 ELSE CHOOSE i \in at : \A j \in at : i <= j)
    BY DEF Find
  <2> HIDE DEF at
  <2>5. ~ (Find(t, ":", 5) > 0 /\ Find(t, ":", 5) < a)
    <3>1. CASE at = {}
      <4>1. Find(t, ":", 5) = 0
        BY <2>4, <3>1
      <4> QED
        BY <4>1
    <3>2. CASE at # {}
      <4>1. Find(t, ":", 5) \in at
        BY <2>3, <2>4, <3>2
      <4>2. Find(t, ":", 5) >= a
        BY <2>2, <4>1
      <4>3. Find(t, ":", 5) \in Int
        BY <1>1, <4>1 DEF at
      <4> QED
        BY <1>1, <4>2, <4>3
    <3> QED
      BY <3>1, <3>2
  <2> QED
    BY <1>4, <2>5
<1> QED
  BY <1>2, <1>3, <1>4

LEMMA PortFound ==
    ASSUME NEW p, NEW s, NEW t, NEW a, NEW b, NEW d, NEW f, NEW n, Laid(p, s, t, a, b, d, f, n)
    PROVE  FindLast(t, ":", a + 1, b) = IF b > a + 1 THEN a + 2 ELSE 0
<1>1. /\ a \in Int /\ b \in Int /\ d \in Int /\ f \in Int /\ n \in Int
      /\ 4 <= a /\ a < b /\ b <= d /\ d <= f /\ f <= n /\ Len(t) = n
  BY InOrderLaid
<1>2. t[a + 1] # ":"
  BY DEF Laid
<1>3. CASE b > a + 1
  <2>1. b = a + 3 /\ t[a + 2] = ":" /\ t[a + 3] \in DOMAIN Ports
    BY <1>1, <1>3 DEF Laid, PortAt
  <2>2. t[a + 3] # ":"
    BY <2>1, UrlAssumption DEF Separators
  <2>3. a + 1 \in Int /\ a + 2 \in Int /\ a + 3 \in Int /\ a + 3 = (a + 2) + 1 /\ a + 1 <= a + 2 /\ a + 2 <= b
    BY <1>1, <2>1
  <2>4. FreeOf(t, ":", a + 3, b + 1)
    BY <1>1, <2>1, <2>2 DEF FreeOf
  <2>5. FindLast(t, ":", a + 1, b) = a + 2
    BY <1>1, <2>1, <2>3, <2>4, LastPlaceFound
  <2> QED
    BY <1>3, <2>5
<1>4. CASE ~ (b > a + 1)
  <2>1. b = a + 1
    BY <1>1, <1>4
  <2>2. FreeOf(t, ":", a + 1, b + 1)
    BY <1>1, <1>2, <2>1 DEF FreeOf
  <2>3. FindLast(t, ":", a + 1, b) = 0
    BY <1>1, <2>2, LastPlaceNone
  <2> QED
    BY <1>4, <2>3
<1> QED
  BY <1>3, <1>4

\* What Parse makes of the authority.
Login(p) == IF p.login = <<>> THEN NULL ELSE <<"me">>
Secret(p) == IF Len(p.login) = 4 THEN <<"secret">> ELSE NULL
PortOf(p) == IF p.port = <<>> THEN 0 ELSE Port16(Ports[p.port[2]])

AuthorityOf(u, p) ==
    [u EXCEPT !.user = Login(p), !.pass = Secret(p), !.host = <<"www">>, !.port = PortOf(p)]

\* What is known of u before.
NoAuthority(u) == u.ok = TRUE /\ u.user = NULL /\ u.pass = NULL /\ u.port = 0

LEMMA LoginRead ==
    ASSUME NEW p, NEW s, NEW t, NEW a, NEW b, NEW d, NEW f, NEW n, Laid(p, s, t, a, b, d, f, n)
    PROVE  /\ a > 4 <=> p.login # <<>>
           /\ a = 8 <=> Len(p.login) = 4
           /\ a = 6 => Piece(t, 5, a - 1) = <<"me">>
           /\ a = 8 => Piece(t, 5, 6 - 1) = <<"me">> /\ Piece(t, 6 + 1, a - 1) = <<"secret">>
<1>1. /\ a \in Int /\ b \in Int /\ d \in Int /\ f \in Int /\ n \in Int
      /\ 4 <= a /\ a < b /\ b <= d /\ d <= f /\ f <= n /\ Len(t) = n
  BY InOrderLaid
<1>2. t \in Seq(Words)
  BY DEF Laid
<1>3. Len(<<>>) = 0 /\ Len(<<"me", "@">>) = 2 /\ Len(<<"me", ":", "secret", "@">>) = 4
  OBVIOUS
<1>4. CASE a = 4
  <2>1. p.login = <<>>
    BY <1>4 DEF Laid, LoginAt
  <2> QED
    BY <1>3, <1>4, <2>1
<1>5. CASE a = 6
  <2>1. p.login = <<"me", "@">> /\ t[5] = "me"
    BY <1>5 DEF Laid, LoginAt
  <2>2. 5 \in 1 .. Len(t)
    BY <1>1, <1>5
  <2>3. SubSeq(t, 5, 5) = <<t[5]>>
    BY <1>2, <2>2, OneCut
  <2>4. Piece(t, 5, 5) = <<"me">>
    BY <2>1, <2>3 DEF Piece
  <2>5. p.login # <<>> /\ Len(p.login) # 4
    BY <1>3, <2>1
  <2> QED
    BY <1>5, <2>4, <2>5
<1>6. CASE a = 8
  <2>1. p.login = <<"me", ":", "secret", "@">> /\ t[5] = "me" /\ t[7] = "secret"
    BY <1>6 DEF Laid, LoginAt
  <2>2. 5 \in 1 .. Len(t) /\ 7 \in 1 .. Len(t)
    BY <1>1, <1>6
  <2>3. SubSeq(t, 5, 5) = <<t[5]>> /\ SubSeq(t, 7, 7) = <<t[7]>>
    BY <1>2, <2>2, OneCut
  <2>4. Piece(t, 5, 5) = <<"me">> /\ Piece(t, 7, 7) = <<"secret">>
    BY <2>1, <2>3 DEF Piece
  <2>5. p.login # <<>> /\ Len(p.login) = 4
    BY <1>3, <2>1
  <2> QED
    BY <1>6, <2>4, <2>5
<1>7. a = 4 \/ a = 6 \/ a = 8
  BY DEF Laid, LoginAt
<1> QED
  BY <1>4, <1>5, <1>6, <1>7

LEMMA PortRead ==
    ASSUME NEW p, NEW s, NEW t, NEW a, NEW b, NEW d, NEW f, NEW n, Laid(p, s, t, a, b, d, f, n)
    PROVE  /\ SubSeq(t, a + 1, a + 1) = <<"www">>
           /\ b > a + 1 => IsNumber(t, (a + 2) + 1) /\ Port16(Ports[t[(a + 2) + 1]]) = PortOf(p)
           /\ ~ (b > a + 1) => PortOf(p) = 0 /\ b = a + 1
<1>1. /\ a \in Int /\ b \in Int /\ d \in Int /\ f \in Int /\ n \in Int
      /\ 4 <= a /\ a < b /\ b <= d /\ d <= f /\ f <= n /\ Len(t) = n
  BY InOrderLaid
<1>2. t \in Seq(Words) /\ t[a + 1] = "www"
  BY DEF Laid
<1>3. SubSeq(t, a + 1, a + 1) = <<t[a + 1]>>
  <2>1. a + 1 \in 1 .. Len(t)
    BY <1>1
  <2> QED
    BY <1>2, <2>1, OneCut
<1>4. ASSUME b > a + 1 PROVE IsNumber(t, (a + 2) + 1) /\ Port16(Ports[t[(a + 2) + 1]]) = PortOf(p)
  <2>1. b = a + 3 /\ t[a + 3] \in DOMAIN Ports /\ p.port = <<":", t[a + 3]>>
    BY <1>1, <1>4 DEF Laid, PortAt
  <2>2. (a + 2) + 1 = a + 3 /\ a + 3 \in DOMAIN t
    BY <1>1, <2>1, InOrderLaid
  <2>3. IsNumber(t, a + 3)
    BY <2>1, <2>2 DEF IsNumber, CharAt
  <2>4. p.port # <<>> /\ p.port[2] = t[a + 3]
    <3>1. Len(<<":", t[a + 3]>>) = 2 /\ Len(<<>>) = 0 /\ <<":", t[a + 3]>>[2] = t[a + 3]
      OBVIOUS
    <3> QED
      BY <2>1, <3>1
  <2>5. PortOf(p) = Port16(Ports[t[a + 3]])
    BY <2>4, Zenon DEF PortOf
  <2> QED
    BY <2>2, <2>3, <2>5
<1>5. ASSUME ~ (b > a + 1) PROVE PortOf(p) = 0 /\ b = a + 1
  <2>1. b = a + 1
    BY <1>1, <1>5
  <2>2. p.port = <<>>
    BY <1>1, <2>1 DEF Laid, PortAt
  <2> QED
    BY <2>1, <2>2 DEF PortOf
<1> QED
  BY <1>2, <1>3, <1>4, <1>5

LEMMA AuthorityRead ==
    ASSUME NEW p, NEW s, NEW t, NEW a, NEW b, NEW d, NEW f, NEW n, Laid(p, s, t, a, b, d, f, n),
           NEW u, NoAuthority(u)
    PROVE  WithAuthority(u, t, 5, b + 1) = AuthorityOf(u, p)
<1>1. /\ a \in Int /\ b \in Int /\ d \in Int /\ f \in Int /\ n \in Int
      /\ 4 <= a /\ a < b /\ b <= d /\ d <= f /\ f <= n /\ Len(t) = n
  BY InOrderLaid
<1> DEFINE q == Find(t, "@", 5)
           login == q > 0 /\ q < b + 1
           pp == Find(t, ":", 5)
           both == login /\ pp > 0 /\ pp < q
           st == IF login THEN q + 1 ELSE 5
           c == FindLast(t, ":", st, (b + 1) - 1)
           hostEnd == IF c > 0 THEN c - 1 ELSE (b + 1) - 1
           user == IF both THEN Piece(t, 5, pp - 1) ELSE IF login THEN Piece(t, 5, q - 1) ELSE u.user
           pass == IF both THEN Piece(t, pp + 1, q - 1) ELSE u.pass
           host == SubSeq(t, st, hostEnd)
           port == IF u.port = 0 /\ c > 0 /\ IsNumber(t, c + 1) THEN Port16(Ports[t[c + 1]]) ELSE u.port
<1>2. WithAuthority(u, t, 5, b + 1) =
          IF st > hostEnd THEN [u EXCEPT !.ok = FALSE]
          ELSE [u EXCEPT !.user = user, !.pass = pass, !.host = host, !.port = port]
  BY Zenon DEF WithAuthority
<1>3. q = (IF a > 4 THEN a ELSE 0)
  BY AtFound
<1>4. st = a + 1 /\ (login <=> a > 4)
  <2> HIDE DEF q
  <2> QED
    BY <1>1, <1>3
<1>5. a > 4 => IF a = 8 THEN pp = 6 ELSE a = 6 /\ ~ (pp > 0 /\ pp < a)
  BY PassFound
<1>6. both <=> a = 8
  <2> HIDE DEF pp, q, login
  <2> QED
    BY <1>1, <1>3, <1>4, <1>5
<1>7. c = (IF b > a + 1 THEN a + 2 ELSE 0)
  <2>1. (b + 1) - 1 = b
    BY <1>1
  <2> HIDE DEF st
  <2> QED
    BY <1>4, <2>1, PortFound
<1>8. hostEnd = a + 1
  <2>1. ~ (b > a + 1) => b = a + 1
    BY <1>1
  <2> HIDE DEF c
  <2> QED
    BY <1>1, <1>7, <2>1
<1>9. user = Login(p) /\ pass = Secret(p)
  <2>1. /\ a > 4 <=> p.login # <<>>
        /\ a = 8 <=> Len(p.login) = 4
        /\ a = 6 => Piece(t, 5, a - 1) = <<"me">>
        /\ a = 8 => Piece(t, 5, 6 - 1) = <<"me">> /\ Piece(t, 6 + 1, a - 1) = <<"secret">>
    BY LoginRead
  <2>2. u.user = NULL /\ u.pass = NULL
    BY DEF NoAuthority
  <2>3. a = 4 \/ a = 6 \/ a = 8
    BY DEF Laid, LoginAt
  <2> HIDE DEF q, pp, both, login
  <2>4. CASE a = 4
    <3>1. ~ both /\ ~ login
      BY <1>4, <1>6, <2>4
    <3>2. ~ (a > 4) /\ a # 8
      BY <2>4
    <3> QED
      BY <2>1, <2>2, <3>1, <3>2, Zenon DEF Login, Secret
  <2>5. CASE a = 6
    <3>1. ~ both /\ login /\ q = a /\ a > 4 /\ a # 8
      BY <1>3, <1>4, <1>6, <2>5
    <3> QED
      BY <2>1, <2>2, <2>5, <3>1, Zenon DEF Login, Secret
  <2>6. CASE a = 8
    <3>1. both /\ q = a /\ pp = 6 /\ a > 4
      BY <1>3, <1>4, <1>5, <1>6, <2>6
    <3> QED
      BY <2>1, <2>6, <3>1, Zenon DEF Login, Secret
  <2> QED
    BY <2>3, <2>4, <2>5, <2>6
<1>10. host = <<"www">>
  <2> HIDE DEF st, hostEnd
  <2> QED
    BY <1>4, <1>8, PortRead
<1>11. port = PortOf(p)
  <2>1. u.port = 0
    BY DEF NoAuthority
  <2>2. /\ b > a + 1 => IsNumber(t, (a + 2) + 1) /\ Port16(Ports[t[(a + 2) + 1]]) = PortOf(p)
        /\ ~ (b > a + 1) => PortOf(p) = 0 /\ b = a + 1
    BY PortRead
  <2> HIDE DEF c
  <2>3. CASE b > a + 1
    <3>1. c = a + 2 /\ c > 0
      BY <1>1, <1>7, <2>3
    <3> QED
      BY <2>1, <2>2, <2>3, <3>1, Zenon
  <2>4. CASE ~ (b > a + 1)
    <3>1. ~ (c > 0)
      BY <1>7, <2>4
    <3> QED
      BY <2>1, <2>2, <2>4, <3>1, Zenon
  <2> QED
    BY <2>3, <2>4
<1>12. ~ (st > hostEnd)
  <2> HIDE DEF st, hostEnd
  <2> QED
    BY <1>1, <1>4, <1>8
<1> HIDE DEF st, hostEnd, user, pass, host, port
<1> QED
  BY <1>2, <1>9, <1>10, <1>11, <1>12, Zenon DEF AuthorityOf

-----------------------------------------------------------------------------
(* URLs: Path, query and fragment                                          *)

\* The place of a part is what is in it.
LEMMA PartCut ==
    ASSUME NEW t \in Seq(Words), NEW u \in Seq(Words), NEW k \in Int, NEW l \in Int,
           0 <= k, Lies(u, t, k), l = k + Len(u)
    PROVE  /\ l > k => SubSeq(t, k + 1, l) = After(u, 0) /\ After(u, 0) = u
           /\ l > k + 1 => SubSeq(t, k + 2, l) = After(u, 1)
           /\ l = k => After(u, 0) = NULL /\ After(u, 1) = NULL
<1>1. Len(t) \in Nat /\ Len(u) \in Nat /\ k \in Nat
  BY LenProperties
<1>2. SubSeq(t, k + 1, l) = u
  <2>1. k + 1 \in Int
    OBVIOUS
  <2> QED
    BY <1>1, <2>1, CutOut
<1>3. Lies(u, u, 0)
  BY <1>1 DEF Lies
<1>4. SubSeq(u, 0 + 1, Len(u)) = u
  <2>1. 0 + 1 \in Int /\ Len(u) = 0 + Len(u) /\ 0 \in Nat /\ Len(u) \in Int
    BY <1>1
  <2> QED
    BY <1>3, <2>1, CutOut
<1>5. ASSUME l > k PROVE SubSeq(t, k + 1, l) = After(u, 0) /\ After(u, 0) = u
  <2>1. Len(u) > 0
    BY <1>1, <1>5
  <2>2. After(u, 0) = u
    BY <1>4, <2>1 DEF After
  <2> QED
    BY <1>2, <2>2
<1>6. ASSUME l > k + 1 PROVE SubSeq(t, k + 2, l) = After(u, 1)
  <2>1. Len(u) > 1
    BY <1>1, <1>6
  <2> DEFINE i == k + 2
  <2>2. i \in Int /\ 1 <= i /\ l <= Len(t) /\ 1 <= i - k /\ l - k <= Len(u) /\ i - k = 1 + 1 /\ l - k = Len(u)
    BY <1>1 DEF Lies
  <2>3. \A j \in i .. l : t[j] = u[j - k]
    <3>1. ASSUME NEW j \in i .. l PROVE t[j] = u[j - k]
      <4>1. j - k \in 1 .. Len(u) /\ k + (j - k) = j
        BY <1>1
      <4>2. t[k + (j - k)] = u[j - k]
        BY <4>1 DEF Lies
      <4> QED
        BY <4>1, <4>2
    <3> QED
      BY <3>1
  <2> HIDE DEF i
  <2>4. SubSeq(t, i, l) = SubSeq(u, i - k, l - k)
    BY <2>2, <2>3, SameSubSeq
  <2>5. SubSeq(t, i, l) = SubSeq(u, 1 + 1, Len(u))
    BY <2>2, <2>4
  <2> QED
    BY <2>1, <2>5 DEF After, i
<1>7. ASSUME l = k PROVE After(u, 0) = NULL /\ After(u, 1) = NULL
  <2>1. Len(u) = 0
    BY <1>1, <1>7
  <2> QED
    BY <2>1 DEF After
<1> QED
  BY <1>5, <1>6, <1>7

\* Where the parts of p are, and what is in them.
LEMMA PartsCut ==
    ASSUME NEW p \in PartsSet, NEW s, NEW t, NEW a, NEW b, NEW d, NEW f, NEW n,
           Laid(p, s, t, a, b, d, f, n), Filled(p, t, a, b, d, f, n)
    PROVE  /\ d > b => SubSeq(t, b + 1, d) = After(p.path, 0) /\ After(p.path, 0) = p.path
           /\ d = b => After(p.path, 0) = NULL
           /\ f > d => SubSeq(t, d + 2, f) = After(p.query, 1) /\ d + 2 <= f
           /\ f = d => After(p.query, 1) = NULL
           /\ n > f => SubSeq(t, f + 2, n) = After(p.fragment, 1) /\ f + 2 <= n
           /\ n = f => After(p.fragment, 1) = NULL
<1>1. /\ a \in Int /\ b \in Int /\ d \in Int /\ f \in Int /\ n \in Int
      /\ 4 <= a /\ a < b /\ b <= d /\ d <= f /\ f <= n /\ Len(t) = n
  BY InOrderLaid
<1>2. t \in Seq(Words) /\ p.path \in Seq(Words) /\ p.query \in Seq(Words) /\ p.fragment \in Seq(Words)
  BY PartsWords DEF Laid
<1>3. f = d \/ f = d + 2
  BY DEF Laid, QueryAt
<1>4. n = f \/ n = f + 2 \/ n = f + 4
  BY DEF Laid, FragmentAt
<1>5. /\ Lies(p.path, t, b) /\ d = b + Len(p.path)
      /\ Lies(p.query, t, d) /\ f = d + Len(p.query)
      /\ Lies(p.fragment, t, f) /\ n = f + Len(p.fragment)
  BY DEF Filled
<1>6. 0 <= b /\ 0 <= d /\ 0 <= f
  BY <1>1
<1>7. /\ d > b => SubSeq(t, b + 1, d) = After(p.path, 0) /\ After(p.path, 0) = p.path
      /\ d > b + 1 => SubSeq(t, b + 2, d) = After(p.path, 1)
      /\ d = b => After(p.path, 0) = NULL /\ After(p.path, 1) = NULL
  <2>1. /\ t \in Seq(Words) /\ p.path \in Seq(Words) /\ b \in Int /\ d \in Int
        /\ 0 <= b /\ Lies(p.path, t, b) /\ d = b + Len(p.path)
    BY <1>1, <1>2, <1>5, <1>6, Zenon
  <2> QED
    BY <2>1, PartCut
<1>8. /\ f > d => SubSeq(t, d + 1, f) = After(p.query, 0) /\ After(p.query, 0) = p.query
      /\ f > d + 1 => SubSeq(t, d + 2, f) = After(p.query, 1)
      /\ f = d => After(p.query, 0) = NULL /\ After(p.query, 1) = NULL
  <2>1. /\ t \in Seq(Words) /\ p.query \in Seq(Words) /\ d \in Int /\ f \in Int
        /\ 0 <= d /\ Lies(p.query, t, d) /\ f = d + Len(p.query)
    BY <1>1, <1>2, <1>5, <1>6, Zenon
  <2> QED
    BY <2>1, PartCut
<1>9. /\ n > f => SubSeq(t, f + 1, n) = After(p.fragment, 0) /\ After(p.fragment, 0) = p.fragment
      /\ n > f + 1 => SubSeq(t, f + 2, n) = After(p.fragment, 1)
      /\ n = f => After(p.fragment, 0) = NULL /\ After(p.fragment, 1) = NULL
  <2>1. /\ t \in Seq(Words) /\ p.fragment \in Seq(Words) /\ f \in Int /\ n \in Int
        /\ 0 <= f /\ Lies(p.fragment, t, f) /\ n = f + Len(p.fragment)
    BY <1>1, <1>2, <1>5, <1>6, Zenon
  <2> QED
    BY <2>1, PartCut
<1>10. (f > d => f > d + 1 /\ d + 2 <= f) /\ (n > f => n > f + 1 /\ f + 2 <= n)
  BY <1>1, <1>3, <1>4
<1> QED
  BY <1>7, <1>8, <1>9, <1>10

\* full_path.
FullOf(way, query) ==
    IF query # NULL THEN (IF way = NULL THEN <<"(null)">> ELSE way) \o <<"?">> \o query
    ELSE IF way = NULL THEN <<"crash">> ELSE way

PartsOf(u, p) ==
    [u EXCEPT !.path = After(p.path, 0), !.query = After(p.query, 1), !.fragment = After(p.fragment, 1),
              !.full = FullOf(After(p.path, 0), After(p.query, 1))]

LEMMA PathRead ==
    ASSUME NEW p \in PartsSet, NEW s, NEW t, NEW a, NEW b, NEW d, NEW f, NEW n,
           Laid(p, s, t, a, b, d, f, n), Filled(p, t, a, b, d, f, n), PlainUrl(p), n > b, NEW u
    PROVE  WithPath(u, t, b + 1) = PartsOf(u, p)
<1> DEFINE st == b + 1
           q  == Find(t, "?", st)
           f0 == Find(t, "#", st)
           swapped == q > 0 /\ f0 > 0 /\ f0 < q
           pl == IF swapped THEN f0 ELSE IF q > 0 THEN q ELSE f0
           fl == IF swapped THEN Find(t, "#", f0 + 2) ELSE f0
           way == IF pl > 0 THEN Piece(t, st, pl - 1) ELSE SubSeq(t, st, Len(t))
           query == IF q = 0 THEN NULL ELSE IF fl > 0 THEN Piece(t, pl + 1, fl - 1) ELSE Piece(t, pl + 1, Len(t))
           fragment == IF fl > 0 THEN Piece(t, fl + 1, Len(t)) ELSE NULL
<1>1. /\ a \in Int /\ b \in Int /\ d \in Int /\ f \in Int /\ n \in Int
      /\ 4 <= a /\ a < b /\ b <= d /\ d <= f /\ f <= n /\ Len(t) = n
  BY InOrderLaid
<1>2. WithPath(u, t, st) =
          [u EXCEPT !.path = way, !.query = query, !.fragment = fragment, !.full = FullOf(way, query)]
  BY Zenon DEF WithPath, FullOf
<1>3. st \in Int /\ 5 <= st /\ st <= b + 1
  BY <1>1
<1>4. q = (IF f > d THEN d + 1 ELSE 0)
  <2> HIDE DEF st
  <2> QED
    BY <1>3, QuestionFound
<1>5. f0 = (IF n > f THEN f + 1 ELSE 0)
  <2> HIDE DEF st
  <2> QED
    BY <1>3, HashFound
<1>c. /\ d > b => SubSeq(t, b + 1, d) = After(p.path, 0)
      /\ d = b => After(p.path, 0) = NULL
      /\ f > d => SubSeq(t, d + 2, f) = After(p.query, 1) /\ d + 2 <= f
      /\ f = d => After(p.query, 1) = NULL
      /\ n > f => SubSeq(t, f + 2, n) = After(p.fragment, 1) /\ f + 2 <= n
      /\ n = f => After(p.fragment, 1) = NULL
  BY PartsCut
<1>6. ~ swapped
  <2> HIDE DEF q, f0
  <2> QED
    BY <1>1, <1>4, <1>5
<1>7. pl = (IF q > 0 THEN q ELSE f0) /\ fl = f0
  <2> HIDE DEF swapped, q, f0
  <2> QED
    BY <1>6
<1> HIDE DEF swapped, q, f0
<1>8. way = After(p.path, 0)
  <2>1. Piece(t, b + 1, d) = After(p.path, 0)
    <3>1. CASE d > b
      <4>1. b + 1 <= d
        BY <1>1, <3>1
      <4> QED
        BY <1>c, <3>1, <4>1, Zenon DEF Piece
    <3>2. CASE d = b
      <4>1. ~ (b + 1 <= d)
        BY <1>1, <3>2
      <4> QED
        BY <1>c, <3>2, <4>1, Zenon DEF Piece
    <3> QED
      BY <1>1, <3>1, <3>2
  <2>2. CASE f > d
    <3>1. pl > 0 /\ pl - 1 = d
      BY <1>1, <1>4, <1>7, <2>2
    <3> HIDE DEF pl
    <3> QED
      BY <2>1, <3>1
  <2>3. CASE f = d /\ n > f
    <3>1. pl > 0 /\ pl - 1 = d
      BY <1>1, <1>4, <1>5, <1>7, <2>3
    <3> HIDE DEF pl
    <3> QED
      BY <2>1, <3>1
  <2>4. CASE f = d /\ n = f
    <3>1. ~ (pl > 0) /\ Len(t) = d /\ d > b
      BY <1>1, <1>4, <1>5, <1>7, <2>4
    <3> HIDE DEF pl
    <3> QED
      BY <1>c, <3>1
  <2>5. f > d \/ (f = d /\ n > f) \/ (f = d /\ n = f)
    BY <1>1
  <2> QED
    BY <2>2, <2>3, <2>4, <2>5
<1>9. query = After(p.query, 1)
  <2>1. CASE f = d
    <3>1. q = 0
      BY <1>1, <1>4, <2>1
    <3> QED
      BY <1>c, <2>1, <3>1
  <2>2. CASE f > d
    <3>1. q = d + 1 /\ q # 0 /\ pl + 1 = d + 2
      BY <1>1, <1>4, <1>7, <2>2
    <3>2. Piece(t, d + 2, f) = After(p.query, 1)
      BY <1>c, <2>2 DEF Piece
    <3>3. IF fl > 0 THEN fl - 1 = f ELSE Len(t) = f
      BY <1>1, <1>5, <1>7
    <3> HIDE DEF pl, fl
    <3> QED
      BY <3>1, <3>2, <3>3
  <2> QED
    BY <1>1, <2>1, <2>2
<1>10. fragment = After(p.fragment, 1)
  <2>1. CASE n = f
    <3>1. ~ (fl > 0)
      BY <1>1, <1>5, <1>7, <2>1
    <3> HIDE DEF fl
    <3> QED
      BY <1>c, <2>1, <3>1
  <2>2. CASE n > f
    <3>1. fl > 0 /\ fl + 1 = f + 2 /\ Len(t) = n
      BY <1>1, <1>5, <1>7, <2>2
    <3>2. Piece(t, f + 2, n) = After(p.fragment, 1)
      BY <1>c, <2>2 DEF Piece
    <3> HIDE DEF fl
    <3> QED
      BY <3>1, <3>2
  <2> QED
    BY <1>1, <2>1, <2>2
<1> HIDE DEF way, query, fragment
<1> QED
  BY <1>2, <1>8, <1>9, <1>10, Zenon DEF PartsOf

-----------------------------------------------------------------------------
(* URLs: What Parse makes of one                                           *)

\* What is parsed, of a URL with a scheme.
Analysed(p, s) ==
    [ok |-> TRUE, scheme |-> <<s>>, user |-> Login(p), pass |-> Secret(p), host |-> <<"www">>, port |-> PortOf(p),
     path |-> After(p.path, 0), query |-> After(p.query, 1), fragment |-> After(p.fragment, 1),
     full |-> IF p.path = <<>> /\ p.query = <<>> /\ p.fragment = <<>> THEN NULL
              ELSE FullOf(After(p.path, 0), After(p.query, 1))]

LEMMA UrlAnalysed ==
    ASSUME NEW p \in PartsSet, PlainUrl(p), NEW s \in Words, s \notin Separators \cup {Terminator}
    PROVE  ParseUrl(Composed(p, Schemed(s))) = Analysed(p, s)
<1> DEFINE t == Composed(p, Schemed(s))
<1>1. PICK a, b, d, f, n \in Int : Laid(p, s, t, a, b, d, f, n) /\ Filled(p, t, a, b, d, f, n)
  BY LayOut
<1> HIDE DEF t
<1>2. /\ 4 <= a /\ a < b /\ b <= d /\ d <= f /\ f <= n /\ Len(t) = n
  BY <1>1, InOrderLaid
<1>3. Rewritten(t) = t
  BY <1>1, NotRewritten
<1>4. SchemeOf(t) = [scheme |-> <<s>>, s |-> 5, host |-> TRUE, port |-> 0]
  BY <1>1, SchemeFound
<1>5. AuthorityEnd(t, 5) = b + 1
  BY <1>1, AuthorityEnds
<1> DEFINE u == [EmptyUrl EXCEPT !.scheme = <<s>>, !.port = 0]
           v == WithAuthority(u, t, 5, b + 1)
           w == [ok |-> TRUE, scheme |-> <<s>>, user |-> Login(p), pass |-> Secret(p), host |-> <<"www">>,
                 port |-> PortOf(p), path |-> NULL, query |-> NULL, fragment |-> NULL, full |-> NULL]
<1>6. NoAuthority(u)
  BY DEF NoAuthority, EmptyUrl
<1>7. v = AuthorityOf(u, p)
  <2> HIDE DEF u
  <2>1. Laid(p, s, t, a, b, d, f, n)
    BY <1>1
  <2> QED
    BY <1>6, <2>1, AuthorityRead
<1>8. v = w
  <2> HIDE DEF v
  <2> QED
    BY <1>7 DEF EmptyUrl, AuthorityOf
<1>9. ParseUrl(t) = IF ~ v.ok \/ b + 1 > Len(t) THEN v ELSE WithPath(v, t, b + 1)
  <2> DEFINE g == SchemeOf(t)
  <2>1. g.scheme = <<s>> /\ g.s = 5 /\ g.host = TRUE /\ g.port = 0
    BY <1>4
  <2> HIDE DEF g
  <2>2. ParseUrl(t) =
            IF ~ g.host THEN WithPath([EmptyUrl EXCEPT !.scheme = g.scheme, !.port = g.port], t, g.s)
            ELSE IF ~ WithAuthority([EmptyUrl EXCEPT !.scheme = g.scheme, !.port = g.port], t, g.s, AuthorityEnd(t, g.s)).ok
                    \/ AuthorityEnd(t, g.s) > Len(t)
            THEN WithAuthority([EmptyUrl EXCEPT !.scheme = g.scheme, !.port = g.port], t, g.s, AuthorityEnd(t, g.s))
            ELSE WithPath(WithAuthority([EmptyUrl EXCEPT !.scheme = g.scheme, !.port = g.port], t, g.s,
                                        AuthorityEnd(t, g.s)), t, AuthorityEnd(t, g.s))
    BY <1>3, Zenon DEF ParseUrl, g
  <2> QED
    BY <1>5, <2>1, <2>2, Zenon
<1>10. CASE n = b
  <2>1. p.path = <<>> /\ p.query = <<>> /\ p.fragment = <<>>
    <3>1. d = b /\ f = d /\ n = f
      BY <1>2, <1>10
    <3> QED
      BY <1>1, <3>1 DEF Laid, PathAt, QueryAt, FragmentAt
  <2>2. ParseUrl(t) = v
    <3>1. b + 1 > Len(t)
      BY <1>2, <1>10
    <3> HIDE DEF v
    <3> QED
      BY <1>9, <3>1
  <2>3. After(p.path, 0) = NULL /\ After(p.query, 1) = NULL /\ After(p.fragment, 1) = NULL
    BY <2>1 DEF After
  <2>4. Analysed(p, s) = w
    BY <2>1, <2>3, Zenon DEF Analysed
  <2> QED
    BY <1>8, <2>2, <2>4 DEF t
<1>11. CASE n > b
  <2>1. ~ (p.path = <<>> /\ p.query = <<>> /\ p.fragment = <<>>)
    <3>1. ASSUME p.path = <<>>, p.query = <<>>, p.fragment = <<>> PROVE FALSE
      <4>1. Len(p.path) = 0 /\ Len(p.query) = 0 /\ Len(p.fragment) = 0
        BY <3>1
      <4> QED
        <5>1. d = b + Len(p.path) /\ f = d + Len(p.query) /\ n = f + Len(p.fragment)
          BY <1>1, Zenon DEF Filled
        <5>2. d = b + 0 /\ f = d + 0 /\ n = f + 0
          BY <4>1, <5>1, Zenon
        <5> QED
          BY <1>11, <5>2
    <3> QED
      BY <3>1
  <2>2. v.ok = TRUE /\ ~ (b + 1 > Len(t))
    <3> HIDE DEF v
    <3> QED
      BY <1>2, <1>8, <1>11
  <2>3. ParseUrl(t) = WithPath(v, t, b + 1)
    <3> HIDE DEF v
    <3> QED
      BY <1>9, <2>2
  <2>4. WithPath(v, t, b + 1) = PartsOf(v, p)
    <3> HIDE DEF v
    <3> QED
      <4>1. Laid(p, s, t, a, b, d, f, n) /\ Filled(p, t, a, b, d, f, n) /\ n > b
        BY <1>1, <1>11
      <4> QED
        BY <4>1, PathRead
  <2>5. Analysed(p, s) = PartsOf(w, p)
    <3> DEFINE way == After(p.path, 0)
               query == After(p.query, 1)
               fragment == After(p.fragment, 1)
               full == FullOf(way, query)
    <3>1. Analysed(p, s) =
              [ok |-> TRUE, scheme |-> <<s>>, user |-> Login(p), pass |-> Secret(p), host |-> <<"www">>,
               port |-> PortOf(p), path |-> way, query |-> query, fragment |-> fragment, full |-> full]
      BY <2>1, Zenon DEF Analysed
    <3> HIDE DEF way, query, fragment, full
    <3>2. [w EXCEPT !.path = way, !.query = query, !.fragment = fragment, !.full = full] =
              [ok |-> TRUE, scheme |-> <<s>>, user |-> Login(p), pass |-> Secret(p), host |-> <<"www">>,
               port |-> PortOf(p), path |-> way, query |-> query, fragment |-> fragment, full |-> full]
      <4> DEFINE yes == TRUE
                 login == Login(p)
                 secret == Secret(p)
                 port == PortOf(p)
                 sc == <<s>>
                 www == <<"www">>
      <4> HIDE DEF yes, login, secret, port, sc, www
      <4> DEFINE r0 == [ok |-> yes, scheme |-> sc, user |-> login, pass |-> secret, host |-> www, port |-> port,
                       path |-> NULL, query |-> NULL, fragment |-> NULL, full |-> NULL]
                 r1 == [ok |-> yes, scheme |-> sc, user |-> login, pass |-> secret, host |-> www, port |-> port,
                       path |-> way, query |-> NULL, fragment |-> NULL, full |-> NULL]
                 r2 == [ok |-> yes, scheme |-> sc, user |-> login, pass |-> secret, host |-> www, port |-> port,
                       path |-> way, query |-> query, fragment |-> NULL, full |-> NULL]
                 r3 == [ok |-> yes, scheme |-> sc, user |-> login, pass |-> secret, host |-> www, port |-> port,
                       path |-> way, query |-> query, fragment |-> fragment, full |-> NULL]
                 r4 == [ok |-> yes, scheme |-> sc, user |-> login, pass |-> secret, host |-> www, port |-> port,
                       path |-> way, query |-> query, fragment |-> fragment, full |-> full]
      <4>1. [r0 EXCEPT !.path = way] = r1
        OBVIOUS
      <4>2. [r1 EXCEPT !.query = query] = r2
        OBVIOUS
      <4>3. [r2 EXCEPT !.fragment = fragment] = r3
        OBVIOUS
      <4>4. [r3 EXCEPT !.full = full] = r4
        OBVIOUS
      <4> HIDE DEF r0, r1, r2, r3, r4
      <4>5. [r0 EXCEPT !.path = way, !.query = query, !.fragment = fragment, !.full = full] = r4
        BY <4>1, <4>2, <4>3, <4>4, Zenon
      <4> QED
        BY <4>5, Zenon DEF r0, r4, yes, login, secret, port, sc, www
    <3> HIDE DEF w
    <3>3. [w EXCEPT !.path = way, !.query = query, !.fragment = fragment, !.full = full] = PartsOf(w, p)
      BY Zenon DEF PartsOf, way, query, fragment, full
    <3> QED
      BY <3>1, <3>2, <3>3, Zenon DEF way, query, fragment, full
  <2> HIDE DEF v, w
  <2> QED
    BY <1>8, <2>3, <2>4, <2>5 DEF t
<1> QED
  BY <1>2, <1>10, <1>11

-----------------------------------------------------------------------------
(* URLs: The file                                                          *)

LEMMA LiesTogether ==
    ASSUME NEW t, NEW u \in Seq(Words), NEW v \in Seq(Words), NEW k \in Int, NEW l \in Int,
           Lies(u, t, k), Lies(v, t, l), l = k + Len(u), Len(t) \in Nat
    PROVE  /\ Joined(u, v) \in Seq(Words) /\ Len(Joined(u, v)) = Len(u) + Len(v)
           /\ Lies(Joined(u, v), t, k)
<1> DEFINE w == Joined(u, v)
<1>1. Len(u) \in Nat /\ Len(v) \in Nat
  BY LenProperties
<1>2. /\ w \in Seq(Words) /\ Len(w) = Len(u) + Len(v)
      /\ \A i \in 1 .. Len(u) : w[i] = u[i]
      /\ \A i \in 1 .. Len(v) : w[Len(u) + i] = v[i]
  <2>1. u \in Seq(Words) /\ v \in Seq(Words)
    OBVIOUS
  <2>2. Joined(u, v) \in Seq(Words) /\ Len(Joined(u, v)) = Len(u) + Len(v)
    BY <2>1, JoinedIs
  <2>3. \A i \in 1 .. Len(u) : Joined(u, v)[i] = u[i]
    BY <2>1, JoinedIs
  <2>4. \A i \in 1 .. Len(v) : Joined(u, v)[Len(u) + i] = v[i]
    BY <2>1, JoinedIs
  <2> QED
    BY <2>2, <2>3, <2>4
<1> HIDE DEF w
<1>3. k + Len(w) <= Len(t)
  <2>1. l + Len(v) <= Len(t)
    BY DEF Lies
  <2> QED
    BY <1>1, <1>2, <2>1
<1>4. ASSUME NEW i \in 1 .. Len(w) PROVE t[k + i] = w[i]
  <2>1. CASE i \in 1 .. Len(u)
    BY <1>2, <2>1 DEF Lies
  <2>2. CASE i \notin 1 .. Len(u)
    <3> DEFINE j == i - Len(u)
    <3>1. j \in 1 .. Len(v) /\ i = Len(u) + j /\ k + i = l + j
      BY <1>1, <1>2, <2>2
    <3> HIDE DEF j
    <3>2. t[l + j] = v[j]
      BY <3>1 DEF Lies
    <3>3. w[Len(u) + j] = v[j]
      BY <1>2, <3>1
    <3> QED
      BY <3>1, <3>2, <3>3
  <2> QED
    BY <2>1, <2>2
<1>5. Lies(w, t, k)
  BY <1>3, <1>4 DEF Lies
<1> QED
  BY <1>2, <1>5 DEF w

Leaf(p) == IF p.path = <<>> THEN p.login \o <<"www">> \o p.port ELSE SubSeq(p.path, 4, Len(p.path))
Added(p) == IF p.query = <<>> /\ p.fragment # <<>> THEN SubSeq(p.fragment, 1, 2) ELSE <<>>

\* Where the last slash is, and what comes between it and the query.
LEMMA LeafFound ==
    ASSUME NEW p \in PartsSet, NEW s, NEW t, NEW a, NEW b, NEW d, NEW f, NEW n,
           Laid(p, s, t, a, b, d, f, n), Filled(p, t, a, b, d, f, n)
    PROVE  \E k \in Int : /\ k = FindLast(t, "/", 1, n) /\ 4 <= k /\ k <= d
                          /\ Leaf(p) \in Seq(Words) /\ Lies(Leaf(p), t, k) /\ d = k + Len(Leaf(p))
<1>1. /\ a \in Int /\ b \in Int /\ d \in Int /\ f \in Int /\ n \in Int
      /\ 4 <= a /\ a < b /\ b <= d /\ d <= f /\ f <= n /\ Len(t) = n
  BY InOrderLaid
<1>2. \A i \in Int : d < i /\ i <= n => t[i] # "/"
  <2>1. \A i \in Int : d < i /\ i <= f => t[i] # "/"
    BY QueryLetters
  <2>2. \A i \in Int : f < i /\ i <= n => t[i] # "/"
    BY FragmentLetters
  <2> QED
    BY <1>1, <2>1, <2>2
<1>3. 1 \in Int /\ n + 1 \in Int
  BY <1>1
<1>4. p.login \in Seq(Words) /\ p.port \in Seq(Words) /\ p.path \in Seq(Words) /\ <<"www">> \in Seq(Words)
  BY PartsWords
<1>5. CASE d = b /\ p.path = <<>>
  <2>1. t[4] = "/"
    BY DEF Laid, SchemeAt
  <2>2. FreeOf(t, "/", 5, n + 1)
    <3>1. \A i \in Int : 5 <= i /\ i <= b => t[i] # "/"
      BY AuthorityLetters
    <3> QED
      BY <1>1, <1>2, <1>5, <3>1 DEF FreeOf
  <2>3. FindLast(t, "/", 1, n) = 4
    <3>1. 4 \in Int /\ 5 \in Int /\ 1 <= 4 /\ 4 <= n /\ 5 = 4 + 1
      BY <1>1
    <3> QED
      BY <1>1, <1>3, <2>1, <2>2, <3>1, LastPlaceFound
  <2>4. /\ Lies(p.login, t, 4) /\ a = 4 + Len(p.login) /\ Lies(<<"www">>, t, a)
        /\ Lies(p.port, t, a + 1) /\ b = (a + 1) + Len(p.port)
    <3>1. b = a + 1 + Len(p.port)
      BY DEF Filled
    <3> QED
      BY <3>1 DEF Filled
  <2>5. Len(p.login) \in Nat /\ Len(<<"www">>) = 1 /\ Len(t) \in Nat /\ Len(p.port) \in Nat
    BY <1>1, <1>4, LenProperties
  <2> DEFINE lw == Joined(p.login, <<"www">>)
             lwp == Joined(lw, p.port)
  <2>6. lw \in Seq(Words) /\ Len(lw) = Len(p.login) + 1 /\ Lies(lw, t, 4)
    <3>1. 4 \in Int
      OBVIOUS
    <3>2. /\ lw \in Seq(Words) /\ Len(lw) = Len(p.login) + Len(<<"www">>) /\ Lies(lw, t, 4)
      BY <1>1, <1>4, <2>4, <2>5, <3>1, LiesTogether
    <3> QED
      BY <2>5, <3>2
  <2> HIDE DEF lw
  <2>7. a + 1 = 4 + Len(lw) /\ a + 1 \in Int /\ 4 \in Int
    BY <1>1, <2>4, <2>5, <2>6
  <2>8. lwp \in Seq(Words) /\ Len(lwp) = Len(lw) + Len(p.port) /\ Lies(lwp, t, 4)
    BY <1>4, <2>4, <2>5, <2>6, <2>7, LiesTogether
  <2>9. Leaf(p) = lwp
    BY <1>5, Zenon DEF Leaf, Joined, lw
  <2> HIDE DEF lwp
  <2>10. d = 4 + Len(lwp)
    <3>1. Len(lw) \in Nat /\ Len(p.port) \in Nat
      BY <2>5, <2>6, LenProperties
    <3>2. d = (a + 1) + Len(p.port)
      BY <1>5, <2>4, Zenon
    <3>3. d = (4 + Len(lw)) + Len(p.port) /\ Len(lwp) = Len(lw) + Len(p.port)
      BY <2>7, <2>8, <3>2, Zenon
    <3> DEFINE x == Len(lw)
               y == Len(p.port)
    <3>4. x \in Nat /\ y \in Nat
      BY <3>1
    <3> HIDE DEF x, y
    <3>5. (4 + x) + y = 4 + (x + y)
      BY <3>4
    <3> QED
      BY <3>3, <3>5, Zenon DEF x, y
  <2>11. 4 <= 4 /\ 4 <= d
    BY <1>1
  <2> QED
    BY <2>3, <2>7, <2>8, <2>9, <2>10, <2>11
<1>6. CASE d = b + 1 /\ p.path = <<"/">> /\ t[b + 1] = "/"
  <2>1. FreeOf(t, "/", d + 1, n + 1)
    BY <1>1, <1>2 DEF FreeOf
  <2>2. FindLast(t, "/", 1, n) = d
    <3>1. d + 1 \in Int /\ 1 <= d /\ d <= n /\ t[d] = "/"
      BY <1>1, <1>6
    <3> QED
      BY <1>1, <1>3, <2>1, <3>1, LastPlaceFound
  <2>3. Leaf(p) = <<>>
    <3>1. p.path # <<>> /\ Len(p.path) = 1
      BY <1>6
    <3>2. Leaf(p) = SubSeq(p.path, 4, 1)
      BY <3>1, Zenon DEF Leaf
    <3>3. SubSeq(p.path, 4, 1) \in Seq(Words) /\ Len(SubSeq(p.path, 4, 1)) = 0
      <4>1. \A i \in 4 .. 1 : p.path[i] \in Words
        OBVIOUS
      <4> QED
        BY <4>1, SubSeqProperties
    <3> QED
      BY <3>2, <3>3, EmptySeq
  <2>4. Len(<<>>) = 0 /\ <<>> \in Seq(Words)
    BY EmptySeq
  <2>5. Lies(<<>>, t, d) /\ d = d + 0 /\ 4 <= d /\ d <= d
    BY <1>1, <2>4 DEF Lies
  <2> QED
    BY <1>1, <2>2, <2>3, <2>4, <2>5
<1>7. CASE d = b + 4 /\ p.path = <<"/", "dir", "/", "file">> /\ t[b + 3] = "/" /\ t[b + 4] = "file"
  <2>1. FreeOf(t, "/", b + 4, n + 1)
    <3>1. t[b + 4] # "/"
      BY <1>7
    <3> QED
      BY <1>1, <1>2, <1>7, <3>1 DEF FreeOf
  <2>2. FindLast(t, "/", 1, n) = b + 3
    <3>1. b + 3 \in Int /\ b + 4 \in Int /\ b + 4 = (b + 3) + 1 /\ 1 <= b + 3 /\ b + 3 <= n
      BY <1>1, <1>7
    <3> QED
      BY <1>1, <1>3, <1>7, <2>1, <3>1, LastPlaceFound
  <2>3. Leaf(p) = <<"file">>
    <3>1. p.path # <<>> /\ Len(p.path) = 4 /\ p.path[4] = "file"
      BY <1>7
    <3>2. Leaf(p) = SubSeq(p.path, 4, 4)
      BY <3>1, Zenon DEF Leaf
    <3>3. 4 \in 1 .. Len(p.path)
      BY <3>1
    <3>4. SubSeq(p.path, 4, 4) = <<p.path[4]>>
      BY <1>4, <3>3, OneCut
    <3> QED
      BY <3>1, <3>2, <3>4
  <2>4. Len(<<"file">>) = 1 /\ <<"file">>[1] = "file" /\ <<"file">> \in Seq(Words)
    <3>1. "file" \in Words
      BY DEF Words
    <3> QED
      BY <3>1, FewAre
  <2>5. Lies(<<"file">>, t, b + 3) /\ d = (b + 3) + 1 /\ b + 3 \in Int /\ 4 <= b + 3 /\ b + 3 <= d
    <3>1. (b + 3) + 1 = b + 4 /\ (b + 3) + 1 <= Len(t)
      BY <1>1, <1>7
    <3>2. ASSUME NEW i \in 1 .. 1 PROVE t[(b + 3) + i] = <<"file">>[i]
      <4>1. i = 1
        OBVIOUS
      <4> QED
        BY <1>7, <2>4, <3>1, <4>1
    <3>3. Lies(<<"file">>, t, b + 3)
      <4> DEFINE u == <<"file">>
      <4> HIDE DEF u
      <4>1. Len(u) = 1 /\ \A i \in 1 .. 1 : t[(b + 3) + i] = u[i]
        BY <2>4, <3>2 DEF u
      <4>2. Lies(u, t, b + 3)
        BY <3>1, <4>1 DEF Lies
      <4> QED
        BY <4>2 DEF u
    <3> QED
      BY <1>1, <1>7, <3>3
  <2> QED
    BY <2>2, <2>3, <2>4, <2>5
<1>8. \/ d = b /\ p.path = <<>>
      \/ d = b + 1 /\ p.path = <<"/">> /\ t[b + 1] = "/"
      \/ d = b + 4 /\ p.path = <<"/", "dir", "/", "file">> /\ t[b + 3] = "/" /\ t[b + 4] = "file"
  BY Zenon DEF Laid, PathAt
<1> QED
  BY <1>5, <1>6, <1>7, <1>8

\* Where the name ends.
LEMMA NameEnds ==
    ASSUME NEW p \in PartsSet, NEW s, NEW t, NEW a, NEW b, NEW d, NEW f, NEW n,
           Laid(p, s, t, a, b, d, f, n), Filled(p, t, a, b, d, f, n),
           NEW k \in Int, 4 <= k, k <= d, k = FindLast(t, "/", 1, n)
    PROVE  LET q == Find(t, "?", k + 1)
               e == IF q = 0 THEN n ELSE q - 1
           IN  /\ Added(p) \in Seq(Words) /\ Lies(Added(p), t, d) /\ e = d + Len(Added(p))
<1>1. /\ a \in Int /\ b \in Int /\ d \in Int /\ f \in Int /\ n \in Int
      /\ 4 <= a /\ a < b /\ b <= d /\ d <= f /\ f <= n /\ Len(t) = n
  BY InOrderLaid
<1>2. FreeOf(t, "?", k + 1, d + 1)
  <2>1. \A i \in Int : 5 <= i /\ i <= b => t[i] # "?"
    BY AuthorityLetters
  <2>2. \A i \in Int : b < i /\ i <= d => t[i] # "?"
    BY PathLetters
  <2> QED
    BY <1>1, <2>1, <2>2 DEF FreeOf
<1>3. k + 1 \in Int /\ k + 1 <= d + 1
  BY <1>1
<1> DEFINE q == Find(t, "?", k + 1)
           e == IF q = 0 THEN n ELSE q - 1
<1>4. Len(<<>>) = 0 /\ <<>> \in Seq(Words) /\ Lies(<<>>, t, d)
  <2>1. Len(<<>>) = 0 /\ <<>> \in Seq(Words)
    BY EmptySeq
  <2> QED
    BY <1>1, <2>1 DEF Lies
<1>5. CASE p.query # <<>>
  <2>1. f = d + 2 /\ t[d + 1] = "?"
    BY <1>5 DEF Laid, QueryAt
  <2>2. q = d + 1
    <3>1. d + 1 \in Int /\ d + 1 <= n
      BY <1>1, <2>1
    <3> QED
      BY <1>1, <1>2, <1>3, <2>1, <3>1, PlaceFound
  <2>3. Added(p) = <<>>
    BY <1>5, Zenon DEF Added
  <2> HIDE DEF q
  <2>4. e = d + Len(<<>>)
    BY <1>1, <1>4, <2>2
  <2> HIDE DEF e
  <2>5. Added(p) \in Seq(Words) /\ Lies(Added(p), t, d) /\ e = d + Len(Added(p))
    BY <1>4, <2>3, <2>4, Zenon
  <2> QED
    BY <2>5 DEF e, q
<1>6. CASE p.query = <<>>
  <2>1. f = d
    BY <1>1, <1>6 DEF Filled
  <2>2. CASE p.fragment = <<>>
    <3>1. n = d
      <4>1. n = f + Len(p.fragment) /\ Len(p.fragment) = 0
        BY <2>2 DEF Filled
      <4>2. n = f + 0
        BY <4>1, Zenon
      <4> QED
        BY <1>1, <2>1, <4>2
    <3>2. q = 0
      <4>1. d + 1 \in Int /\ Len(t) < d + 1 /\ Len(t) \in Nat
        BY <1>1, <3>1
      <4> QED
        BY <1>2, <1>3, <4>1, PlaceNone
    <3>3. Added(p) = <<>>
      BY <2>2, Zenon DEF Added
    <3> HIDE DEF q
    <3>4. e = d + Len(<<>>)
      BY <1>1, <1>4, <3>1, <3>2
    <3> HIDE DEF e
    <3>5. Added(p) \in Seq(Words) /\ Lies(Added(p), t, d) /\ e = d + Len(Added(p))
      BY <1>4, <3>3, <3>4, Zenon
    <3> QED
      BY <3>5 DEF e, q
  <2>3. CASE p.fragment # <<>>
    <3> DEFINE u == <<"#", "part">>
               fr == p.fragment
    <3>1. t[d + 1] = "#" /\ t[d + 2] = "part" /\ ((n = d + 2) \/ (n = d + 4 /\ t[d + 3] = "?"))
      BY <2>1, <2>3 DEF Laid, FragmentAt
    <3>2. (q = 0 /\ n = d + 2) \/ q = d + 3
      <4>1. FreeOf(t, "?", k + 1, d + 3)
        BY <1>1, <1>2, <3>1 DEF FreeOf
      <4>2. CASE n = d + 2
        <5>1. d + 3 \in Int /\ Len(t) < d + 3 /\ Len(t) \in Nat
          BY <1>1, <4>2
        <5>2. q = 0
          BY <1>3, <4>1, <5>1, PlaceNone
        <5> QED
          BY <4>2, <5>2
      <4>3. CASE n = d + 4 /\ t[d + 3] = "?"
        <5>1. d + 3 \in Int /\ d + 3 <= Len(t) /\ Len(t) \in Nat /\ k + 1 <= d + 3
          BY <1>1, <1>3, <4>3
        <5>2. q = d + 3
          BY <1>3, <4>1, <4>3, <5>1, PlaceFound
        <5> QED
          BY <5>2
      <4> QED
        BY <3>1, <4>2, <4>3
    <3>3. u \in Seq(Words) /\ Len(u) = 2 /\ u[1] = "#" /\ u[2] = "part"
      <4>1. "#" \in Words /\ "part" \in Words
        BY DEF Words, Separators
      <4> QED
        BY <4>1, FewAre
    <3>4. fr \in Seq(Words) /\ 2 <= Len(fr) /\ fr[1] = "#" /\ fr[2] = "part"
      <4>1. fr = <<"#", "part">> \/ fr = <<"#", "part", "?", "x">>
        <5>1. fr \in {<<>>, <<"#", "part">>, <<"#", "part", "?", "x">>}
          BY PartsAre
        <5> QED
          BY <2>3, <5>1, Zenon
      <4>2. fr \in Seq(Words)
        BY PartsWords
      <4> HIDE DEF u
      <4> QED
        <5>1. CASE fr = <<"#", "part">>
          <6>1. LET w == <<"#", "part">> IN 2 <= Len(w) /\ w[1] = "#" /\ w[2] = "part"
            OBVIOUS
          <6> QED
            BY <4>2, <5>1, <6>1, Zenon
        <5>2. CASE fr = <<"#", "part", "?", "x">>
          <6>1. LET w == <<"#", "part", "?", "x">> IN 2 <= Len(w) /\ w[1] = "#" /\ w[2] = "part"
            OBVIOUS
          <6> QED
            BY <4>2, <5>2, <6>1, Zenon
        <5> QED
          BY <4>1, <5>1, <5>2, Zenon
    <3> HIDE DEF u, fr
    <3>5. Lies(u, t, d) /\ Lies(u, fr, 0)
      <4>1. Len(fr) \in Nat
        BY <3>4, LenProperties
      <4>2. \A i \in 1 .. 2 : t[d + i] = u[i]
        <5>1. \A i \in 1 .. 2 : i = 1 \/ i = 2
          OBVIOUS
        <5> QED
          BY <3>1, <3>3, <5>1
      <4>3. \A i \in 1 .. 2 : fr[0 + i] = u[i]
        <5>1. \A i \in 1 .. 2 : (i = 1 /\ 0 + i = 1) \/ (i = 2 /\ 0 + i = 2)
          OBVIOUS
        <5> QED
          BY <3>3, <3>4, <5>1
      <4>4. d + 2 <= Len(t) /\ 0 + 2 <= Len(fr)
        BY <1>1, <3>1, <3>4, <4>1
      <4> QED
        BY <3>3, <4>2, <4>3, <4>4 DEF Lies
    <3>6. SubSeq(fr, 1, 2) = u
      <4>1. 0 \in Nat /\ 1 \in Int /\ 2 \in Int /\ 1 = 0 + 1 /\ 2 = 0 + Len(u)
        BY <3>3
      <4> QED
        BY <3>3, <3>4, <3>5, <4>1, CutOut
    <3>7. Added(p) = u
      BY <1>6, <2>3, <3>6, Zenon DEF Added, fr
    <3> HIDE DEF q
    <3>8. e = d + Len(u)
      BY <1>1, <3>2, <3>3
    <3> HIDE DEF e
    <3>9. Added(p) \in Seq(Words) /\ Lies(Added(p), t, d) /\ e = d + Len(Added(p))
      BY <3>3, <3>5, <3>7, <3>8, Zenon
    <3> QED
      BY <3>9 DEF e, q
  <2> QED
    BY <2>2, <2>3
<1> QED
  BY <1>5, <1>6

LEMMA FileFound ==
    ASSUME NEW p \in PartsSet, NEW s \in Words, s \notin Separators \cup {Terminator}
    PROVE  GetBaseFileName(Composed(p, Schemed(s))) =
               LET name == Leaf(p) \o Added(p) IN IF name = <<>> THEN <<"index.html">> ELSE name
<1> DEFINE t == Composed(p, Schemed(s))
<1>1. PICK a, b, d, f, n \in Int : Laid(p, s, t, a, b, d, f, n) /\ Filled(p, t, a, b, d, f, n)
  BY LayOut
<1> HIDE DEF t
<1>2. /\ 4 <= a /\ a < b /\ b <= d /\ d <= f /\ f <= n /\ Len(t) = n
  BY <1>1, InOrderLaid
<1>3. Rewritten(t) = t
  BY <1>1, NotRewritten
<1>4. PICK k \in Int : /\ k = FindLast(t, "/", 1, n) /\ 4 <= k /\ k <= d
                       /\ Leaf(p) \in Seq(Words) /\ Lies(Leaf(p), t, k) /\ d = k + Len(Leaf(p))
  <2>1. Laid(p, s, t, a, b, d, f, n) /\ Filled(p, t, a, b, d, f, n)
    BY <1>1
  <2> QED
    BY <2>1, LeafFound
<1> DEFINE q == Find(t, "?", k + 1)
           e == IF q = 0 THEN n ELSE q - 1
           leaf == Leaf(p)
           added == Added(p)
           name == Joined(leaf, added)
<1>5. added \in Seq(Words) /\ Lies(added, t, d) /\ e = d + Len(added)
  <2>1. Laid(p, s, t, a, b, d, f, n) /\ Filled(p, t, a, b, d, f, n)
    BY <1>1
  <2>2. k = FindLast(t, "/", 1, n) /\ 4 <= k /\ k <= d
    BY <1>4
  <2> QED
    BY <2>1, <2>2, NameEnds
<1>6. leaf \in Seq(Words) /\ Lies(leaf, t, k) /\ d = k + Len(leaf)
  BY <1>4
<1>7. Len(leaf) \in Nat /\ Len(added) \in Nat /\ Len(t) \in Nat
  BY <1>2, <1>5, <1>6, LenProperties
<1> HIDE DEF leaf, added
<1>8. name \in Seq(Words) /\ Len(name) = Len(leaf) + Len(added) /\ Lies(name, t, k)
  BY <1>5, <1>6, <1>7, LiesTogether
<1> HIDE DEF name, e
<1>9. SubSeq(t, k + 1, e) = name
  <2>1. k \in Nat /\ k + 1 \in Int /\ e \in Int /\ e = k + Len(name)
    <3>1. k \in Nat /\ k + 1 \in Int
      BY <1>4
    <3>2. e = (k + Len(leaf)) + Len(added) /\ Len(name) = Len(leaf) + Len(added)
      BY <1>5, <1>6, <1>8, Zenon
    <3> QED
      BY <1>7, <3>1, <3>2
  <2>2. t \in Seq(Words)
    BY <1>1 DEF Laid
  <2> DEFINE i == k + 1
  <2>3. i \in Int /\ i = k + 1
    BY <2>1
  <2> HIDE DEF i
  <2>4. SubSeq(t, i, e) = name
    BY <1>8, <2>1, <2>2, <2>3, CutOut
  <2> QED
    BY <2>4 DEF i
<1>10. GetBaseFileName(t) = IF name = <<>> THEN <<"index.html">> ELSE name
  <2>1. FindLast(t, "/", 1, Len(t)) = k
    BY <1>2, <1>4
  <2>2. SubSeq(t, k + 1, IF Find(t, "?", k + 1) = 0 THEN Len(t) ELSE Find(t, "?", k + 1) - 1) = name
    BY <1>2, <1>9, Zenon DEF e, q
  <2>3. GetBaseFileName(t) =
            LET c == FindLast(t, "/", 1, Len(t))
                g == Find(t, "?", c + 1)
                nm == SubSeq(t, c + 1, IF g = 0 THEN Len(t) ELSE g - 1)
            IN  IF nm = <<>> THEN <<"index.html">> ELSE nm
    <3> DEFINE r == Rewritten(t)
    <3>1. GetBaseFileName(t) =
              LET c == FindLast(r, "/", 1, Len(r))
                  g == Find(r, "?", c + 1)
                  nm == SubSeq(r, c + 1, IF g = 0 THEN Len(r) ELSE g - 1)
              IN  IF nm = <<>> THEN <<"index.html">> ELSE nm
      BY Zenon DEF GetBaseFileName
    <3>2. r = t
      BY <1>3
    <3> HIDE DEF r
    <3> QED
      BY <3>1, <3>2
  <2> QED
    BY <2>1, <2>2, <2>3
<1> QED
  BY <1>10, Zenon DEF name, leaf, added, Joined, t

-----------------------------------------------------------------------------
(* URLs: Short hands                                                       *)

LEMMA PrefixedIs ==
    ASSUME NEW s \in Words, NEW x \in Seq(Words)
    PROVE  LET t == Prefixed(s, x) IN
           /\ t \in Seq(Words) /\ Len(t) \in Nat /\ 4 <= Len(t)
           /\ t[1] = s /\ t[2] = ":" /\ t[3] = "/" /\ t[4] = "/"
<1> DEFINE h == Schemed(s)
           t == Joined(h, x)
<1>1. h \in Seq(Words) /\ Len(h) = 4 /\ h[1] = s /\ h[2] = ":" /\ h[3] = "/" /\ h[4] = "/"
  <2>1. ":" \in Words /\ "/" \in Words
    BY DEF Words, Separators
  <2>2. h \in Seq(Words) /\ Len(h) = 4
    BY <2>1, FewAre DEF Schemed
  <2> QED
    BY <2>2, Zenon DEF Schemed
<1>2. Prefixed(s, x) = t
  BY Zenon DEF Prefixed, Joined, Schemed
<1> HIDE DEF h
<1>3. t \in Seq(Words) /\ Len(t) = Len(h) + Len(x)
  BY <1>1, JoinedIs
<1>4. \A i \in 1 .. Len(h) : t[i] = h[i]
  BY <1>1, JoinedIs, ZenonT(40)
<1> HIDE DEF t
<1>5. Len(x) \in Nat /\ Len(t) \in Nat /\ 4 <= Len(t)
  BY <1>1, <1>3, LenProperties
<1>6. t[1] = h[1] /\ t[2] = h[2] /\ t[3] = h[3] /\ t[4] = h[4]
  BY <1>1, <1>4
<1> QED
  BY <1>1, <1>2, <1>3, <1>5, <1>6, Zenon

\* What a short hand without a login is.
Short(p) == ((((<<"www">> \o p.port) \o p.path) \o p.query) \o p.fragment)

LEMMA ShortIs ==
    ASSUME NEW p \in PartsSet, NEW S, p.port \in Seq(S), p.path \in Seq(S), p.query \in Seq(S), p.fragment \in Seq(S),
           "www" \in S
    PROVE  LET t == Short(p) IN
           /\ t \in Seq(S) /\ Len(t) \in Nat /\ 1 <= Len(t) /\ t[1] = "www"
           /\ Lies(p.port, t, 1) /\ Lies(p.path, t, 1 + Len(p.port))
<1> DEFINE po == p.port
           pa == p.path
           t0 == <<"www">>
           t1 == Joined(t0, po)
           t2 == Joined(t1, pa)
           t3 == Joined(t2, p.query)
           t4 == Joined(t3, p.fragment)
<1>1. t0 \in Seq(S) /\ Len(t0) = 1 /\ Lies(t0, t0, 0)
  <2>1. t0 \in Seq(S) /\ Len(t0) = 1
    BY FewAre
  <2> HIDE DEF t0
  <2>2. Lies(t0, t0, 0)
    BY <2>1 DEF Lies
  <2> QED
    BY <2>1, <2>2
<1>2. po \in Seq(S) /\ pa \in Seq(S) /\ Len(po) \in Nat /\ Len(pa) \in Nat /\ 0 \in Nat /\ 1 \in Nat
  BY LenProperties
<1>3. Short(p) = t4
  BY Zenon DEF Short, Joined
<1>4. t0[1] = "www"
  OBVIOUS
<1> HIDE DEF t0
<1>11. t1 \in Seq(S) /\ Len(t1) = 1 + Len(po) /\ Lies(po, t1, 1)
  <2>1. t1 \in Seq(S) /\ Len(t1) = Len(t0) + Len(po) /\ Lies(po, t1, Len(t0))
    BY <1>1, <1>2, LiesBehind, ZenonT(40)
  <2> QED
    BY <1>1, <2>1, Zenon
<1>12. Lies(t0, t1, 0)
  BY <1>1, <1>2, LiesStill
<1> HIDE DEF t1
<1> DEFINE k == 1 + Len(po)
<1>k. k \in Nat /\ k = 1 + Len(po)
  BY <1>2
<1> HIDE DEF k
<1>21. t2 \in Seq(S) /\ Lies(pa, t2, k)
  <2>1. t2 \in Seq(S) /\ Lies(pa, t2, Len(t1))
    BY <1>2, <1>11, LiesBehind, ZenonT(40)
  <2> QED
    BY <1>11, <1>k, <2>1, Zenon
<1>22. Lies(t0, t2, 0) /\ Lies(po, t2, 1)
  BY <1>1, <1>2, <1>11, <1>12, LiesStill
<1> HIDE DEF t2
<1>31. t3 \in Seq(S)
  BY <1>21, LiesBehind, ZenonT(40)
<1>32. Lies(t0, t3, 0) /\ Lies(po, t3, 1) /\ Lies(pa, t3, k)
  BY <1>1, <1>2, <1>21, <1>22, <1>k, LiesStill
<1> HIDE DEF t3
<1>41. t4 \in Seq(S)
  BY <1>31, LiesBehind, ZenonT(40)
<1>42. Lies(t0, t4, 0) /\ Lies(po, t4, 1) /\ Lies(pa, t4, k)
  BY <1>1, <1>2, <1>31, <1>32, <1>k, LiesStill
<1> HIDE DEF t4
<1>51. Len(t4) \in Nat /\ 1 <= Len(t4) /\ t4[1] = "www"
  <2>1. Len(t4) \in Nat
    BY <1>41, LenProperties
  <2>2. 0 + 1 <= Len(t4) /\ \A i \in 1 .. 1 : t4[0 + i] = t0[i]
    BY <1>1, <1>42 DEF Lies
  <2>3. t4[0 + 1] = t0[1]
    BY <2>2
  <2> QED
    BY <1>4, <2>1, <2>2, <2>3
<1> QED
  BY <1>3, <1>41, <1>42, <1>51, <1>k, Zenon

\* Without a port a short hand is HTTP: there is no colon.
LEMMA NoPortHttp ==
    ASSUME NEW p \in PartsSet, p.port = <<>>
    PROVE  Rewritten(Short(p)) = Prefixed("http", Short(p))
<1> DEFINE t == Short(p)
           S == Words \ {":"}
<1>1. p.port \in Seq(S) /\ p.path \in Seq(S) /\ p.query \in Seq(S) /\ p.fragment \in Seq(S) /\ "www" \in S
  <2>1. "/" \in S /\ "dir" \in S /\ "file" \in S /\ "?" \in S /\ "q" \in S /\ "#" \in S /\ "part" \in S /\ "x" \in S
        /\ "www" \in S
    BY DEF Words, Separators
  <2> HIDE DEF S
  <2>2. <<>> \in Seq(S)
    BY EmptySeq
  <2>3. <<"?", "q">> \in Seq(S) /\ <<"#", "part">> \in Seq(S) /\ <<"/">> \in Seq(S)
    BY <2>1, FewAre
  <2>4. <<"/", "dir", "/", "file">> \in Seq(S) /\ <<"#", "part", "?", "x">> \in Seq(S)
    BY <2>1, FewAre
  <2>5. /\ p.path \in {<<>>, <<"/">>, <<"/", "dir", "/", "file">>} /\ p.query \in {<<>>, <<"?", "q">>}
        /\ p.fragment \in {<<>>, <<"#", "part">>, <<"#", "part", "?", "x">>}
    BY PartsAre
  <2> QED
    BY <2>1, <2>2, <2>3, <2>4, <2>5
<1>2. t \in Seq(S) /\ Len(t) \in Nat /\ 1 <= Len(t) /\ t[1] = "www"
  <2> HIDE DEF S
  <2> QED
    BY <1>1, ShortIs
<1> HIDE DEF t
<1>3. DOMAIN t = 1 .. Len(t) /\ \A i \in DOMAIN t : t[i] # ":"
  BY <1>2, LenProperties, ElementOfSeq
<1> DEFINE stops == {i \in DOMAIN t : t[i] \in {":", "/"}}
           q == IF stops = {} THEN Len(t) + 1 ELSE CHOOSE i \in stops : \A j \in stops : i <= j
<1>4. q # 1
  <2>1. 1 \notin stops
    BY <1>2
  <2>2. stops # {} => (CHOOSE i \in stops : \A j \in stops : i <= j) \in stops
    <3>1. ASSUME stops # {} PROVE \E i \in stops : \A j \in stops : i <= j
      <4>1. stops \subseteq 0 .. Len(t) /\ Len(t) \in Nat
        BY <1>2, <1>3
      <4> HIDE DEF stops
      <4> QED
        BY <3>1, <4>1, Least
    <3> HIDE DEF stops
    <3> QED
      BY <3>1
  <2>3. Len(t) + 1 # 1
    BY <1>2
  <2> HIDE DEF stops
  <2>4. CASE stops = {}
    <3>1. q = Len(t) + 1
      BY <2>4
    <3> QED
      BY <2>3, <3>1
  <2>5. CASE stops # {}
    <3>1. q \in stops
      BY <2>2, <2>5
    <3> QED
      BY <2>1, <3>1
  <2> QED
    BY <2>4, <2>5
<1> HIDE DEF q
<1>5. CharAt(t, q) # ":"
  BY <1>3 DEF CharAt, Terminator
<1>6. Rewritten(t) = Prefixed("http", t)
  <2>1. Rewritten(t) =
            IF q = 1 \/ (CharAt(t, q) = ":" /\ CharAt(t, q + 1) = "/" /\ CharAt(t, q + 2) = "/") THEN t
            ELSE IF CharAt(t, q) = ":" /\ ~ (IsNumber(t, q + 1) /\ PortFollows(t, q))
            THEN Prefixed("ftp", [t EXCEPT ![q] = "/"])
            ELSE Prefixed("http", t)
    BY Zenon DEF Rewritten, q, stops
  <2> QED
    BY <1>4, <1>5, <2>1, Zenon
<1> QED
  BY <1>6 DEF t

\* With a port it is HTTP, or FTP if a colon is followed by a port that no path follows.
LEMMA WithPortEither ==
    ASSUME NEW p \in PartsSet, p.port # <<>>
    PROVE  \/ Rewritten(Short(p)) = Prefixed("http", Short(p))
           \/ p.path = <<>> /\ \E x \in Seq(Words) : Rewritten(Short(p)) = Prefixed("ftp", x)
<1> DEFINE t == Short(p)
<1>1. PICK w \in DOMAIN Ports : p.port = <<":", w>>
  BY PartsAre
<1>2. t \in Seq(Words) /\ Len(t) \in Nat /\ 1 <= Len(t) /\ t[1] = "www"
      /\ Lies(p.port, t, 1) /\ Lies(p.path, t, 1 + Len(p.port))
  <2>1. "www" \in Words
    BY DEF Words
  <2> QED
    BY <2>1, PartsWords, ShortIs
<1> HIDE DEF t
<1>3. Len(<<":", w>>) = 2
  OBVIOUS
<1>4. t[2] = ":" /\ t[3] = w /\ 3 <= Len(t)
  <2>1. Lies(<<":", w>>, t, 1)
    BY <1>1, <1>2
  <2>2. 1 \in Nat /\ 2 = 1 + 1 /\ 3 = 1 + 2
    OBVIOUS
  <2>3. t[2] = ":" /\ t[3] = w
    BY <2>1, <2>2, LiesTwo
  <2>4. 1 + Len(<<":", w>>) <= Len(t)
    BY <2>1, Zenon DEF Lies
  <2> QED
    BY <1>3, <2>3, <2>4
<1>5. w \notin {":", "/"}
  BY UrlAssumption DEF Separators
<1>6. DOMAIN t = 1 .. Len(t) /\ 2 \in DOMAIN t /\ 3 \in DOMAIN t
  BY <1>2, <1>4, LenProperties
<1> DEFINE stops == {i \in DOMAIN t : t[i] \in {":", "/"}}
           q == IF stops = {} THEN Len(t) + 1 ELSE CHOOSE i \in stops : \A j \in stops : i <= j
<1>7. q = 2
  <2>1. 2 \in stops /\ \A j \in stops : 2 <= j
    BY <1>2, <1>4, <1>6
  <2>2. \A i \in stops : (\A j \in stops : i <= j) => i = 2
    BY <1>2, <1>6, <2>1
  <2>3. stops # {}
    BY <2>1
  <2> HIDE DEF stops
  <2>4. (CHOOSE i \in stops : \A j \in stops : i <= j) = 2
    BY <2>1, <2>2
  <2> QED
    BY <2>3, <2>4
<1>8. Rewritten(t) =
          IF q = 1 \/ (CharAt(t, q) = ":" /\ CharAt(t, q + 1) = "/" /\ CharAt(t, q + 2) = "/") THEN t
          ELSE IF CharAt(t, q) = ":" /\ ~ (IsNumber(t, q + 1) /\ PortFollows(t, q))
          THEN Prefixed("ftp", [t EXCEPT ![q] = "/"])
          ELSE Prefixed("http", t)
  BY Zenon DEF Rewritten
<1> HIDE DEF q
<1>9. CharAt(t, 2) = ":" /\ CharAt(t, 2 + 1) = w /\ IsNumber(t, 2 + 1)
  BY <1>4, <1>6 DEF CharAt, IsNumber
<1>10. ~ (q = 1 \/ (CharAt(t, q) = ":" /\ CharAt(t, q + 1) = "/" /\ CharAt(t, q + 2) = "/"))
  BY <1>5, <1>7, <1>9
<1>11. CASE PortFollows(t, 2)
  <2>1. Rewritten(t) = Prefixed("http", t)
    BY <1>7, <1>8, <1>9, <1>10, <1>11, Zenon
  <2> QED
    BY <2>1 DEF t
<1>12. CASE ~ PortFollows(t, 2)
  <2>1. Rewritten(t) = Prefixed("ftp", [t EXCEPT ![2] = "/"])
    BY <1>7, <1>8, <1>9, <1>10, <1>12, Zenon
  <2>2. [t EXCEPT ![2] = "/"] \in Seq(Words)
    <3>1. "/" \in Words
      BY DEF Words, Separators
    <3> QED
      BY <1>2, <1>6, <3>1, ExceptSeq
  <2>3. p.path = <<>>
    <3>1. ASSUME p.path # <<>> PROVE FALSE
      <4>1. p.path \in {<<"/">>, <<"/", "dir", "/", "file">>}
        BY <3>1, PartsAre
      <4>2. 1 <= Len(p.path) /\ p.path[1] = "/" /\ Len(p.path) \in Nat
        <5>1. LET u == <<"/">> IN 1 <= Len(u) /\ u[1] = "/" /\ Len(u) \in Nat
          OBVIOUS
        <5>2. LET u == <<"/", "dir", "/", "file">> IN 1 <= Len(u) /\ u[1] = "/" /\ Len(u) \in Nat
          OBVIOUS
        <5> QED
          BY <4>1, <5>1, <5>2, Zenon
      <4>3. Lies(p.path, t, 3)
        <5>1. 1 + Len(p.port) = 3
          BY <1>1, <1>3
        <5> QED
          BY <1>2, <5>1
      <4>4. 3 + Len(p.path) <= Len(t) /\ t[3 + 1] = p.path[1]
        BY <4>2, <4>3 DEF Lies
      <4>5. 4 \in DOMAIN t /\ t[4] = "/"
        BY <1>2, <1>6, <4>2, <4>4
      <4>6. PortFollows(t, 2)
        <5>1. IsNumber(t, 2 + 1) /\ 2 + 2 = 4
          BY <1>9
        <5>2. CharAt(t, 4) = "/"
          BY <4>5 DEF CharAt
        <5> QED
          BY <5>1, <5>2 DEF PortFollows
      <4> QED
        BY <1>12, <4>6
    <3> QED
      BY <3>1
  <2> QED
    BY <2>1, <2>2, <2>3 DEF t
<1> QED
  BY <1>11, <1>12

LEMMA SchemeKept ==
    ASSUME NEW x \in Seq(Words), NEW text, Rewritten(text) = Prefixed("ftp", x)
    PROVE  ParseUrl(text).scheme = <<"ftp">>
<1> DEFINE t == Prefixed("ftp", x)
<1>0. "ftp" \in Words
  BY DEF Words
<1>1. t \in Seq(Words) /\ Len(t) \in Nat /\ 4 <= Len(t) /\ t[1] = "ftp" /\ t[2] = ":" /\ t[3] = "/" /\ t[4] = "/"
  BY <1>0, PrefixedIs
<1> HIDE DEF t
<1>2. DOMAIN t = 1 .. Len(t) /\ 3 \in DOMAIN t /\ 4 \in DOMAIN t
  BY <1>1, LenProperties
<1>3. Find(t, ":", 1) = 2
  <2>1. FreeOf(t, ":", 1, 2)
    BY <1>1 DEF FreeOf
  <2> QED
    BY <1>1, <2>1, PlaceFound
<1>4. CharAt(t, 2 + 1) = "/" /\ CharAt(t, 2 + 2) = "/"
  BY <1>1, <1>2 DEF CharAt
<1>5. SubSeq(t, 1, 2 - 1) = <<"ftp">> /\ <<"ftp">> # <<"file">>
  <2>1. SubSeq(t, 1, 1) = <<t[1]>>
    BY <1>1, OneCut
  <2>2. <<"ftp">>[1] = "ftp" /\ <<"file">>[1] = "file"
    OBVIOUS
  <2> QED
    BY <1>1, <2>1, <2>2
<1> DEFINE g == SchemeOf(t)
<1>6. g.scheme = <<"ftp">> /\ g.host = TRUE
  <2>1. 2 # 0 /\ 2 # 1
    OBVIOUS
  <2>2. g = [scheme |-> <<"ftp">>, s |-> 2 + 3, host |-> TRUE, port |-> 0]
    BY <1>3, <1>4, <1>5, <2>1 DEF SchemeOf
  <2> QED
    BY <2>2
<1> HIDE DEF g
<1> DEFINE slots == {"ok", "scheme", "user", "pass", "host", "port", "path", "query", "fragment", "full"}
           u == [EmptyUrl EXCEPT !.scheme = g.scheme, !.port = g.port]
           e == AuthorityEnd(t, g.s)
           a == WithAuthority(u, t, g.s, e)
<1>7. u.scheme = <<"ftp">> /\ DOMAIN u = slots
  BY <1>6 DEF EmptyUrl
<1> HIDE DEF u, e
<1>8. a.scheme = <<"ftp">> /\ DOMAIN a = slots
  BY <1>7 DEF WithAuthority
<1> HIDE DEF a
<1>9. WithPath(a, t, e).scheme = <<"ftp">>
  BY <1>8 DEF WithPath
<1>10. ParseUrl(text) = a \/ ParseUrl(text) = WithPath(a, t, e)
  BY <1>6 DEF ParseUrl, a, e, u, g, t
<1> QED
  BY <1>8, <1>9, <1>10

LEMMA ShortHandRead ==
    ASSUME NEW p \in PartsSet, p.scheme = <<>>, p.login = <<>>
    PROVE  \/ ParseUrl(Compose(p)) = ParseUrl(Prefixed("http", Compose(p)))
           \/ p.port # <<>> /\ p.path = <<>> /\ ParseUrl(Compose(p)).scheme = <<"ftp">>
<1> DEFINE t == Compose(p)
           long == Prefixed("http", t)
<1>1. t = Short(p)
  <2>1. <<>> \o <<>> = <<>> /\ <<>> \o <<"www">> = <<"www">>
    <3>1. <<"www">> \in Seq({"www"}) /\ <<>> \in Seq({"www"})
      BY FewAre
    <3> QED
      BY <3>1, ConcatEmptySeq
  <2> QED
    BY <2>1, Zenon DEF Compose, Short
<1>2. t \in Seq(Words)
  <2>1. "www" \in Words
    BY DEF Words
  <2> QED
    BY <1>1, <2>1, PartsWords, ShortIs
<1> HIDE DEF t
<1>3. Rewritten(long) = long
  <2>1. "http" \in Words /\ "http" \notin {":", "/"}
    BY DEF Words
  <2>2. long \in Seq(Words) /\ Len(long) \in Nat /\ 4 <= Len(long)
        /\ long[1] = "http" /\ long[2] = ":" /\ long[3] = "/" /\ long[4] = "/"
    BY <1>2, <2>1, PrefixedIs
  <2> HIDE DEF long
  <2> QED
    BY <2>1, <2>2, PrefixStays
<1> HIDE DEF long
<1>4. ASSUME Rewritten(t) = long PROVE ParseUrl(t) = ParseUrl(long)
  BY <1>3, <1>4, Zenon DEF ParseUrl
<1>5. CASE p.port = <<>>
  <2>1. Rewritten(t) = long
    BY <1>1, <1>5, NoPortHttp, Zenon DEF long
  <2> QED
    BY <1>4, <2>1 DEF t, long
<1>6. CASE p.port # <<>>
  <2>1. Rewritten(t) = long \/ (p.path = <<>> /\ \E x \in Seq(Words) : Rewritten(t) = Prefixed("ftp", x))
    BY <1>1, <1>6, WithPortEither, Zenon DEF long
  <2>2. CASE Rewritten(t) = long
    BY <1>4, <2>2 DEF t, long
  <2>3. CASE p.path = <<>> /\ \E x \in Seq(Words) : Rewritten(t) = Prefixed("ftp", x)
    <3>1. ParseUrl(t).scheme = <<"ftp">>
      BY <2>3, SchemeKept
    <3> QED
      BY <1>6, <2>3, <3>1 DEF t
  <2> QED
    BY <2>1, <2>2, <2>3
<1> QED
  BY <1>5, <1>6

-----------------------------------------------------------------------------
(* URLs: The theorem                                                       *)

\* What is asked of the server: path is what Parse made of it until a getter
\* puts "/" where nothing was, and from then on full_path is answered.
GetsAre ==
    /\ answers \in Seq({DefaultPath, parsed.full})
    /\ path = parsed.path \/ path = DefaultPath
    /\ parsed.path # NULL => path = parsed.path
    /\ answers # <<>> => path # NULL
    /\ \A i \in DOMAIN answers : parsed.path # NULL \/ i > 1 => answers[i] = parsed.full

UrlInv == parts \in PartsSet /\ parsed = ParseUrl(Compose(parts)) /\ GetsAre

LEMMA SlashIsSomething == DefaultPath # NULL
<1>1. <<"/">>[1] = "/" /\ <<"NULL">>[1] = "NULL"
  OBVIOUS
<1> QED
  BY <1>1 DEF DefaultPath, NULL

LEMMA UrlStarts == UrlInit => UrlInv
<1> SUFFICES ASSUME UrlInit PROVE UrlInv
  OBVIOUS
<1>1. PICK p \in PartsSet : UrlStart(p)
  BY DEF UrlInit
<1>2. parts = p /\ parsed = ParseUrl(Compose(parts)) /\ path = parsed.path /\ answers = <<>>
  BY <1>1 DEF UrlStart
<1>3. answers \in Seq({DefaultPath, parsed.full}) /\ DOMAIN answers = {}
  BY <1>2, EmptySeq
<1> QED
  BY <1>2, <1>3 DEF UrlInv, GetsAre

LEMMA UrlSteps == UrlInv /\ [UrlNext]_uvars => UrlInv'
<1> SUFFICES ASSUME UrlInv, [UrlNext]_uvars PROVE UrlInv'
  OBVIOUS
<1> USE DEF UrlInv
<1>1. CASE GetPath
  <2>1. parts' = parts /\ parsed' = parsed /\ answers' = answers /\ path' = IF path = NULL THEN DefaultPath ELSE path
    BY <1>1 DEF GetPath
  <2>2. GetsAre'
    BY <2>1, SlashIsSomething DEF GetsAre
  <2> QED
    BY <2>1, <2>2
<1>2. CASE GetFullPath
  <2> DEFINE S == {DefaultPath, parsed.full}
             ans == IF path = NULL THEN DefaultPath ELSE parsed.full
  <2>1. /\ parts' = parts /\ parsed' = parsed /\ answers' = Append(answers, ans)
        /\ path' = IF path = NULL THEN DefaultPath ELSE path
    BY <1>2 DEF GetFullPath
  <2>2. answers \in Seq(S) /\ ans \in S
    BY DEF GetsAre
  <2>3. Len(answers) \in Nat /\ DOMAIN answers = 1 .. Len(answers)
    BY <2>2, LenProperties
  <2>4. /\ answers' \in Seq(S) /\ Len(answers') = Len(answers) + 1
        /\ \A i \in 1 .. Len(answers) : answers'[i] = answers[i]
        /\ answers'[Len(answers) + 1] = ans
    <3> HIDE DEF S, ans
    <3> QED
      BY <2>1, <2>2, AppendProperties
  <2>5. DOMAIN answers' = 1 .. Len(answers) + 1
    <3> HIDE DEF S
    <3> QED
      BY <2>3, <2>4, LenProperties
  <2>6. path' # NULL
    BY <2>1, SlashIsSomething
  <2>7. (path' = parsed.path \/ path' = DefaultPath) /\ (parsed.path # NULL => path' = parsed.path)
    BY <2>1 DEF GetsAre
  <2>8. ASSUME NEW i \in DOMAIN answers', parsed.path # NULL \/ i > 1 PROVE answers'[i] = parsed.full
    <3>1. CASE i \in DOMAIN answers
      <4>1. answers[i] = parsed.full
        BY <2>8, <3>1 DEF GetsAre
      <4> QED
        BY <2>3, <2>4, <3>1, <4>1
    <3>2. CASE i \notin DOMAIN answers
      <4>1. i = Len(answers) + 1
        BY <2>3, <2>5, <3>2
      <4>2. path # NULL
        <5>1. CASE parsed.path # NULL
          BY <5>1 DEF GetsAre
        <5>2. CASE i > 1
          <6>1. Len(answers) # 0
            BY <2>3, <4>1, <5>2
          <6>2. answers # <<>>
            BY <6>1
          <6> QED
            BY <6>2 DEF GetsAre
        <5> QED
          BY <2>8, <5>1, <5>2
      <4>3. ans = parsed.full
        BY <4>2
      <4> HIDE DEF ans
      <4> QED
        BY <2>4, <4>1, <4>3
    <3> QED
      BY <3>1, <3>2
  <2>9. GetsAre'
    <3>1. answers' \in Seq({DefaultPath', parsed'.full})
      BY <2>1, <2>4 DEF DefaultPath
    <3> HIDE DEF S, ans
    <3> QED
      BY <2>1, <2>6, <2>7, <2>8, <3>1 DEF GetsAre
  <2> QED
    BY <2>1, <2>9
<1>3. CASE UNCHANGED uvars
  <2>1. parts' = parts /\ parsed' = parsed /\ path' = path /\ answers' = answers
    BY <1>3 DEF uvars
  <2> QED
    BY <2>1 DEF GetsAre
<1> QED
  BY <1>1, <1>2, <1>3 DEF UrlNext

\* A URL with a scheme is put together as LayOut takes it.
LEMMA SchemeIs ==
    ASSUME NEW p \in PartsSet, p.scheme # <<>>
    PROVE  \E s \in Words : /\ s \notin Separators \cup {Terminator} /\ p.scheme = Schemed(s)
                            /\ p.scheme[1] = s /\ Compose(p) = Composed(p, Schemed(s))
<1>1. PICK s \in Schemes : p.scheme = Schemed(s)
  BY PartsAre
<1>2. s \in Words /\ s \notin Separators \cup {Terminator}
  BY UrlAssumption DEF Words
<1>3. p.scheme[1] = s
  <2>1. Schemed(s)[1] = s
    BY DEF Schemed
  <2> QED
    BY <1>1, <2>1
<1>4. Compose(p) = Composed(p, Schemed(s))
  BY <1>1, Zenon DEF Compose, Composed
<1> QED
  BY <1>1, <1>2, <1>3, <1>4

LEMMA PlainIs == ASSUME parts \in PartsSet, PlainText PROVE PlainUrl(parts) /\ parts.scheme # <<>>
<1>1. parts.scheme # <<>> /\ (Len(parts.fragment) < 3 \/ parts.query # <<>>)
  BY DEF PlainText
<1>2. CASE parts.query # <<>>
  BY <1>1, <1>2, Zenon DEF PlainUrl
<1>3. CASE Len(parts.fragment) < 3
  <2>1. parts.fragment \in {<<>>, <<"#", "part">>, <<"#", "part", "?", "x">>}
    BY PartsAre
  <2> DEFINE x == <<"#", "part", "?", "x">>
  <2>2. Len(x) = 4
    OBVIOUS
  <2> HIDE DEF x
  <2>3. ASSUME parts.fragment = x PROVE FALSE
    <3>1. Len(parts.fragment) = 4
      BY <2>2, <2>3, Zenon
    <3> QED
      BY <1>3, <3>1
  <2> QED
    BY <1>1, <2>1, <2>3, Zenon DEF PlainUrl, x
<1> QED
  BY <1>1, <1>2, <1>3

LEMMA PartsAreFound == UrlInv => PartsFound
<1> SUFFICES ASSUME UrlInv, PlainText
             PROVE  /\ parsed.ok /\ parsed.scheme = <<parts.scheme[1]>> /\ parsed.host = <<"www">>
                    /\ parsed.user = (IF parts.login = <<>> THEN NULL ELSE <<"me">>)
                    /\ parsed.pass = (IF Len(parts.login) = 4 THEN <<"secret">> ELSE NULL)
                    /\ parts.port # <<>> => parsed.port = Port16(Ports[parts.port[2]])
                    /\ parsed.path = After(parts.path, 0)
                    /\ parsed.query = After(parts.query, 1)
                    /\ parsed.fragment = After(parts.fragment, 1)
  BY Zenon DEF PartsFound
<1>1. parts \in PartsSet /\ parsed = ParseUrl(Compose(parts))
  BY DEF UrlInv
<1>2. PlainUrl(parts) /\ parts.scheme # <<>>
  BY <1>1, PlainIs
<1>3. PICK s \in Words : /\ s \notin Separators \cup {Terminator} /\ parts.scheme = Schemed(s)
                         /\ parts.scheme[1] = s /\ Compose(parts) = Composed(parts, Schemed(s))
  BY <1>1, <1>2, SchemeIs
<1>4. ParseUrl(Composed(parts, Schemed(s))) = Analysed(parts, s)
  BY <1>1, <1>2, <1>3, UrlAnalysed
<1>5. parsed = Analysed(parts, s)
  BY <1>1, <1>3, <1>4, Zenon
<1>6. /\ parsed.ok = TRUE /\ parsed.scheme = <<s>> /\ parsed.host = <<"www">>
      /\ parsed.user = Login(parts) /\ parsed.pass = Secret(parts) /\ parsed.port = PortOf(parts)
      /\ parsed.path = After(parts.path, 0) /\ parsed.query = After(parts.query, 1)
      /\ parsed.fragment = After(parts.fragment, 1)
  BY <1>5 DEF Analysed
<1>7. parts.port # <<>> => PortOf(parts) = Port16(Ports[parts.port[2]])
  BY Zenon DEF PortOf
<1> QED
  BY <1>3, <1>6, <1>7, Zenon DEF Login, Secret

\* The path with its query.
LEMMA PathOfFull ==
    ASSUME NEW p \in PartsSet, p.path # <<>>
    PROVE  After(p.path, 0) # NULL /\ FullOf(After(p.path, 0), After(p.query, 1)) = p.path \o p.query
<1>1. p.path \in Seq(Words) /\ p.query \in Seq(Words)
  BY PartsWords
<1>2. p.path = <<"/">> \/ p.path = <<"/", "dir", "/", "file">>
  <2>1. p.path \in {<<>>, <<"/">>, <<"/", "dir", "/", "file">>}
    BY PartsAre
  <2> QED
    BY <2>1, Zenon
<1>3. p.path[1] = "/" /\ Len(p.path) > 0 /\ Len(p.path) \in Nat
  <2>1. LET u == <<"/">> IN u[1] = "/" /\ Len(u) > 0 /\ Len(u) \in Nat
    OBVIOUS
  <2>2. LET u == <<"/", "dir", "/", "file">> IN u[1] = "/" /\ Len(u) > 0 /\ Len(u) \in Nat
    OBVIOUS
  <2> QED
    BY <1>2, <2>1, <2>2, Zenon
<1>4. After(p.path, 0) = p.path
  <2>1. SubSeq(p.path, 0 + 1, Len(p.path)) = p.path
    <3> DEFINE u == p.path
               i == 0 + 1
    <3>1. Lies(u, u, 0) /\ 0 \in Nat /\ i \in Int /\ i = 0 + 1 /\ Len(u) \in Int /\ Len(u) = 0 + Len(u)
      BY <1>3 DEF Lies
    <3>2. u \in Seq(Words)
      BY <1>1
    <3> HIDE DEF u, i
    <3>3. SubSeq(u, i, Len(u)) = u
      BY <3>1, <3>2, CutOut
    <3> QED
      BY <3>3 DEF u, i
  <2> QED
    BY <1>3, <2>1 DEF After
<1>5. p.path # NULL
  <2>1. <<"NULL">>[1] = "NULL"
    OBVIOUS
  <2> QED
    BY <1>3, <2>1 DEF NULL
<1>6. CASE p.query = <<>>
  <2>1. After(p.query, 1) = NULL
    <3>1. Len(<<>>) = 0
      OBVIOUS
    <3> QED
      BY <1>6, <3>1 DEF After
  <2>2. p.path \o <<>> = p.path
    BY <1>1, ConcatEmptySeq
  <2> QED
    BY <1>4, <1>5, <1>6, <2>1, <2>2, Zenon DEF FullOf
<1>7. CASE p.query = <<"?", "q">>
  <2>0. "?" \in Words /\ "q" \in Words
    BY DEF Words, Separators
  <2>1. After(p.query, 1) = <<"q">>
    <3> DEFINE u == <<"?", "q">>
    <3>1. u \in Seq(Words) /\ Len(u) = 2 /\ u[2] = "q"
      BY <2>0, FewAre
    <3> HIDE DEF u
    <3>2. SubSeq(u, 2, 2) = <<"q">>
      <4>1. 2 \in 1 .. Len(u)
        BY <3>1
      <4>2. SubSeq(u, 2, 2) = <<u[2]>>
        BY <3>1, <4>1, OneCut
      <4> QED
        BY <3>1, <4>2
    <3>3. After(u, 1) = <<"q">>
      BY <3>1, <3>2 DEF After
    <3> QED
      BY <1>7, <3>3 DEF u
  <2>2. <<"q">> # NULL
    <3>1. <<"NULL">>[1] = "NULL" /\ <<"q">>[1] = "q"
      OBVIOUS
    <3> QED
      BY <3>1 DEF NULL
  <2>3. <<"?">> \o <<"q">> = <<"?", "q">>
    <3> DEFINE a == <<"?">>
               b == <<"q">>
               c == <<"?", "q">>
               j == Joined(a, b)
    <3>1. a \in Seq(Words) /\ b \in Seq(Words) /\ c \in Seq(Words) /\ Len(a) = 1 /\ Len(b) = 1 /\ Len(c) = 2
          /\ a[1] = "?" /\ b[1] = "q" /\ c[1] = "?" /\ c[2] = "q"
      BY <2>0, FewAre
    <3> HIDE DEF a, b, c
    <3>2. /\ j \in Seq(Words) /\ Len(j) = Len(a) + Len(b)
          /\ \A i \in 1 .. Len(a) : j[i] = a[i]
          /\ \A i \in 1 .. Len(b) : j[Len(a) + i] = b[i]
      <4>1. a \in Seq(Words) /\ b \in Seq(Words)
        BY <3>1
      <4>2. j \in Seq(Words) /\ Len(j) = Len(a) + Len(b)
        BY <4>1, JoinedIs
      <4>3. \A i \in 1 .. Len(a) : j[i] = a[i]
        BY <4>1, JoinedIs
      <4>4. \A i \in 1 .. Len(b) : j[Len(a) + i] = b[i]
        BY <4>1, JoinedIs
      <4> QED
        BY <4>2, <4>3, <4>4
    <3> HIDE DEF j
    <3>3. Len(j) = 2 /\ j[1] = "?" /\ j[1 + 1] = "q"
      BY <3>1, <3>2
    <3>4. \A i \in 1 .. Len(j) : j[i] = c[i]
      <4>1. \A i \in 1 .. 2 : i = 1 \/ i = 1 + 1
        OBVIOUS
      <4> QED
        BY <3>1, <3>3, <4>1
    <3>5. j = c
      BY <3>1, <3>2, <3>3, <3>4, SameSeq
    <3> QED
      BY <3>5, Zenon DEF j, a, b, c, Joined
  <2>4. (p.path \o <<"?">>) \o <<"q">> = p.path \o (<<"?">> \o <<"q">>)
    <3>1. <<"?">> \in Seq(Words) /\ <<"q">> \in Seq(Words)
      BY <2>0, FewAre
    <3> QED
      BY <1>1, <3>1, ConcatAssociative
  <2>5. FullOf(p.path, <<"q">>) = (p.path \o <<"?">>) \o <<"q">>
    BY <1>5, <2>2, Zenon DEF FullOf
  <2> QED
    BY <1>4, <1>5, <1>7, <2>1, <2>3, <2>4, <2>5, Zenon
<1>8. p.query = <<>> \/ p.query = <<"?", "q">>
  BY PartsAre, Zenon
<1> QED
  BY <1>6, <1>7, <1>8

LEMMA FullPathIsKept == UrlInv => FullPathKept
<1> SUFFICES ASSUME UrlInv, NEW i \in DOMAIN answers
             PROVE  /\ PlainText /\ parts.path # <<>> => answers[i] = parts.path \o parts.query
                    /\ PlainText /\ i > 1 /\ parsed.path = NULL => answers[i] = parsed.full
  BY Zenon DEF FullPathKept
<1>1. parts \in PartsSet /\ parsed = ParseUrl(Compose(parts))
  BY DEF UrlInv
<1>2. parsed.path # NULL \/ i > 1 => answers[i] = parsed.full
  BY DEF UrlInv, GetsAre
<1>3. ASSUME PlainText, parts.path # <<>> PROVE answers[i] = parts.path \o parts.query
  <2>1. PlainUrl(parts) /\ parts.scheme # <<>>
    BY <1>1, <1>3, PlainIs
  <2>2. PICK s \in Words : /\ s \notin Separators \cup {Terminator} /\ parts.scheme = Schemed(s)
                           /\ parts.scheme[1] = s /\ Compose(parts) = Composed(parts, Schemed(s))
    BY <1>1, <2>1, SchemeIs
  <2>3. ParseUrl(Composed(parts, Schemed(s))) = Analysed(parts, s)
    BY <1>1, <2>1, <2>2, UrlAnalysed
  <2>4. parsed = Analysed(parts, s)
    BY <1>1, <2>2, <2>3, Zenon
  <2>5. parsed.path = After(parts.path, 0) /\ parsed.full = FullOf(After(parts.path, 0), After(parts.query, 1))
    BY <1>3, <2>4 DEF Analysed
  <2>6. After(parts.path, 0) # NULL /\ FullOf(After(parts.path, 0), After(parts.query, 1)) = parts.path \o parts.query
    BY <1>1, <1>3, PathOfFull
  <2> QED
    BY <1>2, <2>5, <2>6, Zenon
<1> QED
  BY <1>2, <1>3

LEMMA ShortHandIsCompleted == UrlInv => ShortHandCompleted
<1> SUFFICES ASSUME UrlInv, parts.scheme = <<>>, parts.login = <<>>
             PROVE  \/ parsed = ParseUrl(Prefixed("http", Compose(parts)))
                    \/ parts.port # <<>> /\ parts.path = <<>> /\ parsed.scheme = <<"ftp">>
  BY Zenon DEF ShortHandCompleted
<1>1. parts \in PartsSet /\ parsed = ParseUrl(Compose(parts))
  BY DEF UrlInv
<1>2. \/ ParseUrl(Compose(parts)) = ParseUrl(Prefixed("http", Compose(parts)))
      \/ parts.port # <<>> /\ parts.path = <<>> /\ ParseUrl(Compose(parts)).scheme = <<"ftp">>
  BY <1>1, ShortHandRead
<1> QED
  BY <1>1, <1>2, Zenon

LEMMA FileIsNamed == UrlInv => FileNamed
<1> SUFFICES ASSUME UrlInv, parts.scheme # <<>>
             PROVE  GetBaseFileName(Compose(parts)) =
                        LET name == Leaf(parts) \o Added(parts) IN IF name = <<>> THEN <<"index.html">> ELSE name
  BY Zenon DEF FileNamed, Leaf, Added
<1>1. parts \in PartsSet
  BY DEF UrlInv
<1>2. PICK s \in Words : /\ s \notin Separators \cup {Terminator} /\ parts.scheme = Schemed(s)
                         /\ parts.scheme[1] = s /\ Compose(parts) = Composed(parts, Schemed(s))
  BY <1>1, SchemeIs
<1>3. GetBaseFileName(Composed(parts, Schemed(s))) =
          LET name == Leaf(parts) \o Added(parts) IN IF name = <<>> THEN <<"index.html">> ELSE name
  BY <1>1, <1>2, FileFound
<1> QED
  BY <1>2, <1>3, Zenon

\* URL::Parse, RewriteShortHandUrl and the getters: for every scheme and port, a
\* URL is taken apart into the parts it was put together from, whichever of them
\* are missing; a short hand is completed; the path asked of the server keeps the
\* query, every time it is asked for; the file is named after the last component.
THEOREM UrlsTakenApart == UrlSpec => []UrlTakenApart
<1>1. UrlInit => UrlInv
  BY UrlStarts
<1>2. UrlInv /\ [UrlNext]_uvars => UrlInv'
  BY UrlSteps
<1>3. UrlInv => UrlTakenApart
  BY PartsAreFound, ShortHandIsCompleted, FullPathIsKept, FileIsNamed DEF UrlTakenApart
<1> QED
  BY <1>1, <1>2, <1>3, PTL DEF UrlSpec
=============================================================================
