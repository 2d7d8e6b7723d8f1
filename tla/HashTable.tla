------------------------------ MODULE HashTable ------------------------------
(***************************************************************************)
(* hash.cpp: open addressing with linear probing.  A table is a function   *)
(* from positions to mappings or Empty; keys are pointers to strings, and  *)
(* two keys may test equal (TestName) without being the same pointer.      *)
(***************************************************************************)
EXTENDS Integers, Sequences, FiniteSets

CONSTANTS
    Keys, Values,
    TestName,   \* test function: k and l are equal iff TestName[k] = TestName[l]
    Hashes,     \* hash functions, one of which a table is made with
    Primes,     \* the first sizes of the table `primes'
    Prealloc    \* preallocations asked for in hash_table_new

ASSUME PrimesAssumption ==
    /\ Primes \in Seq(Nat \ {0, 1}) /\ Primes # <<>>
    /\ \A i \in 1 .. Len(Primes) - 1 : Primes[i] < Primes[i + 1]
ASSUME HashesAssumption == Hashes # {} /\ Hashes \subseteq [Keys -> Nat]
\* "for any two objects that test equal under the test function, the hash function
\* MUST produce the same result" (hash.cpp:555-557).
ASSUME TestAssumption ==
    \A h \in Hashes : \A k, l \in Keys : TestName[k] = TestName[l] => h[k] = h[l]
ASSUME PreallocAssumption == Prealloc # {} /\ Prealloc \subseteq Nat

VARIABLES
    hash,           \* ht->hash_function
    mappings,       \* ht->mappings, from 0 .. ht->size - 1
    count,          \* ht->count
    offset,         \* ht->prime_offset
    iter,           \* where a running hash_table_map is, ht->size when its
                    \* loop is over, -1 if none runs
    todo, seen      \* history: keys there when the map began; keys visited

hvars == <<hash, mappings, count, offset, iter, todo, seen>>

Empty == [key |-> "invalid"]        \* INVALID_PTR

EmptyTable(size) == [p \in 0 .. size - 1 |-> Empty]
Size(tab) == Cardinality(DOMAIN tab)
NonEmpty(tab) == {p \in DOMAIN tab : tab[p] # Empty}

\* (int)(size * HASH_MAX_FULLNESS)
Threshold(size) == (3 * size) \div 4

\* Indices of `primes' prime_size may return; without one it aborts.
Sufficient(size, from) ==
    {i \in from + 1 .. Len(Primes) : Primes[i] >= size}
prime_size(size, from) ==
    CHOOSE i \in Sufficient(size, from) : \A j \in Sufficient(size, from) : i <= j

\* LOOP_NON_EMPTY from position p, with NEXT_MAPPING, to one of the stops.
FirstFrom(tab, p, stops) ==
    LET n == Size(tab)
        d == CHOOSE d \in 0 .. n - 1 :
                /\ (p + d) % n \in stops
                /\ \A e \in 0 .. d - 1 : (p + e) % n \notin stops
    IN  (p + d) % n

Position(tab, k) == hash[k] % Size(tab)

find_mapping(tab, k) ==
    FirstFrom(tab, Position(tab, k),
              {p \in DOMAIN tab : tab[p] = Empty \/ TestName[tab[p].key] = TestName[k]})

hash_table_contains(tab, k) == tab[find_mapping(tab, k)] # Empty

\* The old mappings are put, in array order, at the first empty position.
grow_hash_table(tab, newsize) ==
    LET moved[n \in 0 .. Size(tab)] ==
            IF n = 0 THEN EmptyTable(newsize)
            ELSE LET prev == moved[n - 1]
                     mp == tab[n - 1]
                     to == FirstFrom(prev, Position(prev, mp.key), {p \in DOMAIN prev : prev[p] = Empty})
                 IN  IF mp = Empty THEN prev ELSE [prev EXCEPT ![to] = mp]
    IN  moved[Size(tab)]

\* One turn of the rehashing loop: the mapping at p moves to where its key's
\* chain now ends, unless the chain still leads to it.
Rehash(tab, p) ==
    LET to == FirstFrom(tab, Position(tab, tab[p].key),
                        {q \in DOMAIN tab : tab[q] = Empty \/ tab[q].key = tab[p].key})
    IN  IF tab[to] = Empty THEN [tab EXCEPT ![to] = tab[p], ![p] = Empty] ELSE tab

\* Mutant: what follows a removed mapping is left where it is.
Deleted_NoRehash(tab, p) == [tab EXCEPT ![p] = Empty]

\* Empties position p and rehashes what follows, up to the next empty one.
Deleted(tab, p) ==
    LET At(d) == (p + d) % Size(tab)
        turn[d \in 0 .. Size(tab) - 1] ==
            IF d = 0 THEN [tab |-> [tab EXCEPT ![p] = Empty], over |-> FALSE]
            ELSE LET s == turn[d - 1]
                 IN  IF s.over \/ s.tab[At(d)] = Empty THEN [s EXCEPT !.over = TRUE]
                     ELSE [s EXCEPT !.tab = Rehash(@, At(d))]
    IN  turn[Size(tab) - 1].tab

\* hash_table_new(prealloc) with the hash function h.
hash_table_new(h, prealloc) ==
    LET size == (4 * prealloc) \div 3 + 1
        i == prime_size(size, 0)
    IN  /\ Sufficient(size, 0) # {}
        /\ hash = h
        /\ offset = i /\ mappings = EmptyTable(Primes[i]) /\ count = 0
        /\ iter = -1 /\ todo = {} /\ seen = {}

HashInit == \E h \in Hashes, prealloc \in Prealloc : hash_table_new(h, prealloc)

\* hash_table_put.  A table that would have to grow beyond Primes is not
\* explored further.
hash_table_put(k, v) ==
    LET p == find_mapping(mappings, k)
        i == prime_size(2 * Size(mappings), offset)
        grown == grow_hash_table(mappings, Primes[i])
        new == [key |-> k, value |-> v]
    IN  /\ iter = -1
        /\ \/ /\ mappings[p] # Empty
              /\ mappings' = [mappings EXCEPT ![p] = new]
              /\ UNCHANGED <<count, offset>>
           \/ /\ mappings[p] = Empty
              /\ count < Threshold(Size(mappings))
              /\ mappings' = [mappings EXCEPT ![p] = new]
              /\ count' = count + 1
              /\ UNCHANGED offset
           \/ /\ mappings[p] = Empty
              /\ count >= Threshold(Size(mappings))
              /\ Sufficient(2 * Size(mappings), offset) # {}
              /\ mappings' = [grown EXCEPT ![find_mapping(grown, k)] = new]
              /\ count' = count + 1
              /\ offset' = i
        /\ UNCHANGED <<hash, iter, todo, seen>>

\* string_set_add (utils.cpp): an element that is there is not put again.
string_set_add(k, v) == ~ hash_table_contains(mappings, k) /\ hash_table_put(k, v)

Removed(k) ==
    IF hash_table_contains(mappings, k)
    THEN /\ mappings' = Deleted(mappings, find_mapping(mappings, k))
         /\ count' = count - 1
    ELSE UNCHANGED <<mappings, count>>

hash_table_remove(k) ==
    /\ iter = -1
    /\ Removed(k)
    /\ UNCHANGED <<hash, offset, iter, todo, seen>>

hash_table_clear ==
    /\ iter = -1
    /\ mappings' = EmptyTable(Size(mappings)) /\ count' = 0
    /\ UNCHANGED <<hash, offset, iter, todo, seen>>

\* hash_table_map goes over the array; a callback may remove the entry it is
\* called with, and nothing else may change the table meanwhile.
Following(tab, p) == {q \in NonEmpty(tab) : q >= p}
NextFrom(tab, p) ==
    IF Following(tab, p) = {} THEN Size(tab)
    ELSE CHOOSE q \in Following(tab, p) : \A r \in Following(tab, p) : q <= r

MapBegin ==
    /\ iter = -1
    /\ iter' = NextFrom(mappings, 0)
    /\ todo' = {mappings[p].key : p \in NonEmpty(mappings)} /\ seen' = {}
    /\ UNCHANGED <<hash, mappings, count, offset>>

\* Mutant: no "goto repeat".
MapVisit_NoRepeat(remove) ==
    LET key == mappings[iter].key
    IN  /\ iter \in DOMAIN mappings
        /\ seen' = seen \cup {key}
        /\ IF remove THEN Removed(key) ELSE UNCHANGED <<mappings, count>>
        /\ iter' = NextFrom(mappings', iter + 1)
        /\ UNCHANGED <<hash, offset, todo>>

\* mapfun(key) returned 0, after removing the entry or not; "goto repeat" if
\* another mapping has moved to the position.
MapVisit(remove) ==
    LET key == mappings[iter].key
    IN  /\ iter \in DOMAIN mappings
        /\ seen' = seen \cup {key}
        /\ IF remove THEN Removed(key) ELSE UNCHANGED <<mappings, count>>
        /\ iter' = IF mappings'[iter] # Empty /\ mappings'[iter].key # key THEN iter
                   ELSE NextFrom(mappings', iter + 1)
        /\ UNCHANGED <<hash, offset, todo>>

\* The loop is over or mapfun has returned nonzero.
MapReturn ==
    /\ iter # -1
    /\ iter' = -1 /\ todo' = {} /\ seen' = {}
    /\ UNCHANGED <<hash, mappings, count, offset>>

HashNext ==
    \/ \E k \in Keys, v \in Values : hash_table_put(k, v) \/ string_set_add(k, v)
    \/ \E k \in Keys : hash_table_remove(k)
    \/ hash_table_clear
    \/ MapBegin
    \/ \E remove \in BOOLEAN : MapVisit(remove)
    \/ MapReturn

HashSpec == HashInit /\ [][HashNext]_hvars

-----------------------------------------------------------------------------
\* The table is the map of what hash_table_get_pair finds in it.
Found == {k \in Keys : hash_table_contains(mappings, k)}
Implements ==
    INSTANCE KeyMap WITH
        Name <- TestName,
        map <- [n \in {TestName[k] : k \in Found} |->
                   mappings[find_mapping(mappings, CHOOSE k \in Keys : TestName[k] = n)]]

\* Refinement of KeyMap: no put, growth, removal with its rehashing, or removal
\* from within hash_table_map loses, duplicates or revives an entry.
Refines == Implements!Spec

\* However many removals there were, every mapping is where find_mapping looks
\* for its key: none is left behind a gap in its probe chain.
AllFound ==
    \A p \in NonEmpty(mappings) : find_mapping(mappings, mappings[p].key) = p

\* count is the number of mappings and an empty position remains: without one
\* a search for a key that is not there would go round for ever.
Room == count = Cardinality(NonEmpty(mappings)) /\ count < Size(mappings)

\* hash_table_map calls its function for every entry that was there, even if
\* the function removes entries and the rehashing moves others, back to the
\* position it is at or to one it has left behind.
MapVisitsAll == iter = Size(mappings) => todo \subseteq seen

\* However the entries of a probe chain move when others are removed or the
\* table grows, every search and every traversal ends and misses none.
TableSound == AllFound /\ Room /\ MapVisitsAll
=============================================================================
