------------------------------- MODULE KeyMap -------------------------------
(***************************************************************************)
(* What a hash table promises (hash.cpp, comment "INTERFACE"): a map from  *)
(* keys, up to the equality of the test function, to the key and the value *)
(* last put.                                                               *)
(***************************************************************************)
EXTENDS Functions

CONSTANTS Keys, Values, Name    \* Name[k] = Name[l]: k and l test equal

VARIABLE map

Init == map = [n \in {} |-> {}]

Put(k, v) ==
    map' = [n \in DOMAIN map \cup {Name[k]} |->
                IF n = Name[k] THEN [key |-> k, value |-> v] ELSE map[n]]

Remove(k) == map' = Restrict(map, DOMAIN map \ {Name[k]})

Clear == map' = [n \in {} |-> {}]

\* An operation that changes nothing (Put of what is there, Remove of what is
\* not) is a stutter.
Next ==
    /\ map' # map
    /\ \/ \E k \in Keys, v \in Values : Put(k, v)
       \/ \E k \in Keys : Remove(k)
       \/ Clear

Spec == Init /\ [][Next]_map
=============================================================================
