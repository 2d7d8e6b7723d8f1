------------------------------ MODULE Retriever ------------------------------
(***************************************************************************)
(* What a thread expects of a retriever (retrieve.h), whatever the         *)
(* protocol: after TaskValid has returned true and PrepairData has been    *)
(* called, the data socket delivers the document from the offset asked     *)
(* for, or nothing.  `kept' is FALSE once the other side, or the library   *)
(* underneath, has not kept its part.                                      *)
(***************************************************************************)
EXTENDS Integers

CONSTANTS Offsets, Nothing

VARIABLES phase, asked, at, kept

rvars == <<phase, asked, at, kept>>

Init == phase = "asked" /\ asked \in Offsets /\ at = Nothing /\ kept \in BOOLEAN

Breaks == kept' \in {kept, FALSE}

Fails ==
    /\ phase = "asked" /\ phase' = "refused"
    /\ UNCHANGED <<asked, at>> /\ Breaks

Valid ==
    /\ phase = "asked" /\ phase' = "valid"
    /\ UNCHANGED <<asked, at>> /\ Breaks

Worsens ==
    /\ phase \in {"asked", "valid"} /\ Breaks
    /\ UNCHANGED <<phase, asked, at>>

\* Data of the document from the offset asked for, if promises are kept.
Data == Breaks /\ IF kept' THEN at' = asked ELSE at' \in Int

Ready ==
    /\ phase = "valid" /\ phase' = "ready"
    /\ \/ Data
       \/ UNCHANGED <<at, kept>>
    /\ UNCHANGED asked

\* Data may come late, or never.
Starts ==
    /\ phase = "ready" /\ at = Nothing
    /\ Data
    /\ UNCHANGED <<phase, asked>>

Receive ==
    /\ phase = "ready" /\ at # Nothing /\ at' = at + 1
    /\ UNCHANGED <<phase, asked, kept>>

Finish ==
    /\ phase = "ready" /\ phase' = "finished"
    /\ UNCHANGED <<asked, at, kept>>

Next == Worsens \/ Fails \/ Valid \/ Ready \/ Starts \/ Receive \/ Finish

Spec == Init /\ [][Next]_rvars
=============================================================================
