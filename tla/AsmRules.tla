------------------------------ MODULE AsmRules ------------------------------
(***************************************************************************)
(* realrtsp/asmrp.c: which rules of a stream's rule book hold at a         *)
(* bandwidth.  The rules are read one after another; a rule is chosen as   *)
(* its meaning (a condition over the bandwidth, some assignments) and      *)
(* written down as symbols, which the parser reads.                        *)
(***************************************************************************)
EXTENDS Integers, Sequences, SequencesExt, Bitwise

CONSTANTS
    Bandwidths,     \* values of $Bandwidth
    Limits,         \* numbers it is compared with
    MaxRules        \* bound on the rules of a book (model)

ASSUME AsmAssumption == Bandwidths \cup Limits \subseteq Nat /\ MaxRules \in Nat

VARIABLES
    bandwidth,
    ruleNum,        \* rule_num in asmrp_eval
    matches,        \* the numbers stored so far
    aborted,        \* abort() has been called
    meant           \* history: the rules, as conditions

avars == <<bandwidth, ruleNum, matches, aborted, meant>>

-----------------------------------------------------------------------------
(* The symbols of a rule.  A symbol is <<sym, num>>. *)

\* asmrp_get_sym: one sign or two make the same symbol.
Symbol(lexeme) ==
    CASE lexeme \in {"=", "=="} -> <<"=", 0>>
      [] lexeme \in {"&", "&&"} -> <<"&", 0>>
      [] lexeme \in {"|", "||"} -> <<"|", 0>>
      [] OTHER -> <<lexeme, 0>>
NumSym(n) == <<"num", n>>
IdSym(n)  == <<"id", n>>

Sym(ts, i) == IF i \in DOMAIN ts THEN ts[i][1] ELSE "eof"

\* sym_tab: asmrp_match sets Bandwidth and OldPNMPlayer.
sym_tab == <<bandwidth, 0>>

\* A value, and the symbol the parser is at; 0 once it has aborted.
Read(v, at) == [v |-> v, at |-> at]
Abort == Read(0, 0)

RECURSIVE asmrp_condition(_, _)

asmrp_operand(ts, i) ==
    CASE Sym(ts, i) = "$" /\ Sym(ts, i + 1) = "id" -> Read(sym_tab[ts[i + 1][2]], i + 2)
      [] Sym(ts, i) = "num" -> Read(ts[i][2], i + 1)
      [] Sym(ts, i) = "(" ->
            LET c == asmrp_condition(ts, i + 1)
            IN  IF Sym(ts, c.at) = ")" THEN Read(c.v, c.at + 1) ELSE Abort
      [] OTHER -> Abort

Truth(b) == IF b THEN 1 ELSE 0
Compare(op, a, b) ==
    CASE op = "<" -> Truth(a < b) [] op = "<=" -> Truth(a <= b) [] op = "=" -> Truth(a = b)
      [] op = ">=" -> Truth(a >= b) [] op = ">" -> Truth(a > b)

RECURSIVE Compared(_, _), Combined(_, _)
Compared(ts, a) ==
    IF Sym(ts, a.at) \notin {"<", "<=", "=", ">=", ">"} THEN a
    ELSE LET b == asmrp_operand(ts, a.at + 1)
         IN  Compared(ts, Read(Compare(Sym(ts, a.at), a.v, b.v), b.at))

asmrp_comp_expression(ts, i) == Compared(ts, asmrp_operand(ts, i))

\* Mutant: from the right.
RECURSIVE Combined_Right(_, _)
Combined_Right(ts, a) ==
    IF Sym(ts, a.at) \notin {"&", "|"} THEN a
    ELSE LET b == Combined_Right(ts, asmrp_comp_expression(ts, a.at + 1))
         IN  Read(IF Sym(ts, a.at) = "&" THEN a.v & b.v ELSE a.v | b.v, b.at)

\* && and || bind alike, from the left, and are bitwise.
Combined(ts, a) ==
    IF Sym(ts, a.at) \notin {"&", "|"} THEN a
    ELSE LET b == asmrp_comp_expression(ts, a.at + 1)
         IN  Combined(ts, Read(IF Sym(ts, a.at) = "&" THEN a.v & b.v ELSE a.v | b.v, b.at))

asmrp_condition(ts, i) == Combined(ts, asmrp_comp_expression(ts, i))

\* Where an assignment ends; it may be empty.
asmrp_assignment(ts, i) ==
    IF Sym(ts, i) \in {",", ";"} THEN i
    ELSE IF Sym(ts, i) = "id" /\ Sym(ts, i + 1) = "=" /\ Sym(ts, i + 2) \in {"num", "string", "id"}
    THEN i + 3 ELSE 0

RECURSIVE Assignments(_, _)
Assignments(ts, i) ==
    IF Sym(ts, i) = "," THEN Assignments(ts, asmrp_assignment(ts, i + 1)) ELSE i

asmrp_rule(ts) ==
    LET first == CASE Sym(ts, 1) = "#" -> asmrp_condition(ts, 2)
                   [] Sym(ts, 1) = ";" -> Read(1, 1)
                   [] OTHER -> Read(1, asmrp_assignment(ts, 1))
        end == Assignments(ts, first.at)
    IN  IF Sym(ts, end) = ";" THEN Read(first.v, end + 1) ELSE Abort

-----------------------------------------------------------------------------
(* Rules as they are meant, and as they are written *)

Comparison == [op : {"<", "<=", "==", ">=", ">"}, than : Limits, paren : BOOLEAN]
Always == [op |-> "none", than |-> 0, paren |-> FALSE]
A == CHOOSE c \in Comparison : c.op = ">=" /\ ~ c.paren
B == CHOOSE c \in Comparison : c.op = "<" /\ c.paren

\* (c and/or d) and/or e, or c and/or (d and/or e); `none' stands for nothing.
Condition ==
    {[c |-> c, o |-> "none", d |-> A, p |-> "none", e |-> A, right |-> FALSE] : c \in Comparison \cup {Always}}
    \cup [c : Comparison, o : {"&&", "||"}, d : Comparison, p : {"none"}, e : {A}, right : {FALSE}]
    \cup [c : {A, B}, o : {"&&", "||"}, d : Comparison, p : {"&&", "||"}, e : {A, B}, right : BOOLEAN]

Holds(c) ==
    CASE c.op = "<" -> bandwidth < c.than [] c.op = "<=" -> bandwidth <= c.than
      [] c.op = "==" -> bandwidth = c.than [] c.op = ">=" -> bandwidth >= c.than
      [] c.op = ">" -> bandwidth > c.than [] c.op = "none" -> TRUE

Both(o, x, y) == CASE o = "&&" -> x /\ y [] o = "||" -> x \/ y [] o = "none" -> x

Means(r) ==
    IF r.right THEN Both(r.o, Holds(r.c), Both(r.p, Holds(r.d), Holds(r.e)))
    ELSE Both(r.p, Both(r.o, Holds(r.c), Holds(r.d)), Holds(r.e))

Written(c) ==
    LET bare == <<Symbol("$"), IdSym(1), Symbol(c.op), NumSym(c.than)>>
    IN  IF c.paren THEN <<Symbol("(")>> \o bare \o <<Symbol(")")>> ELSE bare

WrittenCondition(r) ==
    LET Then(o, s) == IF o = "none" THEN <<>> ELSE <<Symbol(o)>> \o s
        second == IF r.right
                  THEN <<Symbol("(")>> \o Written(r.d) \o Then(r.p, Written(r.e)) \o <<Symbol(")")>>
                  ELSE Written(r.d)
    IN  Written(r.c) \o Then(r.o, second) \o IF r.right THEN <<>> ELSE Then(r.p, Written(r.e))

Priority == <<IdSym(3), Symbol("="), NumSym(5)>>

\* The ways to write a rule down: with an assignment, an empty one or none.
Texts(r) ==
    LET comma == <<Symbol(",")>>
        semicolon == <<Symbol(";")>>
    IN  IF r.c = Always
        THEN {Priority \o semicolon, Priority \o comma \o Priority \o semicolon, semicolon}
        ELSE {<<Symbol("#")>> \o WrittenCondition(r) \o rest \o semicolon :
                rest \in {<<>>, comma, comma \o Priority, comma \o Priority \o comma \o Priority}}

-----------------------------------------------------------------------------
AsmStart(b) ==
    /\ bandwidth = b
    /\ ruleNum = 0 /\ matches = <<>> /\ aborted = FALSE /\ meant = <<>>

AsmInit == \E b \in Bandwidths : AsmStart(b)

\* One turn of the loop of asmrp_eval.
asmrp_eval ==
    \E r \in Condition : \E ts \in Texts(r) :
        LET found == asmrp_rule(ts) IN
        /\ ~ aborted /\ ruleNum < MaxRules
        /\ aborted' = (found.at # Len(ts) + 1)
        /\ matches' = IF found.v # 0 THEN Append(matches, ruleNum) ELSE matches
        /\ ruleNum' = ruleNum + 1
        /\ meant' = Append(meant, Means(r))
        /\ UNCHANGED bandwidth

AsmNext == asmrp_eval
AsmSpec == AsmInit /\ [][AsmNext]_avars

-----------------------------------------------------------------------------
\* However its conditions nest, and whatever is assigned in it, no rule of the
\* book is refused, and the rules that match are those that are true, in
\* order: real.c subscribes to these by number.
MatchesAreTrue ==
    /\ ~ aborted
    /\ matches = SelectSeq([i \in 1 .. ruleNum |-> i - 1], LAMBDA i : meant[i + 1])
=============================================================================
