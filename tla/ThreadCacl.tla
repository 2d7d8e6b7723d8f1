----------------------------- MODULE ThreadCacl -----------------------------
(***************************************************************************)
(* The segment table of threadcacl.cpp: one entry per download thread      *)
(* (m_begin_position, m_got_size, m_total_size, m_state) and the size of   *)
(* the whole task.  This module holds the arithmetic of the table; the     *)
(* module Download runs the threads over it, one memory access at a time.  *)
(***************************************************************************)
EXTENDS Integers

CONSTANTS
    N,          \* g_thread_count
    SplitLive,  \* minsplitsize of a live victim, 10240 bytes in the code
    SplitError  \* minsplitsize of a victim in T_ERROR, 1024 bytes in the code

ASSUME NAssumption == N \in Nat \ {0}
ASSUME SplitAssumption == SplitLive \in Nat /\ SplitError \in Nat

Threads == 0 .. N - 1

\* The states a table entry is ever given (T_BEGIN and T_END never are).
States == {"T_READY", "T_RETRIVE", "T_CLOSE", "T_ERROR", "T_STOP"}

-----------------------------------------------------------------------------
\* CaclTask: equal shares, the last thread takes the remainder.
SizePerThread(pTotal) == pTotal \div N

CaclBegin(pTotal) == [no \in Threads |-> no * SizePerThread(pTotal)]

\* Mutant: the remainder of the division is nobody's.
CaclTotal_NoRemainder(pTotal) == [no \in Threads |-> SizePerThread(pTotal)]

CaclTotal(pTotal) ==
    [no \in Threads |-> IF no = N - 1 THEN pTotal - (N - 1) * SizePerThread(pTotal)
                                      ELSE SizePerThread(pTotal)]

-----------------------------------------------------------------------------
\* ReCaclTask: how much of a victim with `left` bytes to go is taken over, and
\* whether it is worth it.
MinSplit(victimState) == IF victimState = "T_ERROR" THEN SplitError ELSE SplitLive

BinLeft(left) == left \div 2

\* The bytes of the task an entry still has to fetch.
Pending(b, g, l) == (b + g) .. (b + l - 1)
=============================================================================
