------------------------------- MODULE Divisor -------------------------------
(***************************************************************************)
(* Divisor<Word> (include/pbf.h:55-117): division by a number that is set  *)
(* once and used often, through a factor of twice the width of a word.     *)
(* The core takes a page hash modulo the page number with it.              *)
(*                                                                         *)
(* A word has Base values; the code instantiates it with 8, 16 and 32 bits.*)
(***************************************************************************)
EXTENDS Integers

CONSTANT Base

ASSUME BaseAssumption == Base \in Nat \ {0}

VARIABLES
    m_val,      \* the divisor
    m_fac,      \* its factor, a double word
    result      \* the last call: its operation, operand and value

divisorVars == <<m_val, m_fac, result>>

Word == 0..(Base - 1)
DoubleBase == Base * Base

None == [op |-> "none", operand |-> 0, value |-> 0]

\* The high double word of the product of two double words.
MultiplyHigh(a, b) == (a * b) \div DoubleBase

\* ~0 / n + 1 in a double word: it wraps to zero for n = 1.
FactorUnwrapped(n) == IF n = 0 THEN 0 ELSE ((DoubleBase - 1) \div n) + 1
FactorRoundedDown(n) == IF n = 0 THEN 0 ELSE (DoubleBase \div n) % DoubleBase
Factor(n) == IF n = 0 THEN 0 ELSE (((DoubleBase - 1) \div n) + 1) % DoubleBase

\* div: a zero factor stands for the divisor one (and for no divisor at all).
QuotientNoWrapCase(m, fac) == MultiplyHigh(m, fac)
Quotient(m, fac) == IF fac = 0 THEN m ELSE MultiplyHigh(m, fac)

\* mod: the fraction left by the quotient, scaled back.
Remainder(m, val, fac) == MultiplyHigh(val, (m * fac) % DoubleBase)

-----------------------------------------------------------------------------
DivisorInit == m_val = 0 /\ m_fac = 0 /\ result = None

Assign(n) ==
    /\ m_val' = n
    /\ m_fac' = Factor(n)
    /\ result' = None

Div(m) ==
    /\ result' = [op |-> "div", operand |-> m, value |-> Quotient(m, m_fac)]
    /\ UNCHANGED <<m_val, m_fac>>

Mod(m) ==
    /\ result' = [op |-> "mod", operand |-> m, value |-> Remainder(m, m_val, m_fac)]
    /\ UNCHANGED <<m_val, m_fac>>

DivisorNext == \E w \in Word : Assign(w) \/ Div(w) \/ Mod(w)

DivisorSpec == DivisorInit /\ [][DivisorNext]_divisorVars

-----------------------------------------------------------------------------
\* Members and results keep the width of their types.
DivisorTypeOK ==
    /\ m_val \in Word
    /\ m_fac \in 0..(DoubleBase - 1)
    /\ result \in [op : {"none", "div", "mod"}, operand : Word, value : Word]

\* Without a divide instruction, every quotient and every remainder is the exact
\* one, for every word and every divisor but zero (pbf.h:86-106; the SoftDivide
\* test, test.cc:187-199, samples a few divisors and operands).
Exact ==
    m_val # 0 =>
        /\ result.op = "div" => result.value = result.operand \div m_val
        /\ result.op = "mod" => result.value = result.operand % m_val

\* The factor is always that of the divisor: what the proof of Exact needs.
IInv == DivisorTypeOK /\ m_fac = Factor(m_val) /\ Exact
=============================================================================
