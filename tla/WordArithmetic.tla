---------------------------- MODULE WordArithmetic ----------------------------
(***************************************************************************)
(* The arithmetic instructions and the comparisons of the emulator         *)
(* (src/octopus/octopus/platforms/ETH/emulator.py) whose results depend on *)
(* the words' values and not on their bits: Python integers of any size,   *)
(* cut to a word by z3's BitVecVal.                                        *)
(***************************************************************************)
EXTENDS Integers

CONSTANT TT255    \* half the number of words

TT256 == 2 * TT255
WordValues == 0..(TT256 - 1)

\* An exception: ZeroDivisionError, IndexError, MemoryError or OverflowError.
Raised == -1

----------------------------------------------------------------------------
(* helper.py *)

\* get_concrete_int(convert_to_bitvec(i))
Wrapped(i) == i % TT256

\* Mistake: the greatest negative number is not negative.
SignedAbove(i) == IF i <= TT255 THEN i ELSE i - TT256

ToSigned(i) == IF i < TT255 THEN i ELSE i - TT256

Abs(i) == IF i < 0 THEN -i ELSE i

Truth(b) == IF b THEN 1 ELSE 0

----------------------------------------------------------------------------
(* The instructions, by their operands from the top of the stack. *)

SignedQuotient(x, y) ==
    LET sign == IF x * y >= 0 THEN 1 ELSE -1
    IN  IF y = 0 THEN 0 ELSE sign * (Abs(x) \div Abs(y))

\* The sign is the dividend's.
SignedRest(x, y) ==
    IF y = 0 THEN Raised ELSE Wrapped((IF x < 0 THEN -1 ELSE 1) * (Abs(x) % Abs(y)))

Modulo(x, m) == IF m = 0 THEN Raised ELSE Wrapped(x % m)

ValueResult(op, x, y, m) ==
    CASE op = "ADD" -> Wrapped(x + y)
      [] op = "SUB" -> Wrapped(x - y)
      [] op = "MUL" -> Wrapped(x * y)
      [] op = "DIV" -> IF y = 0 THEN 0 ELSE x \div y
      [] op = "MOD" -> IF y = 0 THEN 0 ELSE x % y
      [] op = "SDIV" -> Wrapped(SignedQuotient(ToSigned(x), ToSigned(y)))
      [] op = "SMOD" -> SignedRest(ToSigned(x), ToSigned(y))
      [] op = "ADDMOD" -> Modulo(x + y, m)
      [] op = "MULMOD" -> Modulo(x * y, m)
      [] op = "LT" -> Truth(x < y)
      [] op = "GT" -> Truth(x > y)
      [] op = "SLT" -> Truth(ToSigned(x) < ToSigned(y))
      [] op = "SGT" -> Truth(ToSigned(x) > ToSigned(y))

ValueOps == {"ADD", "SUB", "MUL", "DIV", "MOD", "SDIV", "SMOD", "ADDMOD", "MULMOD",
             "LT", "GT", "SLT", "SGT"}

----------------------------------------------------------------------------
(* What the EVM does *)

\* In two's complement, i is the word that is congruent to it.
Congruent(word, i) == word \in WordValues /\ (word - i) % TT256 = 0

\* i \in -TT255..TT255-1 is the signed value of x.
IntOf(x) == CHOOSE i \in (-TT255)..(TT255 - 1) : Congruent(x, i)

\* The quotient rounded towards zero and the rest that goes with it.
IsQuotient(q, x, y) == Abs(q * y) <= Abs(x) /\ Abs(x) - Abs(q * y) < Abs(y) /\ q * x * y >= 0

ValueAgrees(op, x, y, m, word) ==
    CASE op = "ADD" -> Congruent(word, x + y)
      [] op = "SUB" -> Congruent(word, x - y)
      [] op = "MUL" -> Congruent(word, x * y)
      [] op = "DIV" -> IF y = 0 THEN word = 0 ELSE IsQuotient(word, x, y)
      [] op = "MOD" -> IF y = 0 THEN word = 0 ELSE word \in 0..(y - 1) /\ (x - word) % y = 0
      [] op = "SDIV" -> IF y = 0 THEN word = 0
                        ELSE \E q \in (-TT255)..TT255 :
                                IsQuotient(q, IntOf(x), IntOf(y)) /\ Congruent(word, q)
      [] op = "SMOD" -> \E q \in (-TT255)..TT255 :
                                IsQuotient(q, IntOf(x), IntOf(y))
                                /\ Congruent(word, IntOf(x) - q * IntOf(y))
      [] op = "ADDMOD" -> word \in 0..(m - 1) /\ (x + y - word) % m = 0
      [] op = "MULMOD" -> word \in 0..(m - 1) /\ (x * y - word) % m = 0
      [] op = "LT" -> (word = 1) = (\E d \in WordValues \ {0} : x + d = y)
      [] op = "GT" -> (word = 1) = (\E d \in WordValues \ {0} : y + d = x)
      [] op = "SLT" -> (word = 1) = (IntOf(x) < IntOf(y))
      [] op = "SGT" -> (word = 1) = (IntOf(y) < IntOf(x))

\* Where the EVM has a result and the emulator an exception: a rest or a sum
\* modulo 0.
ByZero(op, y, m) == (op = "SMOD" /\ y = 0) \/ (op \in {"ADDMOD", "MULMOD"} /\ m = 0)

\* The result of an instruction on values is the word the EVM has, at the limits
\* of the signed and unsigned ranges too, or an exception is raised, which ends
\* the emulation.
ValueRight(op, x, y, m) ==
    LET word == ValueResult(op, x, y, m)
    IN  IF ByZero(op, y, m) THEN word = Raised
        ELSE word \in WordValues /\ ValueAgrees(op, x, y, m, word)

=============================================================================
