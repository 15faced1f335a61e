------------------------------ MODULE Arithmetic ------------------------------
(***************************************************************************)
(* The arithmetic, comparison and bitwise instructions of the emulator     *)
(* (src/octopus/octopus/platforms/ETH/emulator.py).  The width of a word   *)
(* and of a byte are parameters; WordArithmetic has the instructions that  *)
(* do not depend on them.                                                  *)
(***************************************************************************)
EXTENDS Integers, Bitwise

CONSTANTS
    ByteBits,   \* 8
    WordBytes,  \* 32
    MaxBits     \* the longest integer Python has memory for, in bits

ASSUME WidthAssumption ==
    ByteBits \in Nat \ {0} /\ WordBytes \in Nat \ {0} /\ MaxBits \in Nat

WordBits == ByteBits * WordBytes

INSTANCE WordArithmetic WITH TT255 <- 2 ^ (WordBits - 1)

----------------------------------------------------------------------------
(* Integers that Python has memory for *)

\* x << n and 2 ** n
ShiftedLeft(x, n) == IF n > MaxBits THEN Raised ELSE Wrapped(x * 2 ^ n)

\* Python's x >> n, which rounds down; beyond the word nothing is left but the
\* sign.
ShiftedRight(x, n) == IF n >= WordBits THEN (IF x < 0 THEN -1 ELSE 0) ELSE x \div (2 ^ n)

----------------------------------------------------------------------------
(* The instructions, by their operands from the top of the stack. *)

\* x.bit_length()
BitLength(x) == CHOOSE n \in 0..WordBits : x < 2 ^ n /\ (n > 0 => x >= 2 ^ (n - 1))

TooLong(x, y) == x > 1 /\ y * BitLength(x) > MaxBits

\* x ^ y, and 1 for 0 ^ 0.
Raise(x, y) == IF y = 0 THEN 1 ELSE x ^ y

\* pow(x, y), which raises MemoryError or runs until the alarm.
Power(x, y) == IF TooLong(x, y) THEN Raised ELSE Wrapped(Raise(x, y))

SignExtended(i, x) ==
    IF ByteBits * (i + 1) > MaxBits THEN Raised
    ELSE LET mask == 2 ^ (ByteBits * (i + 1))
             low == x % mask
         IN  Wrapped(IF low < mask \div 2 THEN low ELSE low - mask)

\* x.to_bytes(32, "big")[n]
ByteOf(n, x) ==
    IF n >= WordBytes THEN Raised
    ELSE (x \div 2 ^ (ByteBits * (WordBytes - 1 - n))) % 2 ^ ByteBits

BitsResult(op, x, y) ==
    CASE op = "EXP" -> Power(x, y)
      [] op = "SIGNEXTEND" -> SignExtended(x, y)
      [] op = "EQ" -> Truth(x = y)
      [] op = "AND" -> x & y
      [] op = "OR" -> x | y
      [] op = "XOR" -> x ^^ y
      [] op = "BYTE" -> ByteOf(x, y)
      [] op = "ISZERO" -> Truth(x = 0)
      [] op = "NOT" -> Wrapped(-x - 1)
      [] op = "SHL" -> ShiftedLeft(y, x)
      [] op = "SHR" -> ShiftedRight(y, x)
      [] op = "SAR" -> Wrapped(ShiftedRight(ToSigned(y), x))

BitOps == {"EXP", "SIGNEXTEND", "EQ", "AND", "OR", "XOR", "BYTE", "ISZERO", "NOT",
           "SHL", "SHR", "SAR"}

----------------------------------------------------------------------------
(* What the EVM does *)

\* A word is the set of its bits.
BitsOf(x) == {b \in 0..(WordBits - 1) : (x \div 2 ^ b) % 2 = 1}
SignBit(x) == (WordBits - 1) \in BitsOf(x)
AllBits == 0..(WordBits - 1)

\* Bits moved up by n; moved down, with bits for those that come in.
Up(bits, n) == {b \in AllBits : b - n \in bits}
Down(bits, n, filled) == {b \in AllBits : b + n \in bits \/ (filled /\ b + n >= WordBits)}

BitsAgree(op, x, y, word) ==
    CASE op = "EXP" -> Congruent(word, Raise(x, y))
      [] op = "SIGNEXTEND" ->
            LET top == ByteBits * (x + 1) - 1
            IN  BitsOf(word) = {b \in AllBits : (IF b <= top THEN b ELSE top) \in BitsOf(y)}
      [] op = "EQ" -> (word = 1) = (BitsOf(x) = BitsOf(y))
      [] op = "AND" -> BitsOf(word) = BitsOf(x) \cap BitsOf(y)
      [] op = "OR" -> BitsOf(word) = BitsOf(x) \cup BitsOf(y)
      [] op = "XOR" -> BitsOf(word) = (BitsOf(x) \cup BitsOf(y)) \ (BitsOf(x) \cap BitsOf(y))
      [] op = "BYTE" ->
            BitsOf(word) = {b \in 0..(ByteBits - 1) :
                                b + ByteBits * (WordBytes - 1 - x) \in BitsOf(y)}
      [] op = "ISZERO" -> (word = 1) = (BitsOf(x) = {})
      [] op = "NOT" -> BitsOf(word) = AllBits \ BitsOf(x)
      [] op = "SHL" -> BitsOf(word) = Up(BitsOf(y), x)
      [] op = "SHR" -> BitsOf(word) = Down(BitsOf(y), x, FALSE)
      [] op = "SAR" -> BitsOf(word) = Down(BitsOf(y), x, SignBit(y))

\* Where the EVM has a result and the emulator an exception: a byte outside the
\* word, and what Python has no memory for.
Exceptional(op, x, y) ==
    \/ op = "BYTE" /\ x >= WordBytes
    \/ op = "SHL" /\ x > MaxBits
    \/ op = "EXP" /\ TooLong(x, y)
    \/ op = "SIGNEXTEND" /\ ByteBits * (x + 1) > MaxBits

\* The same as ValueRight, for the instructions on bits.
BitsRight(op, x, y) ==
    LET word == BitsResult(op, x, y)
    IN  IF Exceptional(op, x, y) THEN word = Raised
        ELSE word \in WordValues /\ BitsAgree(op, x, y, word)

=============================================================================
