------------------------------ MODULE EvmMemory ------------------------------
(***************************************************************************)
(* The memory of an emulated contract: a Python bytearray with the methods *)
(* of src/octopus/octopus/core/memory.py, and the instructions of          *)
(* src/octopus/octopus/platforms/ETH/emulator.py that write to it, some of *)
(* them by assigning to a slice without a look at the two lengths.         *)
(* proxy_check compares bytes that went through this memory with the       *)
(* calldata it started from.                                               *)
(***************************************************************************)
EXTENDS Integers, Sequences

CONSTANTS
    Byte, ZeroByte,
    WordSize,     \* 0x20
    Offsets,      \* the offsets an instruction may be given
    Lengths,      \* the lengths an instruction may be given
    Sources,      \* calldata, code and return data
    MaxLength     \* bound: how long the memory grows

ASSUME ByteAssumption == ZeroByte \in Byte
ASSUME SizeAssumption ==
    /\ WordSize \in Nat \ {0} /\ MaxLength \in Nat
    /\ Offsets \subseteq Nat /\ Lengths \subseteq Nat /\ Sources \subseteq Seq(Byte)

VARIABLES
    memory,   \* state.memory
    instr,    \* state.instr, with the operands it took from the stack
    word      \* what the last MLOAD put on the stack

vars == <<memory, instr, word>>

Word == [1..WordSize -> Byte]

CopyOps == {"CALLDATACOPY", "CODECOPY", "RETURNDATACOPY"}

\* Writes that leave the memory's length to the assignment.
WindowOps == {"EXTCODECOPY", "CALL"}

----------------------------------------------------------------------------
(* Python's bytearray *)

Zeros(n) == [i \in 1..n |-> ZeroByte]

Least(a, b) == IF a <= b THEN a ELSE b

\* s[from:to]
Slice(s, from, to) == SubSeq(s, from + 1, Least(to, Len(s)))

\* s[from:to] = v, where v may have another length than the slice.
SetSlice(s, from, to, v) ==
    SubSeq(s, 1, Least(from, Len(s))) \o v \o SubSeq(s, Least(to, Len(s)) + 1, Len(s))

(* memory.py *)

\* mextend appends p zeros: it makes the memory longer by p, not p long.
Extended(m, p) == m \o Zeros(p)

\* Mistake: the memory is extended to hold the offset only.
HalfCovered(m, end) == IF Len(m) < end - 1 THEN Extended(m, end - 1) ELSE m

Covering(m, end) == IF Len(m) < end THEN Extended(m, end) ELSE m

Stored(m, p, w) == SetSlice(Covering(m, p + WordSize), p, p + WordSize, w)

WordAt(m, p) == Slice(m, p, p + WordSize)

\* mstore8 assigns to an empty slice.
Stored8(m, p, b) == SetSlice(Covering(m, p), p, p, <<b>>)

\* CALLDATACOPY, CODECOPY and RETURNDATACOPY.
Copied(m, dst, len, data) == SetSlice(Covering(m, dst + len), dst, dst + len, data)

----------------------------------------------------------------------------
(* Instructions *)

Instruction(op, dst, off, len, data) ==
    [op |-> op, dst |-> dst, off |-> off, len |-> len, data |-> data]

MStore ==
    \E p \in Offsets, w \in Word :
        /\ memory' = Stored(memory, p, w)
        /\ instr' = Instruction("MSTORE", p, 0, WordSize, w)
        /\ UNCHANGED word

MStore8 ==
    \E p \in Offsets, b \in Byte :
        /\ memory' = Stored8(memory, p, b)
        /\ instr' = Instruction("MSTORE8", p, 0, 1, <<b>>)
        /\ UNCHANGED word

MLoad ==
    \E p \in Offsets :
        /\ memory' = Covering(memory, p + WordSize)
        /\ word' = WordAt(memory', p)
        /\ instr' = Instruction("MLOAD", p, 0, WordSize, <<>>)

Copy ==
    \E op \in CopyOps, dst \in Offsets, off \in Offsets, len \in Lengths, data \in Sources :
        /\ memory' = Copied(memory, dst, len, Slice(data, off, off + len))
        /\ instr' = Instruction(op, dst, off, len, data)
        /\ UNCHANGED word

\* EXTCODECOPY, and the return window of a call, whose data is taken from the
\* start of the return buffer.
CopyToWindow ==
    \E op \in WindowOps, dst \in Offsets, off \in Offsets, len \in Lengths, data \in Sources :
        /\ op = "CALL" => off = 0
        /\ memory' = SetSlice(memory, dst, dst + len, Slice(data, off, off + len))
        /\ instr' = Instruction(op, dst, off, len, data)
        /\ UNCHANGED word

Init ==
    /\ memory = <<>>
    /\ instr = Instruction("none", 0, 0, 0, <<>>)
    /\ word = Zeros(WordSize)

Next ==
    /\ MStore \/ MStore8 \/ MLoad \/ Copy \/ CopyToWindow
    /\ Len(memory') <= MaxLength

Spec == Init /\ [][Next]_vars

----------------------------------------------------------------------------
(* Properties *)

\* Type invariant: what is loaded is a whole word.
TypeOK ==
    /\ memory \in Seq(Byte)
    /\ word \in Word

\* The EVM's memory is zero where nothing was written.
ByteAt(s, a) == IF a < Len(s) THEN s[a + 1] ELSE ZeroByte

Within(a, dst, len) == dst <= a /\ a < dst + len

\* How many bytes the EVM writes: a call's return data may be shorter than the
\* window, everything else is padded with zeros.
Written(i) == IF i.op = "CALL" THEN Least(i.len, Len(i.data)) ELSE i.len

\* The byte at address a after instruction i, by the EVM's rules.
EvmByte(i, m, a) ==
    IF i.op # "MLOAD" /\ Within(a, i.dst, Written(i))
    THEN ByteAt(i.data, i.off + a - i.dst)
    ELSE ByteAt(m, a)

\* The instructions on which the bytearray is right: a word is stored; a single
\* byte is stored behind all others; the source of a copy is as long as the
\* copy; and what does not extend the memory starts inside it.
Regular(i, m) ==
    \/ i.op \in {"MSTORE", "MLOAD"}
    \/ i.op = "MSTORE8" /\ i.dst >= Len(m)
    \/ i.op \in CopyOps /\ i.off + i.len <= Len(i.data)
    \/ i.op \in WindowOps /\ i.off + i.len <= Len(i.data) /\ i.dst <= Len(m)

\* A regular instruction changes the memory as the EVM does, whatever was
\* written before and however much mextend has overshot, and what is loaded is
\* what the EVM would load.
StepAgrees ==
    Regular(instr', memory) =>
        /\ \A a \in 0..(Len(memory) + Len(memory')) :
                ByteAt(memory', a) = EvmByte(instr', memory, a)
        /\ instr'.op = "MLOAD" =>
                word' = [k \in 1..WordSize |-> ByteAt(memory, instr'.dst + k - 1)]

RegularStepsAgree == [][StepAgrees]_vars

============================================================================
