------------------------------ MODULE ControlFlow ------------------------------
(***************************************************************************)
(* From bytes to executed instructions: octopus' disassembler, the basic   *)
(* blocks of its static control flow graph, and the jumps of its emulator, *)
(* which go by the index of an instruction.  Each code is disassembled,    *)
(* cut in blocks and then run, beside the EVM.                             *)
(***************************************************************************)
EXTENDS Integers, Sequences

CONSTANTS
    Table,        \* asm.table: for each byte, [name, operand], the operand's size
    Codes,        \* bytecodes
    StackLimit    \* of the EVM

\* The opcodes that control flow depends on; PUSH has any size.
Opcodes == {"STOP", "PUSH", "PC", "JUMPDEST", "JUMPI", "JUMP"}

ASSUME TableAssumption ==
    /\ Table \in [DOMAIN Table -> [name : Opcodes, operand : Nat]]
    /\ \A b \in DOMAIN Table : Table[b].name # "PUSH" => Table[b].operand = 0
ASSUME CodeAssumption == \A c \in Codes : c \in Seq(DOMAIN Table) /\ Len(c) > 0

VARIABLES
    stage,     \* "idle", "disassemble", "cut", "run"
    code,
    offset,    \* of the next instruction
    instrs,    \* self.instructions
    index,     \* how many of them are in blocks
    open,      \* the instructions of the block that is not finished, by index
    blocks,    \* basicblocks, as open
    machine,   \* the emulator's state
    evm        \* the EVM's

runVars == <<stage, code, offset, instrs, index, open, blocks, machine, evm>>
blockVars == <<index, open, blocks>>

\* The byte at an offset of the code, and what the table says of it.
EntryAt(o) == Table[code[o + 1]]

\* Big-endian.
ValueOf(bytes) ==
    LET value[n \in 0..Len(bytes)] == IF n = 0 THEN 0 ELSE 256 * value[n - 1] + bytes[n]
    IN  value[Len(bytes)]

Load(c) ==
    /\ stage' = "disassemble" /\ code' = c
    /\ UNCHANGED <<offset, instrs, blockVars, machine, evm>>

----------------------------------------------------------------------------
(* disassemble *)

\* The bytes of an operand that the code ends before are not read.
Decoded(o) ==
    [name |-> EntryAt(o).name, offset |-> o, size |-> 1 + EntryAt(o).operand,
     operand |-> [i \in {j \in 1..EntryAt(o).operand : o + j < Len(code)} |-> code[o + i + 1]]]

\* Mistake: operands are disassembled as well.
NextByte(instr) == instr.offset + 1

NextOffset(instr) == instr.offset + instr.size

Disassemble ==
    /\ stage = "disassemble"
    /\ IF offset < Len(code)
       THEN /\ instrs' = Append(instrs, Decoded(offset))
            /\ offset' = NextOffset(Decoded(offset))
            /\ UNCHANGED stage
       ELSE /\ stage' = "cut"
            /\ UNCHANGED <<instrs, offset>>
    /\ UNCHANGED <<code, blockVars, machine, evm>>

----------------------------------------------------------------------------
(* enum_blocks_static *)

LastOfBlock(k) ==
    \/ instrs[k].name \in {"JUMP", "JUMPI", "STOP"}
    \/ k = Len(instrs)
    \/ instrs[k + 1].name = "JUMPDEST"

Cut ==
    /\ stage = "cut" /\ index < Len(instrs)
    /\ index' = index + 1
    /\ IF LastOfBlock(index + 1)
       THEN blocks' = Append(blocks, Append(open, index + 1)) /\ open' = <<>>
       ELSE open' = Append(open, index + 1) /\ UNCHANGED blocks
    /\ UNCHANGED <<stage, code, offset, instrs, machine, evm>>

----------------------------------------------------------------------------
(* emulate *)

\* state.pc is the index of the next instruction, counted from 1 here; status
\* is "halted" where emulate returns and "raised" where an exception leaves it.
Machine(pc, stack, status) == [pc |-> pc, stack |-> stack, status |-> status]

Running(pc, stack) == Machine(pc, stack, "running")

Thrown(m) == [m EXCEPT !.status = "raised"]

Holds(stack, n) == Len(stack) >= n

\* The indices of the instructions at a jump's target: none (StopIteration) or
\* one.
TargetsOf(address) == {k \in DOMAIN instrs : instrs[k].offset = address}

\* JUMP and JUMPI look the target up and halt when it is no JUMPDEST, before
\* JUMPI looks at its condition.
Jumped(m, address, taken, rest) ==
    LET targets == TargetsOf(address)
        next == IF taken THEN CHOOSE k \in targets : TRUE ELSE m.pc + 1
        valid == \A k \in targets : instrs[k].name = "JUMPDEST"
    IN  IF targets = {} THEN Thrown(m)
        ELSE Machine(next, rest, IF valid THEN "running" ELSE "halted")

\* One round of emulate's loop: an index behind the last instruction is a
\* KeyError, a missing operand an IndexError.
Emulated(m) ==
    IF m.pc \notin DOMAIN instrs THEN Thrown(m)
    ELSE LET instr == instrs[m.pc]
             stack == m.stack
         IN  CASE instr.name = "STOP" -> Machine(m.pc + 1, stack, "halted")
               [] instr.name = "PUSH" -> Running(m.pc + 1, <<ValueOf(instr.operand)>> \o stack)
               [] instr.name = "PC" -> Running(m.pc + 1, <<m.pc - 1>> \o stack)
               [] instr.name = "JUMPDEST" -> Running(m.pc + 1, stack)
               [] instr.name = "JUMP" ->
                    IF ~ Holds(stack, 1) THEN Thrown(m)
                    ELSE Jumped(m, stack[1], TRUE, Tail(stack))
               [] instr.name = "JUMPI" ->
                    IF ~ Holds(stack, 2) THEN Thrown(m)
                    ELSE Jumped(m, stack[1], stack[2] # 0, SubSeq(stack, 3, Len(stack)))

----------------------------------------------------------------------------
(* What the EVM does *)

\* A set of offsets with 0 and what follows the instruction at each.
Follows(S) ==
    /\ 0 \in S
    /\ \A o \in S : o + 1 + EntryAt(o).operand < Len(code) => o + 1 + EntryAt(o).operand \in S

\* The offsets that are instructions and not bytes of an operand.
Starts ==
    {o \in 0..(Len(code) - 1) : \A S \in SUBSET (0..(Len(code) - 1)) : Follows(S) => o \in S}

ValidTarget(address) == address \in Starts /\ EntryAt(address).name = "JUMPDEST"

\* The machine's pc is an offset here; behind the code there are zeros, STOPs.
EvmStep(m) ==
    LET op == IF m.pc < Len(code) THEN EntryAt(m.pc).name ELSE "STOP"
        stack == m.stack
        byte(a) == IF a < Len(code) THEN code[a + 1] ELSE 0
        jumped(address, taken, rest) ==
            IF ~ taken THEN Running(m.pc + 1, rest)
            ELSE IF ValidTarget(address) THEN Running(address, rest)
            ELSE Machine(m.pc, stack, "failed")
    IN  CASE op = "STOP" -> Machine(m.pc, stack, "stopped")
          [] op = "PUSH" ->
                Running(m.pc + 1 + EntryAt(m.pc).operand,
                        <<ValueOf([i \in 1..EntryAt(m.pc).operand |-> byte(m.pc + i)])>> \o stack)
          [] op = "PC" -> Running(m.pc + 1, <<m.pc>> \o stack)
          [] op = "JUMPDEST" -> Running(m.pc + 1, stack)
          [] op = "JUMP" ->
                IF ~ Holds(stack, 1) THEN Machine(m.pc, stack, "failed")
                ELSE jumped(stack[1], TRUE, Tail(stack))
          [] op = "JUMPI" ->
                IF ~ Holds(stack, 2) THEN Machine(m.pc, stack, "failed")
                ELSE jumped(stack[1], stack[2] # 0, SubSeq(stack, 3, Len(stack)))

\* Where the emulator differs: the code must not run off its end, nor an operand;
\* the stack has no limit; PC counts instructions; and a JUMPI that is not taken
\* must have a valid target.
Odd(m) ==
    \/ m.pc >= Len(code)
    \/ m.pc + EntryAt(m.pc).operand >= Len(code)
    \/ LET op == EntryAt(m.pc).name
       IN  \/ op \in {"PUSH", "PC"} /\ Len(m.stack) >= StackLimit
           \/ op = "PC" /\ \E a \in 0..(m.pc - 1) : a \notin Starts
           \/ op = "JUMPI" /\ Holds(m.stack, 2) /\ m.stack[2] = 0 /\ ~ ValidTarget(m.stack[1])

----------------------------------------------------------------------------
Emulate ==
    /\ stage = "cut" /\ index = Len(instrs)
    /\ stage' = "run" /\ machine' = Running(1, <<>>) /\ evm' = Running(0, <<>>)
    /\ UNCHANGED <<code, offset, instrs, blockVars>>

\* A step of both machines, up to the first of the odd ones.
Execute ==
    /\ stage = "run" /\ evm.status = "running" /\ ~ Odd(evm)
    /\ machine' = Emulated(machine) /\ evm' = EvmStep(evm)
    /\ UNCHANGED <<stage, code, offset, instrs, blockVars>>

RunInit ==
    /\ stage = "idle" /\ code = <<>> /\ offset = 0 /\ instrs = <<>>
    /\ index = 0 /\ open = <<>> /\ blocks = <<>>
    /\ machine = Running(1, <<>>) /\ evm = Running(0, <<>>)

RunNext ==
    \/ stage = "idle" /\ \E c \in Codes : Load(c)
    \/ Disassemble \/ Cut \/ Emulate \/ Execute

RunSpec == RunInit /\ [][RunNext]_runVars

----------------------------------------------------------------------------
(* Properties *)

\* The emulator's state is the EVM's: where the EVM fails, it raises or halts.
SameMachine ==
    CASE evm.status = "running" ->
            /\ machine.status = "running" /\ machine.stack = evm.stack
            /\ IF machine.pc \in DOMAIN instrs
               THEN instrs[machine.pc].offset = evm.pc
               ELSE machine.pc = Len(instrs) + 1 /\ evm.pc >= Len(code)
      [] evm.status = "stopped" ->
            /\ machine.status = "halted" /\ machine.stack = evm.stack
            /\ machine.pc - 1 \in DOMAIN instrs /\ instrs[machine.pc - 1].name = "STOP"
      [] evm.status = "failed" -> machine.status \in {"raised", "halted"}

LastOf(block) == block[Len(block)]

\* The code, cut in pieces.
Pieces ==
    /\ blocks # <<>> /\ \A b \in DOMAIN blocks : blocks[b] # <<>>
    /\ blocks[1][1] = 1 /\ LastOf(LastOf(blocks)) = Len(instrs)
    /\ \A b \in 1..(Len(blocks) - 1) : blocks[b + 1][1] = LastOf(blocks[b]) + 1
    /\ \A b \in DOMAIN blocks : \A i \in 1..(Len(blocks[b]) - 1) :
            blocks[b][i + 1] = blocks[b][i] + 1

\* A jump of the emulator from n, with any address and condition, comes from the
\* end of a block and leads to the start of one.
JumpsBetween(b, n, stack) ==
    LET m == Emulated(Running(n, stack))
        block == {b[i] : i \in DOMAIN b}
    IN  m.status = "running" /\ m.pc # n + 1 =>
            /\ n \in block => n = LastOf(b)
            /\ m.pc \in block => m.pc = b[1]

\* The emulator goes where the EVM goes, and the blocks can only be entered at
\* the first instruction and left at the last.
ControlFlowRight ==
    /\ stage = "run" => SameMachine
    /\ stage = "cut" /\ index = Len(instrs) =>
        /\ Pieces
        /\ \A b \in DOMAIN blocks, n \in DOMAIN instrs, address \in 0..Len(code), c \in {0, 1} :
                JumpsBetween(blocks[b], n, <<address, c>>)

=============================================================================
