--------------------------- MODULE BackwardAnalyzer ---------------------------
(***************************************************************************)
(* The bytecode-based check of src/proxion/AdvCheck.py: for each SLOAD and *)
(* SSTORE of a contract BackwardAnalyzer follows the accessed slot from    *)
(* the instruction back to the PUSH it comes from, and check_advanced      *)
(* intersects the slots and selectors of a proxy and its logic contracts.  *)
(* A program is a sequence of instructions, whose index stands for the pc, *)
(* with, for each JUMPDEST, the starts of the basic blocks that            *)
(* evm_cfg_builder finds to lead there.                                    *)
(***************************************************************************)
EXTENDS Integers, Sequences

CONSTANT Checks    \* sequences of programs: a proxy and its logic contracts

\* n is the depth of DUPn and SWAPn, the number of bytes of PUSHn.
Instr(name, n, operand) == [name |-> name, n |-> n, operand |-> operand]

Copying == {"DUP", "SWAP"}
OneWord == {"PUSH", "SHA3", "ADD", "SLOAD", "CALLER"}
TakeTwo == {"SHA3", "ADD", "SSTORE", "JUMPI"}
TakeOne == {"POP", "SLOAD", "JUMP"}

\* pyevmasm's _pops and _pushes.
Pops(i) ==
    CASE i.name = "DUP" -> i.n
      [] i.name = "SWAP" -> i.n + 1
      [] i.name \in TakeTwo -> 2
      [] i.name \in TakeOne -> 1
      [] OTHER -> 0

Pushes(i) ==
    CASE i.name \in Copying -> i.n + 1
      [] i.name \in OneWord -> 1
      [] OTHER -> 0

ASSUME CheckAssumption ==
    \A c \in Checks :
        /\ c \in Seq([code : Seq([name : STRING, n : Nat, operand : Int]), incoming : Seq(SUBSET Nat)])
        /\ c # <<>>
        /\ \A m \in DOMAIN c :
            /\ Len(c[m].incoming) = Len(c[m].code)
            /\ \A k \in DOMAIN c[m].code : c[m].code[k].name \in Copying => c[m].code[k].n > 0

VARIABLES
    contracts,    \* under check, the proxy first
    current,      \* the one whose slots are searched
    at,           \* the pc of inst
    calls,        \* the activations of trace_op_input, innermost first
    visited,
    slot,         \* what the search has returned, in a set
    found,        \* of each contract, the slots read and written
    report,       \* check_advanced's result, in a set
    stacks        \* the EVM's stack before each instruction up to at

searchVars == <<contracts, current, at, calls, visited, slot, found, report, stacks>>

Program == contracts[current]

Concrete(value) == [kind |-> "concrete", value |-> value]
Hashed == [kind |-> "hashed", value |-> 0]
None == [kind |-> "none", value |-> 0]

Accesses == {"SLOAD", "SSTORE"}

----------------------------------------------------------------------------
(* What the EVM does *)

\* A word with the pc that produced it and the DUPs that have copied it; below
\* what the code has pushed are the caller's words.
Value(word, born, dups) == [word |-> word, born |-> born, dups |-> dups]
Unknown == Value(None, 0, {})

Nth(stack, n) == IF n <= Len(stack) THEN stack[n] ELSE Unknown

Drop(stack, n) == SubSeq(stack, n + 1, Len(stack))

Exchanged(stack, n) ==
    [k \in 1..(IF Len(stack) < n THEN n ELSE Len(stack)) |->
        Nth(stack, IF k = 1 THEN n ELSE IF k = n THEN 1 ELSE k)]

\* The stack, top first, after the instruction at pc.
Executed(stack, i, pc) ==
    CASE i.name = "DUP" ->
            <<[Nth(stack, i.n) EXCEPT !.dups = @ \cup {pc}]>> \o stack
      [] i.name = "SWAP" -> Exchanged(stack, i.n + 1)
      [] i.name = "PUSH" -> <<Value(Concrete(i.operand), pc, {})>> \o stack
      [] i.name = "SHA3" -> <<Value(Hashed, pc, {})>> \o Drop(stack, 2)
      [] OTHER -> [k \in 1..Pushes(i) |-> Value(None, pc, {})] \o Drop(stack, Pops(i))

----------------------------------------------------------------------------
(* trace_op_input *)

\* looping: it is at a JUMPDEST, and has not tried the pending blocks.
Activation(index, pc, looping, pending) ==
    [index |-> index, pc |-> pc, looping |-> looping, pending |-> pending]

\* Mistake: SWAP moves only what was at the top.
OneWaySwapped(index, i) == IF index = 1 THEN Pops(i) ELSE index

Swapped(index, i) ==
    IF index = 1 THEN Pops(i) ELSE IF index = Pops(i) THEN 1 ELSE index

\* The index of the word before instruction i.  For DUP it is the copied word's,
\* whichever word is traced.
Before(index, i) ==
    LET moved == CASE i.name = "DUP" -> Pops(i) + 1
                   [] i.name = "SWAP" -> Swapped(index, i)
                   [] OTHER -> index
    IN  moved + Pops(i) - Pushes(i)

\* A caller returns what it is given, but goes on with its loop after None.
Return(word) ==
    /\ IF word # None \/ Len(calls) = 1
       THEN calls' = <<>> /\ slot' = {word}
       ELSE calls' = Tail(calls) /\ UNCHANGED slot
    /\ UNCHANGED visited

\* The instruction before.
GoBack(c, i) ==
    /\ calls' = <<Activation(Before(c.index, i), c.pc - 1, FALSE, {})>> \o Tail(calls)
    /\ UNCHANGED <<visited, slot>>

\* The order in which blocks are tried is Python's; a visited one has no word.
TryBlock(c) ==
    \E b \in c.pending :
        LET caller == <<Activation(c.index, c.pc, TRUE, c.pending \ {b})>> \o Tail(calls)
        IN  /\ IF b \in visited
               THEN calls' = caller /\ UNCHANGED visited
               ELSE /\ calls' = <<Activation(c.index, b, FALSE, {})>> \o caller
                    /\ visited' = visited \cup {b}
            /\ UNCHANGED slot

\* One round of the loop over the instructions, or of the one over the blocks.
Trace ==
    /\ calls # <<>>
    /\ LET c == Head(calls)
           i == Program.code[c.pc]
       IN  \/ c.pc < 1 /\ Return(None)
           \/ /\ c.pc >= 1 /\ c.looping
              /\ IF c.pending # {} THEN TryBlock(c) ELSE GoBack(c, i)
           \/ /\ c.pc >= 1 /\ ~ c.looping
              /\ CASE i.name = "PUSH" /\ c.index = 1 -> Return(Concrete(i.operand))
                   [] i.name = "SHA3" /\ c.index = 1 -> Return(Hashed)
                   [] i.name = "JUMPDEST" ->
                        IF Program.incoming[c.pc] = {} THEN Return(None)
                        ELSE /\ calls' = <<[c EXCEPT !.looping = TRUE, !.pending = Program.incoming[c.pc]]>>
                                            \o Tail(calls)
                             /\ UNCHANGED <<visited, slot>>
                   [] OTHER -> GoBack(c, i)
    /\ UNCHANGED <<contracts, current, at, found, report, stacks>>

----------------------------------------------------------------------------
(* find_storage_access, find_selectors, check_advanced *)

InCode == current <= Len(contracts) /\ at <= Len(Program.code)

NextInstruction ==
    /\ at' = at + 1
    /\ stacks' = Append(stacks, Executed(stacks[at], Program.code[at], at))

Pass ==
    /\ InCode /\ Program.code[at].name \notin Accesses
    /\ NextInstruction
    /\ UNCHANGED <<contracts, current, calls, visited, slot, found, report>>

Search ==
    /\ InCode /\ Program.code[at].name \in Accesses /\ calls = <<>> /\ slot = {}
    /\ calls' = <<Activation(1, at, FALSE, {})>> /\ visited' = {at}
    /\ UNCHANGED <<contracts, current, at, slot, found, report, stacks>>

\* Digests and unknown slots are left out.
Keep ==
    /\ slot # {}
    /\ LET values == {w.value : w \in {x \in slot : x.kind = "concrete"}}
       IN  found' = [found EXCEPT ![current] =
                        IF Program.code[at].name = "SLOAD"
                        THEN [@ EXCEPT !.read = @ \cup values]
                        ELSE [@ EXCEPT !.written = @ \cup values]]
    /\ slot' = {}
    /\ NextInstruction
    /\ UNCHANGED <<contracts, current, calls, visited, report>>

NextContract ==
    /\ current \in DOMAIN contracts /\ at > Len(Program.code)
    /\ current' = current + 1 /\ at' = 1 /\ stacks' = << <<>> >>
    /\ UNCHANGED <<contracts, calls, visited, slot, found, report>>

MaxSelector == 9

FindSelectors(p) ==
    {p.code[k].operand : k \in {j \in DOMAIN p.code :
        p.code[j].name = "PUSH" /\ p.code[j].n = 4 /\ p.code[j].operand # MaxSelector}}

\* Slots are compared with those of the newest logic contract, selectors with
\* each one's; None when there is no logic contract.
Intersect ==
    /\ contracts # <<>> /\ current > Len(contracts) /\ report = {}
    /\ LET proxy == found[1]
           logic == found[Len(contracts)]
       IN  report' = {[slots |->
                IF Len(contracts) = 1 THEN None
                ELSE [rr |-> proxy.read \cap logic.read, rw |-> proxy.read \cap logic.written,
                      wr |-> proxy.written \cap logic.read, ww |-> proxy.written \cap logic.written],
            selectors |-> [n \in 2..Len(contracts) |->
                FindSelectors(contracts[1]) \cap FindSelectors(contracts[n])]]}
    /\ UNCHANGED <<contracts, current, at, calls, visited, slot, found, stacks>>

CheckAdvanced(c) ==
    /\ contracts' = c
    /\ found' = [n \in DOMAIN c |-> [read |-> {}, written |-> {}]]
    /\ UNCHANGED <<current, at, calls, visited, slot, report, stacks>>

SearchInit ==
    /\ contracts = <<>> /\ current = 1 /\ at = 1 /\ calls = <<>> /\ visited = {} /\ slot = {}
    /\ found = <<>> /\ report = {} /\ stacks = << <<>> >>

SearchNext ==
    \/ contracts = <<>> /\ \E c \in Checks : CheckAdvanced(c)
    \/ Pass \/ Search \/ Trace \/ Keep \/ NextContract \/ Intersect

SearchSpec == SearchInit /\ [][SearchNext]_searchVars

----------------------------------------------------------------------------
(* Properties *)

\* The accessed slot is what is on top of the stack.
Key == Nth(stacks[at], 1)

\* Since its birth only DUPs of the word itself were executed.
OwnCopies ==
    \A k \in Key.born..(at - 1) : k > 0 /\ Program.code[k].name = "DUP" => k \in Key.dups

\* No block is known to lead to a JUMPDEST.
Straight == \A k \in DOMAIN Program.code : Program.incoming[k] = {}

\* A slot that is a constant or a digest, and has not been lost at a DUP, is
\* found; a JUMPDEST to which no block leads makes it unknown, never wrong.
KeyRight(name) ==
    /\ slot # {} /\ Program.code[at].name = name
    /\ Straight /\ Key.word # None /\ OwnCopies
    => slot = {IF \E k \in Key.born..at : Program.code[k].name = "JUMPDEST" THEN None ELSE Key.word}

\* The slots of SLOADs in code without jumps are found (AdvCheck.py:74): a
\* constant that SWAPs, and DUPs of itself, have moved to the top.
ReadSlotsRight == KeyRight("SLOAD")

\* src/proxion/AdvCheck.py:180: "written by proxy, read by logic".  The same of
\* the slots that are written.
WrittenSlotsRight == KeyRight("SSTORE")

=============================================================================
