------------------------------ MODULE Emulator ------------------------------
(***************************************************************************)
(* The EVM emulator of src/octopus/octopus/platforms/ETH/emulator.py, which *)
(* proxy_check runs on a contract's fallback function.  Every call of one  *)
(* contract by another runs in an engine of its own (Handler.call), with   *)
(* its own stack, memory and storage cache: the engines form a stack, and  *)
(* one step is one instruction of the innermost one.  What is not cached   *)
(* is asked from the node, whose state moves on meanwhile.                 *)
(*                                                                         *)
(* An instruction is an opcode with the operands a compiler puts in front  *)
(* of it: the slot of SLOAD and SSTORE, the destination of a jump, and a   *)
(* memory window that holds one value.  The bytes of the memory are the    *)
(* subject of module EvmMemory.                                            *)
(***************************************************************************)
EXTENDS Integers, Sequences, FiniteSets

CONSTANTS
    Self,        \* the contract that is checked
    Others,      \* the other contracts it may reach
    Outside,     \* who sends the transaction
    Slots,       \* storage slots
    Zero, Junk,  \* the word 0, and a word that is no contract's address
    Input,       \* the calldata of the transaction
    Nothing,     \* no bytes
    Worlds,      \* the codes considered: functions from contracts to programs
    Storages,    \* the storages considered at the start
    MaxDepth,    \* how many engines fit into Python's recursion limit
    MaxChanges   \* bound: changes of the storage by other transactions

Accounts == {Self} \cup Others
Words == Accounts \cup {Outside, Zero, Junk}
Blobs == Words \cup {Input, Nothing}

CallOps == {"CALL", "CALLCODE", "DELEGATECALL", "STATICCALL"}

Instructions ==
    [op : {"CALLDATACOPY", "RETURNDATACOPY", "MLOAD", "MSTORE", "ADDRESS", "CALLER",
           "NUMBER", "JUMPDEST", "STOP", "INVALID", "RETURN", "REVERT"} \cup CallOps]
    \cup [op : {"SLOAD", "SSTORE"}, slot : Slots]
    \cup [op : {"PUSH"}, word : Words]
    \cup [op : {"JUMP", "JUMPI"}, to : Nat]

ASSUME WorldsAssumption ==
    \A world \in Worlds : DOMAIN world = Accounts
        /\ \A a \in Accounts : \A i \in DOMAIN world[a] : world[a][i] \in Instructions

ASSUME StorageAssumption == Storages \subseteq [Accounts -> [Slots -> Words]]

ASSUME DepthAssumption == MaxDepth \in Nat \ {0} /\ MaxChanges \in Nat

VARIABLES
    code,      \* the program of every contract, constant
    storage,   \* what eth_getStorageAt answers for "latest"
    changes,   \* counter for the bound
    engines,   \* the engines that are running, proxy_check's first
    outcome,   \* "running" | "halted" | "raised" | "silent"
    seen       \* history: what the first engine has loaded, written and called

vars == <<code, storage, changes, engines, outcome, seen>>

(* An engine with its VM state: kind is the instruction that started it,
   cache the words its Storage has, opcode the last opcode of its result. *)
Engine(kind, address, storageAddress, caller, calldata) ==
    [kind |-> kind, address |-> address, storageAddress |-> storageAddress,
     caller |-> caller, calldata |-> calldata,
     pc |-> 1, stack |-> <<>>, memory |-> Nothing, cache |-> [s \in {} |-> Zero],
     buffer |-> Nothing, delegates |-> <<>>, inconcrete |-> FALSE,
     halted |-> FALSE, opcode |-> "none", data |-> Nothing]

Depth == Len(engines)
Top == engines[Depth]
Program == code[Top.address]
Instr == Program[Top.pc]

----------------------------------------------------------------------------
(* One engine *)

\* The innermost engine becomes e.
Becomes(e) == engines' = [engines EXCEPT ![Depth] = e]

Push(e, word) == [e EXCEPT !.stack = <<word>> \o @]
Pop(e) == [e EXCEPT !.stack = Tail(@)]

\* The next instruction is executed: the pc is past it, and it is the last
\* opcode of the result.
Executed == [Top EXCEPT !.pc = @ + 1, !.opcode = Instr.op]

At(ops) ==
    /\ outcome = "running"
    /\ ~ Top.halted
    /\ Top.pc \in DOMAIN Program
    /\ Instr.op \in ops

Has(n) == Len(Top.stack) >= n

EnvUnchanged == UNCHANGED <<code, storage, changes, outcome>>

PushWord ==
    /\ At({"PUSH"})
    /\ Becomes(Push(Executed, Instr.word))
    /\ EnvUnchanged /\ UNCHANGED seen

\* ADDRESS and CALLER, as the call information has them.
Environment ==
    /\ At({"ADDRESS", "CALLER"})
    /\ Becomes(Push(Executed, IF Instr.op = "ADDRESS" THEN Top.address ELSE Top.caller))
    /\ EnvUnchanged /\ UNCHANGED seen

\* NUMBER and its like have no value that says anything about the contract.
BlockInfo ==
    /\ At({"NUMBER"})
    /\ \E w \in {Zero, Junk} : Becomes([Push(Executed, w) EXCEPT !.inconcrete = TRUE])
    /\ EnvUnchanged /\ UNCHANGED seen

\* CALLDATACOPY and RETURNDATACOPY.
Copy ==
    /\ At({"CALLDATACOPY", "RETURNDATACOPY"})
    /\ Becomes([Executed EXCEPT !.memory =
            IF Instr.op = "CALLDATACOPY" THEN Top.calldata ELSE Top.buffer])
    /\ EnvUnchanged /\ UNCHANGED seen

\* Mistake: MLOAD pushes the bytes that are there, however many they are.
BytesOf(blob) == blob

\* The word MLOAD finds where a value was put.
WordOf(blob) ==
    IF blob = Nothing THEN Zero ELSE IF blob = Input THEN Junk ELSE blob

Memory ==
    \/ /\ At({"MLOAD"})
       /\ Becomes(Push(Executed, WordOf(Top.memory)))
       /\ EnvUnchanged /\ UNCHANGED seen
    \/ /\ At({"MSTORE"}) /\ Has(1)
       /\ Becomes([Pop(Executed) EXCEPT !.memory = Head(Top.stack)])
       /\ EnvUnchanged /\ UNCHANGED seen

\* A word enters the storage cache.
Cached(e, slot, word) ==
    [e EXCEPT !.cache =
        [s \in (DOMAIN @) \cup {slot} |-> IF s = slot THEN word ELSE @[s]]]

\* Mistake: the node is asked whenever a slot is loaded.
AlwaysAsked(slot) == storage[Top.storageAddress][slot]

\* Storage.sload: a slot that is not in the cache, or is there as 0, is asked
\* from the node.
InCache(slot) == slot \in DOMAIN Top.cache /\ Top.cache[slot] # Zero

Loaded(slot) ==
    IF InCache(slot) THEN Top.cache[slot] ELSE storage[Top.storageAddress][slot]

Load ==
    /\ At({"SLOAD"})
    /\ LET word == Loaded(Instr.slot)
       IN  /\ Becomes(Push(Cached(Executed, Instr.slot, word), word))
           /\ seen' = IF Depth = 1 THEN [seen EXCEPT !.loaded = @ \cup {word}] ELSE seen
    /\ EnvUnchanged

\* Storage.sstore.
Save ==
    /\ At({"SSTORE"}) /\ Has(1)
    /\ Becomes(Cached(Pop(Executed), Instr.slot, Head(Top.stack)))
    /\ seen' = IF Depth = 1
               THEN [seen EXCEPT !.written =
                        [s \in (DOMAIN @) \cup {Instr.slot} |->
                            IF s = Instr.slot THEN Head(Top.stack) ELSE @[s]]]
               ELSE seen
    /\ EnvUnchanged

\* Mistake: the index of the target is one too small.
OneShort(e, taken) == [e EXCEPT !.pc = IF taken THEN Instr.to - 1 ELSE @]

Jumped(e, taken) == [e EXCEPT !.pc = IF taken THEN Instr.to ELSE @]

\* JUMP and JUMPI to an instruction of the program; a destination that is no
\* JUMPDEST halts the engine, of JUMPI even if the condition is false.
Jump ==
    /\ \/ At({"JUMP"})
       \/ At({"JUMPI"}) /\ Has(1)
    /\ Instr.to \in DOMAIN Program
    /\ LET taken == Instr.op = "JUMP" \/ Head(Top.stack) # Zero
           e == IF Instr.op = "JUMP" THEN Executed ELSE Pop(Executed)
       IN  Becomes([Jumped(e, taken) EXCEPT
                        !.halted = Program[Instr.to].op # "JUMPDEST"])
    /\ EnvUnchanged /\ UNCHANGED seen

JumpDest ==
    /\ At({"JUMPDEST"})
    /\ Becomes(Executed)
    /\ EnvUnchanged /\ UNCHANGED seen

\* STOP, INVALID, RETURN and REVERT halt the engine.
Halt ==
    /\ At({"STOP", "INVALID", "RETURN", "REVERT"})
    /\ Becomes([Executed EXCEPT !.halted = TRUE,
                                !.data = IF Instr.op \in {"RETURN", "REVERT"} THEN Top.memory
                                         ELSE Nothing])
    /\ EnvUnchanged /\ UNCHANGED seen

----------------------------------------------------------------------------
(* Calls *)

\* Mistake: CALLCODE runs on the storage of the contract it calls.
OwnStorage(op, to) ==
    IF op = "DELEGATECALL" THEN Top.storageAddress ELSE to

\* pass_callinfo['storage_address']
StorageFor(op, to) ==
    IF op \in {"CALL", "STATICCALL"} THEN to ELSE Top.storageAddress

\* pass_callinfo['caller']
CallerFor(op) ==
    IF op \in {"CALL", "CALLCODE"} THEN Top.address ELSE Top.caller

\* The interpreter's stack has room for one more engine.
Room == Depth < MaxDepth

\* Handler.call gets the code of the callee and starts an engine on it.
Call ==
    /\ At(CallOps) /\ Has(1)
    /\ Head(Top.stack) \in Accounts /\ code[Head(Top.stack)] # <<>>
    /\ Room
    /\ LET to == Head(Top.stack)
       IN  /\ engines' = Append([engines EXCEPT ![Depth] = Pop(Executed)],
                Engine(Instr.op, to, StorageFor(Instr.op, to), CallerFor(Instr.op), Top.memory))
           /\ seen' = IF Depth = 1 /\ Instr.op = "DELEGATECALL"
                      THEN [seen EXCEPT !.called = Append(@, to)]
                      ELSE seen
    /\ EnvUnchanged

\* The callers that look at what the callee returned: CALL and CALLCODE compare
\* its last opcode with the string 'RETURN, REVERT'.
Understood(callee) ==
    callee.kind \in {"DELEGATECALL", "STATICCALL"} /\ callee.opcode \in {"RETURN", "REVERT"}

\* The caller goes on with the return data and 1 or 0 for success, or halts.
Continued(e, callee) ==
    IF Understood(callee)
    THEN [Push(e, IF callee.opcode = "RETURN" THEN Junk ELSE Zero)
            EXCEPT !.buffer = callee.data]
    ELSE [e EXCEPT !.halted = TRUE]

\* Mistake: a delegatecall is only recorded when the caller goes on.
IfUnderstood(e, callee) ==
    IF callee.kind = "DELEGATECALL" /\ Understood(callee)
    THEN [e EXCEPT !.delegates =
            Append(@, [address |-> callee.address, calldata |-> callee.calldata])]
    ELSE e

\* self.delegate_info.append(tmp)
Recorded(e, callee) ==
    IF callee.kind = "DELEGATECALL"
    THEN [e EXCEPT !.delegates =
            Append(@, [address |-> callee.address, calldata |-> callee.calldata])]
    ELSE e

\* The innermost engine has halted and its caller handles the result.
Return ==
    /\ outcome = "running"
    /\ Top.halted /\ Depth > 1
    /\ LET caller == engines[Depth - 1]
       IN  engines' = [SubSeq(engines, 1, Depth - 1) EXCEPT
                            ![Depth - 1] = Recorded(Continued(caller, Top), Top)]
    /\ EnvUnchanged /\ UNCHANGED seen

\* The first engine has halted: emulate returns to proxy_check.
Finish ==
    /\ outcome = "running"
    /\ Top.halted /\ Depth = 1
    /\ outcome' = "halted"
    /\ UNCHANGED <<code, storage, changes, engines, seen>>

\* The instruction is carried out by asking the node.
Asks ==
    \/ At({"NUMBER"} \cup CallOps)
    \/ At({"SLOAD"}) /\ ~ InCache(Instr.slot)

\* The node never answers, and there is no time limit (octopus/engine/
\* explorer.py:43): the emulation waits for good.
Unanswered ==
    /\ outcome = "running"
    /\ Asks
    /\ outcome' = "silent"
    /\ UNCHANGED <<code, storage, changes, engines, seen>>

\* An exception leaves all engines: a call of the node raises; the stack has no
\* operand, the program no such instruction, the callee no code; Python has
\* reached its recursion limit.
Underflow == At({"MSTORE", "SSTORE", "JUMPI"} \cup CallOps) /\ ~ Has(1)

NoSuchCode ==
    \/ ~ Top.halted /\ Top.pc \notin DOMAIN Program
    \/ At({"JUMP", "JUMPI"}) /\ Instr.to \notin DOMAIN Program
    \/ At(CallOps) /\ Has(1)
       /\ ~ (Head(Top.stack) \in Accounts /\ code[Head(Top.stack)] # <<>>)

TooDeep == At(CallOps) /\ ~ Room

Raise ==
    /\ outcome = "running"
    /\ Asks \/ Underflow \/ NoSuchCode \/ TooDeep
    /\ outcome' = "raised"
    /\ UNCHANGED <<code, storage, changes, engines, seen>>

----------------------------------------------------------------------------

\* A transaction of somebody else changes a slot of the checked contract.
StorageChanges ==
    /\ changes < MaxChanges
    /\ changes' = changes + 1
    /\ \E s \in Slots, w \in Words : storage' = [storage EXCEPT ![Self][s] = w]
    /\ UNCHANGED <<code, engines, outcome, seen>>

Step ==
    \/ PushWord \/ Environment \/ BlockInfo \/ Copy \/ Memory
    \/ Load \/ Save \/ Jump \/ JumpDest \/ Halt
    \/ Call \/ Return \/ Finish \/ Raise \/ Unanswered

Init ==
    /\ code \in Worlds
    /\ storage \in Storages
    /\ changes = 0
    /\ engines = <<Engine("transaction", Self, Self, Outside, Input)>>
    /\ outcome = "running"
    /\ seen = [loaded |-> {}, written |-> [s \in {} |-> Zero], called |-> <<>>]

Next == Step \/ StorageChanges

\* One thread, which goes on unless a call of the node is left unanswered.
Spec == Init /\ [][Next]_vars /\ WF_vars(Step)

----------------------------------------------------------------------------
(* Properties *)

\* The account the EVM executes in an engine: the contract that was called
\* last other than for its code.
Executing(i) ==
    LET own == {k \in 1..i : engines[k].kind \notin {"DELEGATECALL", "CALLCODE"}}
    IN  engines[CHOOSE k \in own : \A j \in own : j <= k].address

\* Type invariant: also, the engines fit into the interpreter's stack.
TypeOK ==
    /\ storage \in [Accounts -> [Slots -> Words]]
    /\ outcome \in {"running", "halted", "raised", "silent"}
    /\ Depth \in 1..MaxDepth
    /\ \A i \in 1..Depth :
        /\ engines[i].address \in Accounts
        /\ engines[i].stack \in Seq(Words)
        /\ {engines[i].memory, engines[i].buffer, engines[i].calldata} \subseteq Blobs
        /\ engines[i].pc \in Nat
        /\ \A s \in DOMAIN engines[i].cache : s \in Slots /\ engines[i].cache[s] \in Words

\* However calls of all kinds are nested, an engine loads from the storage of
\* the account that the EVM would execute.
StorageOfExecuting ==
    \A i \in 1..Depth : engines[i].storageAddress = Executing(i)

\* The delegatecalls proxy_check gets to judge are those the contract made, in
\* their order, whether the callee returned, reverted or got stuck.
DelegatesRecorded ==
    outcome = "halted" =>
        LET made == engines[1].delegates
        IN  /\ Len(made) = Len(seen.called)
            /\ \A i \in DOMAIN made : made[i].address = seen.called[i]

\* The contract delegated to an address that it had loaded from its storage,
\* and wrote nothing: proxy_check finds a slot with that address, although
\* other transactions may have changed the slot since it was loaded.
SlotFound ==
    outcome = "halted" /\ DOMAIN seen.written = {} =>
        \A d \in seen.loaded \ {Zero} :
            (\E i \in DOMAIN engines[1].delegates : engines[1].delegates[i].address = d)
            => \E s \in DOMAIN engines[1].cache : engines[1].cache[s] = d

\* platforms/ETH/emulator.py:80, "while not halt": nothing but backward jumps keeps
\* an emulation going.  Contracts that call each other without end run into the
\* recursion limit, and what raises or is not understood ends it; it waits where
\* the node leaves a call unanswered, and a fallback that loops is emulated for
\* ever.
Ends == <>(outcome # "running") \/ []<><<Jump /\ Instr.to < Top.pc>>_vars

\* The contract that made the call, or for a delegatecall the one that called
\* that contract.
EvmCaller(i) ==
    LET plain == {k \in 1..i : engines[k].kind # "DELEGATECALL"}
        last == CHOOSE k \in plain : \A j \in plain : j <= k
    IN  IF last = 1 THEN Outside ELSE Executing(last - 1)

\* arch/evm/evm.py:36: "Get caller address."  CALLER answers as the EVM's at any
\* depth, as long as no call was a STATICCALL, which leaves the caller as it is,
\* and none was made by delegated code, which calls itself by its own address.
CallerIsCaller ==
    \A i \in 1..Depth :
        /\ \A k \in 1..i : engines[k].kind # "STATICCALL"
        /\ \A k \in 2..(i - 1) :
                engines[k].kind \in {"DELEGATECALL", "CALLCODE"}
                => engines[k + 1].kind = "DELEGATECALL"
        => engines[i].caller = EvmCaller(i)

\* arch/evm/evm.py:63: "Save word to storage."  A word other than zero that the
\* contract saved is what its storage holds until it saves another, through
\* loads, failed calls and changes of the slot by others.
SavedIsKept ==
    \A s \in DOMAIN seen.written :
        seen.written[s] # Zero => engines[1].cache[s] = seen.written[s]

\* An engine has the storage and the caller that the EVM would have.
ContextIsEvms == StorageOfExecuting /\ CallerIsCaller

\* What was loaded can be found again and what was saved is kept.
StorageRemembered == SlotFound /\ SavedIsKept

\* arch/evm/evm.py:142: "Halt execution returning output data."  The contract
\* that made the call goes on with the data.
ReturnIsReceived ==
    [][Depth > 1 /\ Top.halted /\ Top.opcode = "RETURN" /\ Depth' = Depth - 1
       => ~ Top'.halted]_vars

============================================================================
