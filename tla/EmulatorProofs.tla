---------------------------- MODULE EmulatorProofs ----------------------------
(***************************************************************************)
(* Proofs about Emulator for any contracts, storages and depth: an engine  *)
(* has the storage and the caller that the EVM would have, the first one   *)
(* records the delegatecalls it makes, and its storage cache forgets       *)
(* nothing.                                                                *)
(***************************************************************************)
EXTENDS Emulator, SequenceTheorems, TLAPS

Kinds == {"transaction"} \cup CallOps
Callers == Accounts \cup {Outside}
Delegated == [address : Accounts, calldata : Blobs]
Caches == UNION {[S -> Words] : S \in SUBSET Slots}
Opcodes == {i.op : i \in Instructions} \cup {"none"}

EngineRecord ==
    [kind : Kinds, address : Accounts, storageAddress : Accounts, caller : Callers,
     calldata : Blobs, pc : Nat, stack : Seq(Words), memory : Blobs, cache : Caches,
     buffer : Blobs, delegates : Seq(Delegated), inconcrete : BOOLEAN, halted : BOOLEAN,
     opcode : Opcodes, data : Blobs]

TypesHold ==
    /\ code \in Worlds /\ storage \in [Accounts -> [Slots -> Words]]
    /\ outcome \in {"running", "halted", "raised", "silent"}
    /\ engines \in Seq(EngineRecord) /\ Depth \in 1..MaxDepth

\* What an instruction leaves as it is.
Stays(e, d) ==
    /\ d.kind = e.kind /\ d.address = e.address /\ d.storageAddress = e.storageAddress
    /\ d.caller = e.caller /\ d.calldata = e.calldata /\ d.delegates = e.delegates

----------------------------------------------------------------------------
(* One engine *)

LEMMA PcSet ==
    ASSUME NEW e \in EngineRecord, NEW x \in Nat
    PROVE  /\ [e EXCEPT !.pc = x] \in EngineRecord
           /\ [e EXCEPT !.pc = x].pc = x
           /\ Stays(e, [e EXCEPT !.pc = x])
           /\ [e EXCEPT !.pc = x].stack = e.stack
           /\ [e EXCEPT !.pc = x].cache = e.cache
BY DEF EngineRecord, Stays

LEMMA OpcodeSet ==
    ASSUME NEW e \in EngineRecord, NEW x \in Opcodes
    PROVE  /\ [e EXCEPT !.opcode = x] \in EngineRecord
           /\ [e EXCEPT !.opcode = x].opcode = x
           /\ Stays(e, [e EXCEPT !.opcode = x])
           /\ [e EXCEPT !.opcode = x].stack = e.stack
           /\ [e EXCEPT !.opcode = x].cache = e.cache
BY DEF EngineRecord, Stays

LEMMA StackSet ==
    ASSUME NEW e \in EngineRecord, NEW x \in Seq(Words)
    PROVE  /\ [e EXCEPT !.stack = x] \in EngineRecord
           /\ [e EXCEPT !.stack = x].stack = x
           /\ Stays(e, [e EXCEPT !.stack = x])
           /\ [e EXCEPT !.stack = x].cache = e.cache
BY DEF EngineRecord, Stays

LEMMA MemorySet ==
    ASSUME NEW e \in EngineRecord, NEW x \in Blobs
    PROVE  /\ [e EXCEPT !.memory = x] \in EngineRecord
           /\ [e EXCEPT !.memory = x].memory = x
           /\ Stays(e, [e EXCEPT !.memory = x])
           /\ [e EXCEPT !.memory = x].stack = e.stack
           /\ [e EXCEPT !.memory = x].cache = e.cache
BY DEF EngineRecord, Stays

LEMMA InconcreteSet ==
    ASSUME NEW e \in EngineRecord, NEW x \in BOOLEAN
    PROVE  /\ [e EXCEPT !.inconcrete = x] \in EngineRecord
           /\ [e EXCEPT !.inconcrete = x].inconcrete = x
           /\ Stays(e, [e EXCEPT !.inconcrete = x])
           /\ [e EXCEPT !.inconcrete = x].stack = e.stack
           /\ [e EXCEPT !.inconcrete = x].cache = e.cache
BY DEF EngineRecord, Stays

LEMMA CacheSet ==
    ASSUME NEW e \in EngineRecord, NEW x \in Caches
    PROVE  /\ [e EXCEPT !.cache = x] \in EngineRecord
           /\ [e EXCEPT !.cache = x].cache = x
           /\ Stays(e, [e EXCEPT !.cache = x])
           /\ [e EXCEPT !.cache = x].stack = e.stack
BY DEF EngineRecord, Stays

LEMMA HaltedSet ==
    ASSUME NEW e \in EngineRecord, NEW x \in BOOLEAN
    PROVE  /\ [e EXCEPT !.halted = x] \in EngineRecord
           /\ [e EXCEPT !.halted = x].halted = x
           /\ Stays(e, [e EXCEPT !.halted = x])
           /\ [e EXCEPT !.halted = x].stack = e.stack
           /\ [e EXCEPT !.halted = x].cache = e.cache
           /\ [e EXCEPT !.halted = x].opcode = e.opcode
           /\ [e EXCEPT !.halted = x].data = e.data
BY DEF EngineRecord, Stays

LEMMA DataSet ==
    ASSUME NEW e \in EngineRecord, NEW x \in Blobs
    PROVE  /\ [e EXCEPT !.data = x] \in EngineRecord
           /\ [e EXCEPT !.data = x].data = x
           /\ Stays(e, [e EXCEPT !.data = x])
           /\ [e EXCEPT !.data = x].stack = e.stack
           /\ [e EXCEPT !.data = x].cache = e.cache
BY DEF EngineRecord, Stays

LEMMA BufferSet ==
    ASSUME NEW e \in EngineRecord, NEW x \in Blobs
    PROVE  /\ [e EXCEPT !.buffer = x] \in EngineRecord
           /\ [e EXCEPT !.buffer = x].buffer = x
           /\ Stays(e, [e EXCEPT !.buffer = x])
           /\ [e EXCEPT !.buffer = x].stack = e.stack
           /\ [e EXCEPT !.buffer = x].cache = e.cache
BY DEF EngineRecord, Stays

LEMMA DelegatesSet ==
    ASSUME NEW e \in EngineRecord, NEW x \in Seq(Delegated)
    PROVE  /\ [e EXCEPT !.delegates = x] \in EngineRecord
           /\ [e EXCEPT !.delegates = x].delegates = x
           /\ [e EXCEPT !.delegates = x].kind = e.kind
           /\ [e EXCEPT !.delegates = x].address = e.address
           /\ [e EXCEPT !.delegates = x].storageAddress = e.storageAddress
           /\ [e EXCEPT !.delegates = x].caller = e.caller
           /\ [e EXCEPT !.delegates = x].calldata = e.calldata
           /\ [e EXCEPT !.delegates = x].stack = e.stack
           /\ [e EXCEPT !.delegates = x].cache = e.cache
BY DEF EngineRecord, Stays

LEMMA TopTyped ==
    ASSUME TypesHold
    PROVE  /\ Top \in EngineRecord /\ Depth \in Nat \ {0} /\ Depth \in 1..Len(engines)
           /\ \A i \in 1..Depth : engines[i] \in EngineRecord
           /\ Top.address \in Accounts /\ Top.stack \in Seq(Words) /\ Top.pc \in Nat
           /\ {Top.memory, Top.buffer, Top.calldata} \subseteq Blobs
<1>1. Depth \in Nat \ {0} /\ Depth \in 1..Len(engines)
    BY DEF TypesHold, Depth
<1>2. \A i \in 1..Depth : engines[i] \in EngineRecord
    BY ElementOfSeq DEF TypesHold, Depth
<1>3. Top \in EngineRecord
    BY <1>1, <1>2 DEF Top, Depth
<1> QED
    BY <1>1, <1>2, <1>3 DEF EngineRecord

LEMMA InstructionTyped ==
    ASSUME TypesHold, NEW ops, At(ops)
    PROVE  /\ Instr \in Instructions /\ Instr.op \in ops /\ Instr.op \in Opcodes
           /\ outcome = "running" /\ ~ Top.halted /\ Top.pc \in DOMAIN Program
           /\ Instr.op \in {"SLOAD", "SSTORE"} => Instr.slot \in Slots
           /\ Instr.op = "PUSH" => Instr.word \in Words
           /\ Instr.op \in {"JUMP", "JUMPI"} => Instr.to \in Nat
<1>1. Top.address \in Accounts
    BY TopTyped
<1>2. DOMAIN code = Accounts /\ \A a \in Accounts : \A i \in DOMAIN code[a] : code[a][i] \in Instructions
    BY WorldsAssumption DEF TypesHold
<1>3. Instr \in Instructions
    BY <1>1, <1>2 DEF At, Instr, Program
<1>4. Instr.op \in Opcodes
    BY <1>3 DEF Opcodes
<1>5. Instr.op \in {"SLOAD", "SSTORE"} => Instr.slot \in Slots
    BY <1>3 DEF Instructions, CallOps
<1>6. Instr.op = "PUSH" => Instr.word \in Words
    BY <1>3 DEF Instructions, CallOps
<1>7. Instr.op \in {"JUMP", "JUMPI"} => Instr.to \in Nat
    BY <1>3 DEF Instructions, CallOps
<1> QED
    BY <1>3, <1>4, <1>5, <1>6, <1>7 DEF At

LEMMA ExecutedTyped ==
    ASSUME TypesHold, NEW ops, At(ops)
    PROVE  /\ Executed \in EngineRecord /\ Stays(Top, Executed)
           /\ Executed.stack = Top.stack /\ Executed.cache = Top.cache
<1> DEFINE n == Top.pc + 1
           d == [Top EXCEPT !.pc = n]
<1>1. Top \in EngineRecord /\ Top.pc \in Nat /\ Instr.op \in Opcodes
    BY TopTyped, InstructionTyped
<1>2. n \in Nat
    BY <1>1
<1> HIDE DEF n
<1>3. d \in EngineRecord /\ Stays(Top, d) /\ d.stack = Top.stack /\ d.cache = Top.cache
    BY <1>1, <1>2, PcSet, Zenon
<1>4. Executed = [d EXCEPT !.opcode = Instr.op]
    BY Zenon DEF Executed, d, n
<1> HIDE DEF d
<1>5. /\ Executed \in EngineRecord /\ Stays(d, Executed)
      /\ Executed.stack = d.stack /\ Executed.cache = d.cache
    BY <1>1, <1>3, <1>4, OpcodeSet, Zenon
<1> QED
    BY <1>3, <1>5 DEF Stays

LEMMA PushTyped ==
    ASSUME NEW e \in EngineRecord, NEW word \in Words
    PROVE  Push(e, word) \in EngineRecord /\ Stays(e, Push(e, word)) /\ Push(e, word).cache = e.cache
<1> DEFINE s == <<word>> \o e.stack
<1>1. s \in Seq(Words)
    <2>1. e.stack \in Seq(Words) /\ <<word>> \in Seq(Words)
        BY DEF EngineRecord
    <2> QED
        BY <2>1, ConcatProperties
<1> DEFINE d == [e EXCEPT !.stack = s]
<1>2. Push(e, word) = d
    BY DEF Push
<1> HIDE DEF s
<1>3. d \in EngineRecord /\ Stays(e, d) /\ d.cache = e.cache
    BY <1>1, StackSet, Zenon
<1> HIDE DEF d
<1> QED
    BY <1>2, <1>3, Zenon

LEMMA PopTyped ==
    ASSUME NEW e \in EngineRecord, Len(e.stack) >= 1
    PROVE  /\ Pop(e) \in EngineRecord /\ Stays(e, Pop(e)) /\ Pop(e).cache = e.cache
           /\ Head(e.stack) \in Words
<1>1. e.stack \in Seq(Words) /\ Len(<<>>) = 0
    BY EmptySeq DEF EngineRecord
<1>2. Tail(e.stack) \in Seq(Words) /\ Head(e.stack) \in Words
    BY <1>1, HeadTailProperties
<1> DEFINE d == [e EXCEPT !.stack = Tail(e.stack)]
<1>3. Pop(e) = d
    BY DEF Pop
<1>4. d \in EngineRecord /\ Stays(e, d) /\ d.cache = e.cache
    BY <1>2, StackSet, Zenon
<1> HIDE DEF d
<1> QED
    BY <1>2, <1>3, <1>4, Zenon

LEMMA CachedTyped ==
    ASSUME NEW e \in EngineRecord, NEW slot \in Slots, NEW word \in Words
    PROVE  /\ Cached(e, slot, word) \in EngineRecord /\ Stays(e, Cached(e, slot, word))
           /\ Cached(e, slot, word).cache =
                [s \in (DOMAIN e.cache) \cup {slot} |-> IF s = slot THEN word ELSE e.cache[s]]
<1> DEFINE c == [s \in (DOMAIN e.cache) \cup {slot} |-> IF s = slot THEN word ELSE e.cache[s]]
<1>1. PICK S \in SUBSET Slots : e.cache \in [S -> Words]
    BY DEF EngineRecord, Caches
<1>2. c \in [S \cup {slot} -> Words] /\ S \cup {slot} \in SUBSET Slots
    BY <1>1
<1>3. c \in Caches
    BY <1>2 DEF Caches
<1> DEFINE d == [e EXCEPT !.cache = c]
<1>4. Cached(e, slot, word) = d
    BY DEF Cached
<1> HIDE DEF c
<1>5. /\ [e EXCEPT !.cache = c] \in EngineRecord /\ Stays(e, [e EXCEPT !.cache = c])
      /\ [e EXCEPT !.cache = c].cache = c
    BY <1>3, CacheSet, Zenon
<1> HIDE DEF d
<1>6. /\ Cached(e, slot, word) \in EngineRecord /\ Stays(e, Cached(e, slot, word))
      /\ Cached(e, slot, word).cache = c
    BY <1>4, <1>5, Zenon DEF d
<1> QED
    BY <1>6, Zenon DEF c

LEMMA JumpedTyped ==
    ASSUME NEW e \in EngineRecord, NEW taken \in BOOLEAN, Instr.to \in Nat, NEW stop \in BOOLEAN
    PROVE  LET d == [Jumped(e, taken) EXCEPT !.halted = stop]
           IN  d \in EngineRecord /\ Stays(e, d) /\ d.cache = e.cache
<1> DEFINE n == IF taken THEN Instr.to ELSE e.pc
           j == [e EXCEPT !.pc = n]
<1>1. n \in Nat
    BY DEF EngineRecord
<1>2. Jumped(e, taken) = j
    BY DEF Jumped
<1> HIDE DEF n
<1>3. j \in EngineRecord /\ Stays(e, j) /\ j.cache = e.cache
    BY <1>1, PcSet, Zenon
<1> HIDE DEF j
<1>4. /\ [j EXCEPT !.halted = stop] \in EngineRecord /\ Stays(j, [j EXCEPT !.halted = stop])
      /\ [j EXCEPT !.halted = stop].cache = j.cache
    BY <1>3, HaltedSet, Zenon
<1> QED
    BY <1>2, <1>3, <1>4 DEF Stays

----------------------------------------------------------------------------
(* What the instructions do *)

\* An instruction makes the innermost engine d.
Runs(d) ==
    /\ outcome = "running" /\ d \in EngineRecord /\ Becomes(d) /\ Stays(Top, d)
    /\ UNCHANGED <<code, storage, changes, outcome>>

\* One that leaves the storage alone.
Plain == \E d : Runs(d) /\ d.cache = Top.cache /\ seen' = seen

LEMMA PushPlain == TypesHold /\ (PushWord \/ Environment \/ BlockInfo) => Plain
<1> SUFFICES ASSUME TypesHold, PushWord \/ Environment \/ BlockInfo
             PROVE  Plain
    OBVIOUS
<1>1. ASSUME NEW w \in Words, NEW ops, At(ops), Becomes(Push(Executed, w)), EnvUnchanged, UNCHANGED seen
      PROVE  Plain
    <2>1. /\ Executed \in EngineRecord /\ Stays(Top, Executed) /\ Executed.cache = Top.cache
        BY <1>1, ExecutedTyped
    <2> DEFINE d == Push(Executed, w)
    <2>2. d \in EngineRecord /\ Stays(Executed, d) /\ d.cache = Executed.cache
        BY <1>1, <2>1, PushTyped
    <2>3. Becomes(d) /\ outcome = "running"
        BY <1>1 DEF At
    <2> HIDE DEF d
    <2>4. Stays(Top, d) /\ d.cache = Top.cache
        BY <2>1, <2>2 DEF Stays
    <2> QED
        BY <1>1, <2>2, <2>3, <2>4 DEF Plain, Runs, EnvUnchanged
<1>2. CASE PushWord
    BY <1>1, <1>2, InstructionTyped DEF PushWord
<1>3. CASE Environment
    <2>1. Top.address \in Words /\ Top.caller \in Words
        BY TopTyped DEF EngineRecord, Callers, Words
    <2> QED
        BY <1>1, <1>3, <2>1 DEF Environment
<1>4. CASE BlockInfo
    <2>1. PICK w \in {Zero, Junk} : Becomes([Push(Executed, w) EXCEPT !.inconcrete = TRUE])
        BY <1>4 DEF BlockInfo
    <2>2. /\ At({"NUMBER"}) /\ w \in Words /\ EnvUnchanged /\ UNCHANGED seen
        BY <1>4 DEF BlockInfo, Words
    <2>3. /\ Executed \in EngineRecord /\ Stays(Top, Executed) /\ Executed.cache = Top.cache
        BY <2>2, ExecutedTyped
    <2> DEFINE p == Push(Executed, w)
               d == [p EXCEPT !.inconcrete = TRUE]
    <2>4. p \in EngineRecord /\ Stays(Executed, p) /\ p.cache = Executed.cache
        BY <2>2, <2>3, PushTyped
    <2>5. Becomes(d) /\ outcome = "running"
        BY <2>1, <2>2 DEF At
    <2> HIDE DEF p
    <2>6. d \in EngineRecord /\ Stays(p, d) /\ d.cache = p.cache
        BY <2>4, InconcreteSet, Zenon
    <2> HIDE DEF d
    <2>7. Stays(Top, d) /\ d.cache = Top.cache
        BY <2>3, <2>4, <2>6 DEF Stays
    <2> QED
        BY <2>2, <2>5, <2>6, <2>7 DEF Plain, Runs, EnvUnchanged
<1> QED
    BY <1>2, <1>3, <1>4

LEMMA CopyPlain == TypesHold /\ Copy => Plain
<1> SUFFICES ASSUME TypesHold, Copy
             PROVE  Plain
    OBVIOUS
<1> DEFINE m == IF Instr.op = "CALLDATACOPY" THEN Top.calldata ELSE Top.buffer
           d == [Executed EXCEPT !.memory = m]
<1>1. /\ At({"CALLDATACOPY", "RETURNDATACOPY"}) /\ Becomes(d) /\ EnvUnchanged /\ UNCHANGED seen
    BY DEF Copy
<1>2. /\ Executed \in EngineRecord /\ Stays(Top, Executed) /\ Executed.cache = Top.cache
    BY <1>1, ExecutedTyped
<1>3. m \in Blobs /\ outcome = "running"
    BY <1>1, TopTyped DEF At
<1> HIDE DEF m
<1>4. d \in EngineRecord /\ Stays(Executed, d) /\ d.cache = Executed.cache
    BY <1>2, <1>3, MemorySet, Zenon
<1> HIDE DEF d
<1> QED
    BY <1>1, <1>2, <1>3, <1>4 DEF Plain, Runs, Stays, EnvUnchanged

LEMMA MemoryPlain == TypesHold /\ Memory => Plain
<1> SUFFICES ASSUME TypesHold, Memory
             PROVE  Plain
    OBVIOUS
<1>1. CASE At({"MLOAD"}) /\ Becomes(Push(Executed, WordOf(Top.memory))) /\ EnvUnchanged /\ UNCHANGED seen
    <2>1. /\ Executed \in EngineRecord /\ Stays(Top, Executed) /\ Executed.cache = Top.cache
        BY <1>1, ExecutedTyped
    <2>2. Top.memory \in Blobs
        BY TopTyped
    <2>3. WordOf(Top.memory) \in Words
        BY <2>2 DEF WordOf, Blobs, Words
    <2> DEFINE d == Push(Executed, WordOf(Top.memory))
    <2>4. d \in EngineRecord /\ Stays(Executed, d) /\ d.cache = Executed.cache
        BY <2>1, <2>3, PushTyped
    <2>5. Becomes(d) /\ outcome = "running"
        BY <1>1 DEF At
    <2> HIDE DEF d
    <2> QED
        BY <1>1, <2>1, <2>4, <2>5 DEF Plain, Runs, Stays, EnvUnchanged
<1>2. CASE /\ At({"MSTORE"}) /\ Has(1)
           /\ Becomes([Pop(Executed) EXCEPT !.memory = Head(Top.stack)])
           /\ EnvUnchanged /\ UNCHANGED seen
    <2>1. /\ Executed \in EngineRecord /\ Stays(Top, Executed) /\ Executed.cache = Top.cache
          /\ Executed.stack = Top.stack /\ Len(Executed.stack) >= 1
        BY <1>2, ExecutedTyped DEF Has
    <2> DEFINE p == Pop(Executed)
               d == [p EXCEPT !.memory = Head(Top.stack)]
    <2>2. /\ p \in EngineRecord /\ Stays(Executed, p) /\ p.cache = Executed.cache
          /\ Head(Top.stack) \in Words
        BY <2>1, PopTyped
    <2>3. Becomes(d) /\ outcome = "running" /\ Head(Top.stack) \in Blobs
        BY <1>2, <2>2 DEF At, Blobs
    <2> HIDE DEF p
    <2>4. d \in EngineRecord /\ Stays(p, d) /\ d.cache = p.cache
        BY <2>2, <2>3, MemorySet, Zenon
    <2> HIDE DEF d
    <2> QED
        BY <1>2, <2>1, <2>2, <2>3, <2>4 DEF Plain, Runs, Stays, EnvUnchanged
<1> QED
    BY <1>1, <1>2 DEF Memory

LEMMA JumpPlain == TypesHold /\ (Jump \/ JumpDest) => Plain
<1> SUFFICES ASSUME TypesHold, Jump \/ JumpDest
             PROVE  Plain
    OBVIOUS
<1>1. CASE Jump
    <2> DEFINE taken == Instr.op = "JUMP" \/ Head(Top.stack) # Zero
               stop == Program[Instr.to].op # "JUMPDEST"
               e == IF Instr.op = "JUMP" THEN Executed ELSE Pop(Executed)
               d == [Jumped(e, taken) EXCEPT !.halted = stop]
    <2>1. PICK ops \in {{"JUMP"}, {"JUMPI"}} : At(ops) /\ (ops = {"JUMPI"} => Has(1))
        BY <1>1 DEF Jump
    <2>2. /\ Executed \in EngineRecord /\ Stays(Top, Executed) /\ Executed.cache = Top.cache
          /\ Executed.stack = Top.stack
        BY <2>1, ExecutedTyped
    <2>3. Instr.op \in ops /\ Instr.to \in Nat /\ outcome = "running"
        BY <2>1, InstructionTyped DEF At
    <2>4. Instr.op # "JUMP" => Len(Executed.stack) >= 1
        BY <2>1, <2>2, <2>3 DEF Has
    <2>5. e \in EngineRecord /\ Stays(Executed, e) /\ e.cache = Executed.cache
        BY <2>2, <2>4, PopTyped DEF Stays
    <2>6. taken \in BOOLEAN /\ stop \in BOOLEAN
        OBVIOUS
    <2>7. Becomes(d) /\ EnvUnchanged /\ UNCHANGED seen
        BY <1>1 DEF Jump
    <2> HIDE DEF e, taken, stop
    <2>8. d \in EngineRecord /\ Stays(e, d) /\ d.cache = e.cache
        BY <2>3, <2>5, <2>6, JumpedTyped
    <2> HIDE DEF d
    <2> QED
        BY <2>2, <2>3, <2>5, <2>7, <2>8 DEF Plain, Runs, Stays, EnvUnchanged
<1>2. CASE JumpDest
    BY <1>2, ExecutedTyped DEF JumpDest, Plain, Runs, At, EnvUnchanged
<1> QED
    BY <1>1, <1>2

LEMMA HaltPlain == TypesHold /\ Halt => Plain
<1> SUFFICES ASSUME TypesHold, Halt
             PROVE  Plain
    OBVIOUS
<1> DEFINE b == IF Instr.op \in {"RETURN", "REVERT"} THEN Top.memory ELSE Nothing
           h == [Executed EXCEPT !.halted = TRUE]
           d == [h EXCEPT !.data = b]
<1>1. At({"STOP", "INVALID", "RETURN", "REVERT"}) /\ EnvUnchanged /\ UNCHANGED seen
    BY DEF Halt
<1>2. /\ Executed \in EngineRecord /\ Stays(Top, Executed) /\ Executed.cache = Top.cache
      /\ outcome = "running"
    BY <1>1, ExecutedTyped DEF At
<1>3. Becomes(d)
    <2>1. d = [Executed EXCEPT !.halted = TRUE, !.data = b]
        BY Zenon
    <2> QED
        BY <2>1 DEF Halt
<1>4. b \in Blobs
    BY TopTyped DEF Blobs
<1>5. h \in EngineRecord /\ Stays(Executed, h) /\ h.cache = Executed.cache
    BY <1>2, HaltedSet, Zenon
<1> HIDE DEF b, h
<1>6. d \in EngineRecord /\ Stays(h, d) /\ d.cache = h.cache
    BY <1>4, <1>5, DataSet, Zenon
<1> HIDE DEF d
<1> QED
    BY <1>1, <1>2, <1>3, <1>5, <1>6 DEF Plain, Runs, Stays, EnvUnchanged

\* What is loaded enters the cache, where it may be already.
LEMMA LoadRuns ==
    ASSUME TypesHold, Load
    PROVE  \E d : /\ Runs(d) /\ Instr.slot \in Slots /\ Loaded(Instr.slot) \in Words
                  /\ d.cache = [s \in (DOMAIN Top.cache) \cup {Instr.slot} |->
                                    IF s = Instr.slot THEN Loaded(Instr.slot) ELSE Top.cache[s]]
                  /\ seen' = IF Depth = 1
                             THEN [seen EXCEPT !.loaded = @ \cup {Loaded(Instr.slot)}] ELSE seen
<1> DEFINE word == Loaded(Instr.slot)
           c == Cached(Executed, Instr.slot, word)
           d == Push(c, word)
<1>1. At({"SLOAD"}) /\ EnvUnchanged /\ outcome = "running"
    BY DEF Load, At
<1>2. /\ Executed \in EngineRecord /\ Stays(Top, Executed) /\ Executed.cache = Top.cache
      /\ Instr.slot \in Slots
    BY <1>1, ExecutedTyped, InstructionTyped
<1>3. word \in Words
    <2>1. Top.storageAddress \in Accounts
        BY TopTyped DEF EngineRecord
    <2>2. \A s \in DOMAIN Top.cache : Top.cache[s] \in Words
        <3>1. Top.cache \in Caches
            BY TopTyped DEF EngineRecord
        <3> QED
            BY <3>1 DEF Caches
    <2> QED
        BY <1>2, <2>1, <2>2 DEF Loaded, InCache, TypesHold
<1>4. Becomes(d) /\ seen' = IF Depth = 1 THEN [seen EXCEPT !.loaded = @ \cup {word}] ELSE seen
    BY DEF Load
<1>5. /\ c \in EngineRecord /\ Stays(Executed, c)
      /\ c.cache = [s \in (DOMAIN Executed.cache) \cup {Instr.slot} |->
                        IF s = Instr.slot THEN word ELSE Executed.cache[s]]
    BY <1>2, <1>3, CachedTyped
<1> HIDE DEF c, word
<1>6. d \in EngineRecord /\ Stays(c, d) /\ d.cache = c.cache
    BY <1>3, <1>5, PushTyped
<1> HIDE DEF d
<1>7. Runs(d)
    BY <1>1, <1>2, <1>4, <1>5, <1>6 DEF Runs, Stays, EnvUnchanged
<1>8. d.cache = [s \in (DOMAIN Top.cache) \cup {Instr.slot} |->
                    IF s = Instr.slot THEN word ELSE Top.cache[s]]
    BY <1>2, <1>5, <1>6
<1> QED
    BY <1>2, <1>3, <1>4, <1>7, <1>8 DEF word

LEMMA SaveRuns ==
    ASSUME TypesHold, Save
    PROVE  \E d : /\ Runs(d) /\ Instr.slot \in Slots /\ Head(Top.stack) \in Words
                  /\ d.cache = [s \in (DOMAIN Top.cache) \cup {Instr.slot} |->
                                    IF s = Instr.slot THEN Head(Top.stack) ELSE Top.cache[s]]
                  /\ seen' = IF Depth = 1
                             THEN [seen EXCEPT !.written =
                                    [s \in (DOMAIN @) \cup {Instr.slot} |->
                                        IF s = Instr.slot THEN Head(Top.stack) ELSE @[s]]]
                             ELSE seen
<1> DEFINE p == Pop(Executed)
           d == Cached(p, Instr.slot, Head(Top.stack))
<1>1. At({"SSTORE"}) /\ EnvUnchanged /\ outcome = "running" /\ Has(1)
    BY DEF Save, At
<1>2. /\ Executed \in EngineRecord /\ Stays(Top, Executed) /\ Executed.cache = Top.cache
      /\ Instr.slot \in Slots /\ Executed.stack = Top.stack /\ Len(Executed.stack) >= 1
    BY <1>1, ExecutedTyped, InstructionTyped DEF Has
<1>3. /\ p \in EngineRecord /\ Stays(Executed, p) /\ p.cache = Executed.cache
      /\ Head(Top.stack) \in Words
    BY <1>2, PopTyped
<1>4. Becomes(d)
    BY DEF Save
<1> HIDE DEF p
<1>5. /\ d \in EngineRecord /\ Stays(p, d)
      /\ d.cache = [s \in (DOMAIN p.cache) \cup {Instr.slot} |->
                        IF s = Instr.slot THEN Head(Top.stack) ELSE p.cache[s]]
    BY <1>2, <1>3, CachedTyped
<1> HIDE DEF d
<1>6. Runs(d)
    BY <1>1, <1>2, <1>3, <1>4, <1>5 DEF Runs, Stays, EnvUnchanged
<1>7. d.cache = [s \in (DOMAIN Top.cache) \cup {Instr.slot} |->
                    IF s = Instr.slot THEN Head(Top.stack) ELSE Top.cache[s]]
    BY <1>2, <1>3, <1>5
<1> QED
    BY <1>2, <1>3, <1>6, <1>7 DEF Save

\* A call starts an engine on the callee's code.
LEMMA CallStarts ==
    ASSUME TypesHold, Call
    PROVE  \E d, n \in EngineRecord :
                /\ Stays(Top, d) /\ d.cache = Top.cache
                /\ n.kind \in CallOps /\ n.storageAddress = StorageFor(n.kind, n.address)
                /\ n.caller = CallerFor(n.kind)
                /\ engines' = Append([engines EXCEPT ![Depth] = d], n)
                /\ Depth < MaxDepth
                /\ seen' = IF Depth = 1 /\ n.kind = "DELEGATECALL"
                           THEN [seen EXCEPT !.called = Append(@, n.address)] ELSE seen
                /\ outcome = "running" /\ UNCHANGED <<code, storage, changes, outcome>>
<1> DEFINE to == Head(Top.stack)
           d == Pop(Executed)
           n == Engine(Instr.op, to, StorageFor(Instr.op, to), CallerFor(Instr.op), Top.memory)
<1>1. At(CallOps) /\ EnvUnchanged /\ outcome = "running" /\ Has(1) /\ Room /\ to \in Accounts
    BY DEF Call, At
<1>2. /\ Executed \in EngineRecord /\ Stays(Top, Executed) /\ Executed.cache = Top.cache
      /\ Executed.stack = Top.stack /\ Len(Executed.stack) >= 1
    BY <1>1, ExecutedTyped DEF Has
<1>3. d \in EngineRecord /\ Stays(Executed, d) /\ d.cache = Executed.cache
    BY <1>2, PopTyped
<1>4. Instr.op \in CallOps
    BY <1>1, InstructionTyped
<1>5. /\ Top.address \in Accounts /\ Top.storageAddress \in Accounts /\ Top.caller \in Callers
      /\ Top.memory \in Blobs
    BY TopTyped DEF EngineRecord
<1>6. StorageFor(Instr.op, to) \in Accounts /\ CallerFor(Instr.op) \in Callers
    BY <1>1, <1>5 DEF StorageFor, CallerFor, Callers
<1>7. n \in EngineRecord
    <2>1. [s \in {} |-> Zero] \in [{} -> Words] /\ {} \in SUBSET Slots
        OBVIOUS
    <2>2. [s \in {} |-> Zero] \in Caches
        BY <2>1 DEF Caches
    <2>3. "none" \in Opcodes /\ Nothing \in Blobs /\ Instr.op \in Kinds
        BY <1>4 DEF Opcodes, Blobs, Kinds
    <2>4. <<>> \in Seq(Words) /\ <<>> \in Seq(Delegated) /\ 1 \in Nat
        BY EmptySeq
    <2> HIDE DEF to
    <2> QED
        BY <1>1, <1>5, <1>6, <2>2, <2>3, <2>4 DEF Engine, EngineRecord
<1>8. n.kind = Instr.op /\ n.address = to
      /\ n.storageAddress = StorageFor(Instr.op, to) /\ n.caller = CallerFor(Instr.op)
    BY DEF Engine
<1>9. /\ engines' = Append([engines EXCEPT ![Depth] = d], n)
      /\ seen' = IF Depth = 1 /\ Instr.op = "DELEGATECALL"
                 THEN [seen EXCEPT !.called = Append(@, to)] ELSE seen
    BY DEF Call
<1> HIDE DEF d, n, to
<1>10. Stays(Top, d) /\ d.cache = Top.cache
    BY <1>2, <1>3 DEF Stays
<1>11. seen' = IF Depth = 1 /\ n.kind = "DELEGATECALL"
               THEN [seen EXCEPT !.called = Append(@, n.address)] ELSE seen
    BY <1>8, <1>9
<1>12. /\ n.kind \in CallOps /\ n.storageAddress = StorageFor(n.kind, n.address)
       /\ n.caller = CallerFor(n.kind)
    BY <1>4, <1>8
<1> QED
    BY <1>1, <1>3, <1>7, <1>9, <1>10, <1>11, <1>12 DEF EnvUnchanged, Room

\* The caller goes on or halts, and has recorded a delegatecall.
LEMMA ReturnResumes ==
    ASSUME TypesHold, Return
    PROVE  /\ Depth > 1 /\ outcome = "running" /\ UNCHANGED <<code, storage, changes, outcome, seen>>
           /\ \E d \in EngineRecord :
                /\ engines' = [SubSeq(engines, 1, Depth - 1) EXCEPT ![Depth - 1] = d]
                /\ d.kind = engines[Depth - 1].kind /\ d.address = engines[Depth - 1].address
                /\ d.storageAddress = engines[Depth - 1].storageAddress
                /\ d.caller = engines[Depth - 1].caller /\ d.cache = engines[Depth - 1].cache
                /\ d.delegates =
                    IF Top.kind = "DELEGATECALL"
                    THEN Append(engines[Depth - 1].delegates,
                                [address |-> Top.address, calldata |-> Top.calldata])
                    ELSE engines[Depth - 1].delegates
<1> DEFINE e == engines[Depth - 1]
           c == Continued(e, Top)
           d == Recorded(c, Top)
<1>1. /\ Depth > 1 /\ outcome = "running" /\ UNCHANGED <<code, storage, changes, outcome, seen>>
      /\ engines' = [SubSeq(engines, 1, Depth - 1) EXCEPT ![Depth - 1] = d]
    BY DEF Return, EnvUnchanged
<1>2. e \in EngineRecord /\ Top \in EngineRecord
    BY <1>1, TopTyped
<1> HIDE DEF e
<1>3. c \in EngineRecord /\ Stays(e, c) /\ c.cache = e.cache
    <2>1. CASE Understood(Top)
        <3> DEFINE w == IF Top.opcode = "RETURN" THEN Junk ELSE Zero
                   p == Push(e, w)
        <3>1. w \in Words /\ Top.data \in Blobs
            BY <1>2 DEF Words, EngineRecord
        <3>2. p \in EngineRecord /\ Stays(e, p) /\ p.cache = e.cache
            BY <1>2, <3>1, PushTyped
        <3>3. c = [p EXCEPT !.buffer = Top.data]
            BY <2>1 DEF Continued
        <3> HIDE DEF p
        <3> DEFINE q == [p EXCEPT !.buffer = Top.data]
        <3>4. q \in EngineRecord /\ Stays(p, q) /\ q.cache = p.cache
            BY <3>1, <3>2, BufferSet, Zenon
        <3> HIDE DEF q
        <3> QED
            BY <3>2, <3>3, <3>4 DEF Stays, q
    <2>2. CASE ~ Understood(Top)
        <3> DEFINE q == [e EXCEPT !.halted = TRUE]
        <3>1. q \in EngineRecord /\ Stays(e, q) /\ q.cache = e.cache
            BY <1>2, HaltedSet, Zenon
        <3>2. c = q
            BY <2>2 DEF Continued
        <3> HIDE DEF q
        <3> QED
            BY <3>1, <3>2
    <2> QED
        BY <2>1, <2>2
<1> HIDE DEF c
<1> DEFINE m == Append(c.delegates, [address |-> Top.address, calldata |-> Top.calldata])
<1>4. m \in Seq(Delegated)
    <2>1. c.delegates \in Seq(Delegated) /\ Top.address \in Accounts /\ Top.calldata \in Blobs
        BY <1>2, <1>3 DEF EngineRecord
    <2>2. [address |-> Top.address, calldata |-> Top.calldata] \in Delegated
        BY <2>1 DEF Delegated
    <2> QED
        BY <2>1, <2>2, AppendProperties
<1>5. CASE Top.kind = "DELEGATECALL"
    <2> DEFINE q == [c EXCEPT !.delegates = m]
    <2>1. d = q
        BY <1>5 DEF Recorded
    <2> HIDE DEF m
    <2>2. /\ q \in EngineRecord /\ q.delegates = m /\ q.kind = c.kind /\ q.address = c.address
          /\ q.storageAddress = c.storageAddress /\ q.caller = c.caller /\ q.cache = c.cache
        BY <1>3, <1>4, DelegatesSet, Zenon
    <2> HIDE DEF q, d
    <2>3. /\ d \in EngineRecord /\ d.delegates = m /\ d.kind = e.kind /\ d.address = e.address
          /\ d.storageAddress = e.storageAddress /\ d.caller = e.caller /\ d.cache = e.cache
        BY <1>3, <2>1, <2>2 DEF Stays
    <2>4. m = Append(e.delegates, [address |-> Top.address, calldata |-> Top.calldata])
        BY <1>3 DEF Stays, m
    <2> QED
        BY <1>1, <1>5, <2>3, <2>4 DEF e
<1>6. CASE Top.kind # "DELEGATECALL"
    <2>1. d = c
        BY <1>6 DEF Recorded
    <2> HIDE DEF d
    <2> QED
        BY <1>1, <1>3, <1>6, <2>1 DEF Stays, e
<1> QED
    BY <1>5, <1>6

----------------------------------------------------------------------------
(* The stack of engines *)

LEMMA RunsShape ==
    ASSUME TypesHold, NEW d, Runs(d)
    PROVE  /\ TypesHold' /\ Depth' = Depth
           /\ \A i \in 1..Depth : engines'[i] = IF i = Depth THEN d ELSE engines[i]
<1>1. /\ engines \in Seq(EngineRecord) /\ Depth \in 1..Len(engines) /\ d \in EngineRecord
      /\ engines' = [engines EXCEPT ![Depth] = d] /\ Depth = Len(engines)
    BY TopTyped DEF Runs, Becomes, TypesHold, Depth
<1>2. /\ engines' \in Seq(EngineRecord) /\ Len(engines') = Len(engines)
      /\ \A i \in 1..Len(engines) : engines'[i] = IF i = Depth THEN d ELSE engines[i]
    BY <1>1, ExceptSeq
<1>3. Depth' = Depth
    BY <1>1, <1>2 DEF Depth
<1> QED
    BY <1>1, <1>2, <1>3 DEF TypesHold, Runs

LEMMA CallShape ==
    ASSUME TypesHold, NEW d \in EngineRecord, NEW n \in EngineRecord,
           engines' = Append([engines EXCEPT ![Depth] = d], n), Depth < MaxDepth,
           UNCHANGED <<code, storage, outcome>>
    PROVE  /\ TypesHold' /\ Depth' = Depth + 1 /\ engines'[Depth + 1] = n
           /\ \A i \in 1..Depth : engines'[i] = IF i = Depth THEN d ELSE engines[i]
<1> DEFINE s == [engines EXCEPT ![Depth] = d]
<1>1. engines \in Seq(EngineRecord) /\ Depth \in 1..Len(engines) /\ Depth = Len(engines)
      /\ Depth \in Nat
    BY TopTyped DEF TypesHold, Depth
<1>2. /\ s \in Seq(EngineRecord) /\ Len(s) = Len(engines)
      /\ \A i \in 1..Len(engines) : s[i] = IF i = Depth THEN d ELSE engines[i]
    BY <1>1, ExceptSeq
<1>3. engines' = Append(s, n)
    OBVIOUS
<1> HIDE DEF s
<1>4. /\ engines' \in Seq(EngineRecord) /\ Len(engines') = Len(s) + 1
      /\ \A i \in 1..Len(s) : engines'[i] = s[i]
      /\ engines'[Len(s) + 1] = n
    <2>1. s \in Seq(EngineRecord)
        BY <1>2
    <2>2. /\ Append(s, n) \in Seq(EngineRecord) /\ Len(Append(s, n)) = Len(s) + 1
          /\ \A i \in 1..Len(s) : Append(s, n)[i] = s[i]
          /\ Append(s, n)[Len(s) + 1] = n
        BY <2>1, AppendProperties
    <2> QED
        BY <1>3, <2>2, Zenon
<1>5. Depth' = Depth + 1
    BY <1>1, <1>2, <1>4 DEF Depth
<1>6. \A i \in 1..Depth : engines'[i] = IF i = Depth THEN d ELSE engines[i]
    BY <1>1, <1>2, <1>4
<1>7. engines'[Depth + 1] = n
    BY <1>1, <1>2, <1>4
<1>8. Depth' \in 1..MaxDepth
    BY <1>1, <1>5, DepthAssumption
<1> QED
    BY <1>4, <1>5, <1>6, <1>7, <1>8 DEF TypesHold

LEMMA ReturnShape ==
    ASSUME TypesHold, NEW d \in EngineRecord, Depth > 1,
           engines' = [SubSeq(engines, 1, Depth - 1) EXCEPT ![Depth - 1] = d],
           UNCHANGED <<code, storage, outcome>>
    PROVE  /\ TypesHold' /\ Depth' = Depth - 1
           /\ \A i \in 1..(Depth - 1) : engines'[i] = IF i = Depth - 1 THEN d ELSE engines[i]
<1> DEFINE s == SubSeq(engines, 1, Depth - 1)
<1>1. engines \in Seq(EngineRecord) /\ Depth \in Nat /\ Depth - 1 \in Int /\ 1 \in Int
      /\ \A i \in 1..(Depth - 1) : engines[i] \in EngineRecord
    BY TopTyped DEF TypesHold
<1>2. /\ s \in Seq(EngineRecord) /\ Len(s) = Depth - 1
      /\ \A i \in 1..(Depth - 1) : s[i] = engines[i]
    <2>1. /\ s \in Seq(EngineRecord)
          /\ Len(s) = IF 1 <= Depth - 1 THEN (Depth - 1) - 1 + 1 ELSE 0
          /\ \A i \in 1..((Depth - 1) - 1 + 1) : s[i] = engines[1 + i - 1]
        BY <1>1, SubSeqProperties
    <2> QED
        BY <1>1, <2>1
<1>3. engines' = [s EXCEPT ![Depth - 1] = d] /\ Depth - 1 \in 1..Len(s)
    BY <1>1, <1>2
<1> HIDE DEF s
<1>4. /\ engines' \in Seq(EngineRecord) /\ Len(engines') = Len(s)
      /\ \A i \in 1..Len(s) : engines'[i] = IF i = Depth - 1 THEN d ELSE s[i]
    <2> DEFINE k == Depth - 1
    <2>1. s \in Seq(EngineRecord) /\ k \in 1..Len(s) /\ engines' = [s EXCEPT ![k] = d]
        BY <1>2, <1>3
    <2> HIDE DEF k
    <2>2. /\ engines' \in Seq(EngineRecord) /\ Len(engines') = Len(s)
          /\ \A i \in 1..Len(s) : engines'[i] = IF i = k THEN d ELSE s[i]
        <3>1. /\ [s EXCEPT ![k] = d] \in Seq(EngineRecord) /\ Len([s EXCEPT ![k] = d]) = Len(s)
              /\ \A i \in 1..Len(s) : [s EXCEPT ![k] = d][i] = IF i = k THEN d ELSE s[i]
            <4>1. \A q \in Seq(EngineRecord) : \A x \in 1..Len(q) : \A y \in EngineRecord :
                    /\ [q EXCEPT ![x] = y] \in Seq(EngineRecord) /\ Len([q EXCEPT ![x] = y]) = Len(q)
                    /\ \A i \in 1..Len(q) : [q EXCEPT ![x] = y][i] = IF i = x THEN y ELSE q[i]
                BY ExceptSeq
            <4> QED
                BY <2>1, <4>1
        <3> QED
            BY <2>1, <3>1, Zenon
    <2> QED
        BY <2>2 DEF k
<1>5. Depth' = Depth - 1
    BY <1>2, <1>4 DEF Depth
<1>6. Depth' \in 1..MaxDepth
    BY <1>1, <1>5, DepthAssumption DEF TypesHold
<1>7. \A i \in 1..(Depth - 1) : engines'[i] = IF i = Depth - 1 THEN d ELSE engines[i]
    BY <1>2, <1>4
<1> QED
    BY <1>4, <1>5, <1>6, <1>7 DEF TypesHold

\* A step that leaves the engines alone.
Idle ==
    /\ engines' = engines /\ code' = code /\ seen' = seen
    /\ \/ outcome' = outcome
       \/ outcome = "running" /\ outcome' \in {"raised", "silent"}
       \/ outcome = "running" /\ outcome' = "halted" /\ Depth = 1
    /\ storage' \in [Accounts -> [Slots -> Words]]

LEMMA IdleSteps ==
    TypesHold /\ (Finish \/ Raise \/ Unanswered \/ StorageChanges \/ UNCHANGED vars) => Idle
<1> SUFFICES ASSUME TypesHold,
                    Finish \/ Raise \/ Unanswered \/ StorageChanges \/ UNCHANGED vars
             PROVE  Idle
    OBVIOUS
<1>1. CASE Finish \/ Raise \/ Unanswered \/ UNCHANGED vars
    BY <1>1 DEF Finish, Raise, Unanswered, vars, Idle, TypesHold
<1>2. CASE StorageChanges
    <2>1. storage' \in [Accounts -> [Slots -> Words]]
        BY <1>2 DEF StorageChanges, TypesHold, Accounts
    <2> QED
        BY <1>2, <2>1 DEF StorageChanges, Idle
<1> QED
    BY <1>1, <1>2

LEMMA IdleShape ==
    ASSUME TypesHold, Idle
    PROVE  TypesHold' /\ Depth' = Depth
BY DEF Idle, TypesHold, Depth

\* What a step may be.
LEMMA Steps ==
    ASSUME TypesHold, [Next]_vars
    PROVE  Plain \/ Load \/ Save \/ Call \/ Return \/ Idle
BY PushPlain, CopyPlain, MemoryPlain, JumpPlain, HaltPlain, IdleSteps DEF Next, Step

LEMMA InitTypes == Init => TypesHold
<1> SUFFICES ASSUME Init
             PROVE  TypesHold
    OBVIOUS
<1> DEFINE e == Engine("transaction", Self, Self, Outside, Input)
<1>1. e \in EngineRecord
    <2>1. [s \in {} |-> Zero] \in [{} -> Words] /\ {} \in SUBSET Slots
        OBVIOUS
    <2>2. [s \in {} |-> Zero] \in Caches
        BY <2>1 DEF Caches
    <2>3. /\ "none" \in Opcodes /\ Nothing \in Blobs /\ Input \in Blobs /\ "transaction" \in Kinds
          /\ Self \in Accounts /\ Outside \in Callers
        BY DEF Opcodes, Blobs, Kinds, Accounts, Callers
    <2>4. <<>> \in Seq(Words) /\ <<>> \in Seq(Delegated) /\ 1 \in Nat
        BY EmptySeq
    <2> QED
        BY <2>2, <2>3, <2>4 DEF Engine, EngineRecord
<1> HIDE DEF e
<1>2. <<e>> \in Seq(EngineRecord) /\ Len(<<e>>) = 1
    BY <1>1
<1>3. engines = <<e>>
    BY DEF Init, e
<1>4. Depth = 1
    BY <1>2, <1>3 DEF Depth
<1>5. code \in Worlds /\ storage \in [Accounts -> [Slots -> Words]] /\ outcome = "running"
    BY StorageAssumption DEF Init
<1> QED
    BY <1>2, <1>3, <1>4, <1>5, DepthAssumption DEF TypesHold

LEMMA NextKeepsTypes ==
    ASSUME TypesHold, [Next]_vars
    PROVE  TypesHold'
<1>1. CASE Plain
    BY <1>1, RunsShape DEF Plain
<1>2. CASE Load
    BY <1>2, LoadRuns, RunsShape
<1>3. CASE Save
    BY <1>3, SaveRuns, RunsShape
<1>4. CASE Call
    BY <1>4, CallStarts, CallShape
<1>5. CASE Return
    BY <1>5, ReturnResumes, ReturnShape
<1>6. CASE Idle
    BY <1>6, IdleShape
<1> QED
    BY <1>1, <1>2, <1>3, <1>4, <1>5, <1>6, Steps

\* emulator.py: the words, the memories and the storage caches of the engines
\* are of their types, and the engines fit into the interpreter's stack.
THEOREM TypeCorrect == Spec => []TypeOK
<1>1. TypesHold => TypeOK
    <2> SUFFICES ASSUME TypesHold
                 PROVE  TypeOK
        OBVIOUS
    <2>1. ASSUME NEW i \in 1..Depth
          PROVE  /\ engines[i].address \in Accounts
                 /\ engines[i].stack \in Seq(Words)
                 /\ {engines[i].memory, engines[i].buffer, engines[i].calldata} \subseteq Blobs
                 /\ engines[i].pc \in Nat
                 /\ \A s \in DOMAIN engines[i].cache : s \in Slots /\ engines[i].cache[s] \in Words
        <3>1. engines[i] \in EngineRecord
            BY TopTyped
        <3>2. engines[i].cache \in Caches
            BY <3>1 DEF EngineRecord
        <3>3. \A s \in DOMAIN engines[i].cache : s \in Slots /\ engines[i].cache[s] \in Words
            BY <3>2 DEF Caches
        <3> QED
            BY <3>1, <3>3 DEF EngineRecord
    <2> QED
        BY <2>1 DEF TypesHold, TypeOK
<1> QED
    BY <1>1, InitTypes, NextKeepsTypes, PTL DEF Spec

----------------------------------------------------------------------------
(* The context of a call *)

Borrowing == {"DELEGATECALL", "CALLCODE"}

\* Engine k is the last up to i whose contract was called other than for its code.
Owner(i, k) ==
    /\ k \in 1..i /\ engines[k].kind \notin Borrowing
    /\ \A j \in 1..i : j > k => engines[j].kind \in Borrowing

OwnersStorage ==
    \A i \in 1..Depth :
        \E k \in 1..i : Owner(i, k) /\ engines[i].storageAddress = engines[k].address

\* The calls whose caller the emulator knows.
Followed(i) ==
    /\ \A k \in 1..i : engines[k].kind # "STATICCALL"
    /\ \A k \in 2..(i - 1) :
            engines[k].kind \in {"DELEGATECALL", "CALLCODE"} => engines[k + 1].kind = "DELEGATECALL"

\* Engine l is the last up to i that no delegatecall started.
Called(i, l) ==
    /\ l \in 1..i /\ engines[l].kind # "DELEGATECALL"
    /\ \A j \in 1..i : j > l => engines[j].kind = "DELEGATECALL"

CallersKnown ==
    \A i \in 1..Depth : Followed(i) =>
        \E l \in 1..i : Called(i, l) /\
            engines[i].caller = IF l = 1 THEN Outside ELSE engines[l - 1].storageAddress

ContextInvariant ==
    /\ engines[1].kind = "transaction" /\ engines[1].storageAddress = engines[1].address
    /\ OwnersStorage /\ CallersKnown

\* The contexts of the engines up to n stay.
ContextStays(n) ==
    \A i \in 1..n :
        /\ engines'[i].kind = engines[i].kind /\ engines'[i].address = engines[i].address
        /\ engines'[i].storageAddress = engines[i].storageAddress
        /\ engines'[i].caller = engines[i].caller

LEMMA ContextKept ==
    ASSUME TypesHold, ContextInvariant, NEW n \in 1..Depth, ContextStays(n)
    PROVE  /\ engines'[1].kind = "transaction" /\ engines'[1].storageAddress = engines'[1].address
           /\ \A i \in 1..n :
                \E k \in 1..i : Owner(i, k)' /\ engines'[i].storageAddress = engines'[k].address
           /\ \A i \in 1..n : Followed(i)' =>
                \E l \in 1..i : Called(i, l)' /\
                    engines'[i].caller = IF l = 1 THEN Outside ELSE engines'[l - 1].storageAddress
<1>1. Depth \in Nat /\ n \in Nat /\ n >= 1 /\ n <= Depth
    BY TopTyped
<1>2. engines'[1].kind = "transaction" /\ engines'[1].storageAddress = engines'[1].address
    BY <1>1 DEF ContextStays, ContextInvariant
<1>3. ASSUME NEW i \in 1..n
      PROVE  \E k \in 1..i : Owner(i, k)' /\ engines'[i].storageAddress = engines'[k].address
    <2>1. i \in 1..Depth /\ \A j \in 1..i : j \in 1..n
        BY <1>1
    <2>2. PICK k \in 1..i : Owner(i, k) /\ engines[i].storageAddress = engines[k].address
        BY <2>1 DEF ContextInvariant, OwnersStorage
    <2>3. Owner(i, k)'
        BY <2>1, <2>2 DEF Owner, ContextStays
    <2> QED
        BY <2>1, <2>2, <2>3 DEF ContextStays
<1>4. ASSUME NEW i \in 1..n, Followed(i)'
      PROVE  \E l \in 1..i : Called(i, l)' /\
                engines'[i].caller = IF l = 1 THEN Outside ELSE engines'[l - 1].storageAddress
    <2>1. i \in 1..Depth /\ \A j \in 1..i : j \in 1..n
        BY <1>1
    <2>2. Followed(i)
        <3>1. \A k \in 2..(i - 1) : k \in 1..i /\ k + 1 \in 1..i
            OBVIOUS
        <3> QED
            BY <1>4, <2>1, <3>1 DEF Followed, ContextStays
    <2>3. PICK l \in 1..i : Called(i, l) /\
                engines[i].caller = IF l = 1 THEN Outside ELSE engines[l - 1].storageAddress
        BY <2>1, <2>2 DEF ContextInvariant, CallersKnown
    <2>4. Called(i, l)'
        BY <2>1, <2>3 DEF Called, ContextStays
    <2>5. l = 1 \/ l - 1 \in 1..i
        OBVIOUS
    <2>6. engines'[i].caller = IF l = 1 THEN Outside ELSE engines'[l - 1].storageAddress
        BY <2>1, <2>3, <2>5 DEF ContextStays
    <2> QED
        BY <2>4, <2>6
<1> QED
    BY <1>2, <1>3, <1>4

LEMMA ShallowerKeepsContext ==
    ASSUME TypesHold, ContextInvariant, Depth' \in 1..Depth, ContextStays(Depth')
    PROVE  ContextInvariant'
<1> DEFINE n == Depth'
<1>1. n \in 1..Depth /\ ContextStays(n)
    OBVIOUS
<1> HIDE DEF n
<1>2. /\ engines'[1].kind = "transaction" /\ engines'[1].storageAddress = engines'[1].address
      /\ \A i \in 1..n :
            \E k \in 1..i : Owner(i, k)' /\ engines'[i].storageAddress = engines'[k].address
      /\ \A i \in 1..n : Followed(i)' =>
            \E l \in 1..i : Called(i, l)' /\
                engines'[i].caller = IF l = 1 THEN Outside ELSE engines'[l - 1].storageAddress
    BY <1>1, ContextKept
<1> QED
    BY <1>2 DEF n, ContextInvariant, OwnersStorage, CallersKnown

LEMMA CallKeepsContext ==
    ASSUME TypesHold, ContextInvariant, Call
    PROVE  ContextInvariant'
<1>1. PICK d, e \in EngineRecord :
                /\ Stays(Top, d)
                /\ e.kind \in CallOps /\ e.storageAddress = StorageFor(e.kind, e.address)
                /\ e.caller = CallerFor(e.kind)
                /\ engines' = Append([engines EXCEPT ![Depth] = d], e)
                /\ Depth < MaxDepth
                /\ UNCHANGED <<code, storage, outcome>>
    BY CallStarts
<1>2. /\ Depth' = Depth + 1 /\ engines'[Depth + 1] = e
      /\ \A i \in 1..Depth : engines'[i] = IF i = Depth THEN d ELSE engines[i]
    BY <1>1, CallShape
<1>3. Depth \in Nat \ {0} /\ Depth \in 1..Depth /\ Top = engines[Depth]
    BY TopTyped DEF Top
<1>4. ContextStays(Depth)
    BY <1>1, <1>2, <1>3 DEF ContextStays, Stays
<1>5. /\ engines'[1].kind = "transaction" /\ engines'[1].storageAddress = engines'[1].address
      /\ \A i \in 1..Depth :
            \E k \in 1..i : Owner(i, k)' /\ engines'[i].storageAddress = engines'[k].address
      /\ \A i \in 1..Depth : Followed(i)' =>
            \E l \in 1..i : Called(i, l)' /\
                engines'[i].caller = IF l = 1 THEN Outside ELSE engines'[l - 1].storageAddress
    BY <1>3, <1>4, ContextKept
<1>6. PICK n \in Nat \ {0} : n = Depth
    BY <1>3
<1>7. PICK m \in Nat : m = n + 1
    OBVIOUS
<1>8. /\ m \in 1..m /\ 1..m = (1..n) \cup {m} /\ m # 1 /\ m - 1 = n /\ n \in 1..n /\ n \in 1..m
      /\ \A i \in 1..n : m > i /\ i \in 1..m
    BY <1>6, <1>7
<1>9. /\ engines'[m] = e /\ Depth' = m
      /\ engines'[n].storageAddress = Top.storageAddress /\ engines'[n].address = Top.address
      /\ engines'[n].caller = Top.caller
    BY <1>2, <1>3, <1>4, <1>6, <1>7 DEF ContextStays
<1>10. \E k \in 1..m : Owner(m, k)' /\ engines'[m].storageAddress = engines'[k].address
    <2>1. CASE e.kind \in {"CALL", "STATICCALL"}
        <3>1. Owner(m, m)'
            BY <1>8, <1>9, <2>1 DEF Owner, Borrowing
        <3> QED
            BY <1>1, <1>8, <1>9, <2>1, <3>1 DEF StorageFor
    <2>2. CASE e.kind \in Borrowing
        <3>1. PICK k \in 1..n : Owner(n, k)' /\ engines'[n].storageAddress = engines'[k].address
            BY <1>5, <1>6, <1>8
        <3>2. Owner(m, k)'
            BY <1>8, <1>9, <2>2, <3>1 DEF Owner
        <3>3. engines'[m].storageAddress = engines'[n].storageAddress
            BY <1>1, <1>9, <2>2 DEF StorageFor, Borrowing
        <3> QED
            BY <1>8, <3>1, <3>2, <3>3
    <2> QED
        BY <1>1, <2>1, <2>2 DEF CallOps, Borrowing
<1>11. ASSUME Followed(m)'
       PROVE  \E l \in 1..m : Called(m, l)' /\
                engines'[m].caller = IF l = 1 THEN Outside ELSE engines'[l - 1].storageAddress
    <2>1. Followed(n)'
        <3>1. \A k \in 2..(n - 1) : k \in 2..(m - 1)
            BY <1>7
        <3> QED
            BY <1>8, <1>11, <3>1 DEF Followed
    <2>2. CASE e.kind = "DELEGATECALL"
        <3>1. PICK l \in 1..n : Called(n, l)' /\
                engines'[n].caller = IF l = 1 THEN Outside ELSE engines'[l - 1].storageAddress
            BY <1>5, <1>6, <1>8, <2>1
        <3>2. Called(m, l)'
            BY <1>8, <1>9, <2>2, <3>1 DEF Called
        <3>3. engines'[m].caller = engines'[n].caller
            BY <1>1, <1>9, <2>2 DEF CallerFor
        <3> QED
            BY <1>8, <3>1, <3>2, <3>3
    <2>3. CASE e.kind \in {"CALL", "CALLCODE"}
        <3>1. engines'[n].kind \notin Borrowing
            <4>1. n = 1 \/ n \in 2..(m - 1)
                BY <1>7
            <4>2. CASE n = 1
                BY <1>5, <4>2 DEF Borrowing
            <4>3. CASE n \in 2..(m - 1)
                <5>1. engines'[n].kind \in {"DELEGATECALL", "CALLCODE"}
                        => engines'[n + 1].kind = "DELEGATECALL"
                    BY <1>11, <4>3 DEF Followed
                <5> QED
                    BY <1>7, <1>9, <2>3, <5>1 DEF Borrowing
            <4> QED
                BY <4>1, <4>2, <4>3
        <3>2. engines'[n].storageAddress = engines'[n].address
            <4>1. PICK k \in 1..n : Owner(n, k)' /\ engines'[n].storageAddress = engines'[k].address
                BY <1>5, <1>6, <1>8
            <4>2. k = n
                BY <1>8, <3>1, <4>1 DEF Owner
            <4> QED
                BY <4>1, <4>2
        <3>3. Called(m, m)'
            BY <1>8, <1>9, <2>3 DEF Called
        <3>4. engines'[m].caller = engines'[m - 1].storageAddress
            BY <1>1, <1>8, <1>9, <2>3, <3>2 DEF CallerFor
        <3> QED
            BY <1>8, <3>3, <3>4
    <2>4. e.kind # "STATICCALL"
        BY <1>8, <1>9, <1>11 DEF Followed
    <2> QED
        BY <1>1, <2>2, <2>3, <2>4 DEF CallOps
<1>12. \A i \in 1..m :
            \E k \in 1..i : Owner(i, k)' /\ engines'[i].storageAddress = engines'[k].address
    BY <1>5, <1>6, <1>8, <1>10
<1>13. \A i \in 1..m : Followed(i)' =>
            \E l \in 1..i : Called(i, l)' /\
                engines'[i].caller = IF l = 1 THEN Outside ELSE engines'[l - 1].storageAddress
    BY <1>5, <1>6, <1>8, <1>11
<1> QED
    BY <1>5, <1>9, <1>12, <1>13 DEF ContextInvariant, OwnersStorage, CallersKnown

LEMMA InitContext == Init => ContextInvariant
<1> SUFFICES ASSUME Init
             PROVE  ContextInvariant
    OBVIOUS
<1> DEFINE e == Engine("transaction", Self, Self, Outside, Input)
<1>1. /\ e.kind = "transaction" /\ e.address = Self /\ e.storageAddress = Self
      /\ e.caller = Outside
    BY DEF Engine
<1> HIDE DEF e
<1>2. engines = <<e>> /\ engines[1] = e /\ Depth = 1
    BY DEF Init, e, Depth
<1>3. "transaction" \notin Borrowing
    BY DEF Borrowing
<1>4. Owner(1, 1) /\ Called(1, 1) /\ 1..1 = {1}
    BY <1>1, <1>2, <1>3 DEF Owner, Called
<1> QED
    BY <1>1, <1>2, <1>4 DEF ContextInvariant, OwnersStorage, CallersKnown

LEMMA NextKeepsContext ==
    ASSUME TypesHold, ContextInvariant, [Next]_vars
    PROVE  ContextInvariant'
<1>1. Depth \in Nat \ {0} /\ Top = engines[Depth]
    BY TopTyped DEF Top
<1>2. ASSUME NEW d, Runs(d)
      PROVE  ContextInvariant'
    <2>1. /\ Depth' = Depth
          /\ \A i \in 1..Depth : engines'[i] = IF i = Depth THEN d ELSE engines[i]
        BY <1>2, RunsShape
    <2>2. ContextStays(Depth')
        BY <1>1, <1>2, <2>1 DEF ContextStays, Runs, Stays
    <2> QED
        BY <1>1, <2>1, <2>2, ShallowerKeepsContext
<1>3. CASE Plain \/ Load \/ Save
    BY <1>2, <1>3, LoadRuns, SaveRuns DEF Plain
<1>4. CASE Call
    BY <1>4, CallKeepsContext
<1>5. CASE Return
    <2>1. PICK d \in EngineRecord :
                /\ engines' = [SubSeq(engines, 1, Depth - 1) EXCEPT ![Depth - 1] = d]
                /\ d.kind = engines[Depth - 1].kind /\ d.address = engines[Depth - 1].address
                /\ d.storageAddress = engines[Depth - 1].storageAddress
                /\ d.caller = engines[Depth - 1].caller
        BY <1>5, ReturnResumes
    <2>2. /\ Depth > 1 /\ Depth' = Depth - 1
          /\ \A i \in 1..(Depth - 1) : engines'[i] = IF i = Depth - 1 THEN d ELSE engines[i]
        BY <1>5, <2>1, ReturnResumes, ReturnShape
    <2>3. ContextStays(Depth')
        BY <1>1, <2>1, <2>2 DEF ContextStays
    <2>4. Depth' \in 1..Depth
        BY <1>1, <2>2
    <2> QED
        BY <2>3, <2>4, ShallowerKeepsContext
<1>6. CASE Idle
    <2>1. Depth' = Depth /\ engines' = engines
        BY <1>6, IdleShape DEF Idle
    <2>2. ContextStays(Depth')
        BY <2>1 DEF ContextStays
    <2> QED
        BY <1>1, <2>1, <2>2, ShallowerKeepsContext
<1> QED
    BY <1>3, <1>4, <1>5, <1>6, Steps

LEMMA OwnerExecutes ==
    ASSUME NEW i \in Nat, NEW k \in 1..i, Owner(i, k)
    PROVE  Executing(i) = engines[k].address
<1> DEFINE own == {j \in 1..i : engines[j].kind \notin {"DELEGATECALL", "CALLCODE"}}
           c == CHOOSE j \in own : \A h \in own : h <= j
<1>1. k \in own /\ \A j \in own : j <= k
    BY DEF Owner, Borrowing
<1>2. c \in own /\ \A j \in own : j <= c
    BY <1>1
<1>3. c = k
    BY <1>1, <1>2
<1> HIDE DEF own
<1>4. Executing(i) = engines[c].address
    BY DEF Executing, own
<1> QED
    BY <1>3, <1>4

\* emulator.py, Handler.call: however calls are nested, an engine loads from the
\* storage of the account that the EVM would execute, and its caller is the
\* EVM's where CallerIsCaller says so.
THEOREM ContextCorrect == Spec => []ContextIsEvms
<1>1. TypesHold /\ ContextInvariant => ContextIsEvms
    <2> SUFFICES ASSUME TypesHold, ContextInvariant
                 PROVE  ContextIsEvms
        OBVIOUS
    <2>1. Depth \in Nat
        BY TopTyped
    <2>2. StorageOfExecuting
        <3>1. ASSUME NEW i \in 1..Depth
              PROVE  engines[i].storageAddress = Executing(i)
            <4>1. PICK k \in 1..i : Owner(i, k) /\ engines[i].storageAddress = engines[k].address
                BY DEF ContextInvariant, OwnersStorage
            <4> QED
                BY <2>1, <4>1, OwnerExecutes
        <3> QED
            BY <3>1 DEF StorageOfExecuting
    <2>3. ASSUME NEW i \in 1..Depth, Followed(i)
          PROVE  engines[i].caller = EvmCaller(i)
        <3> DEFINE plain == {k \in 1..i : engines[k].kind # "DELEGATECALL"}
                   last == CHOOSE k \in plain : \A j \in plain : j <= k
        <3>1. PICK l \in 1..i : Called(i, l) /\
                    engines[i].caller = IF l = 1 THEN Outside ELSE engines[l - 1].storageAddress
            BY <2>3 DEF ContextInvariant, CallersKnown
        <3>2. l \in plain /\ \A j \in plain : j <= l
            BY <2>1, <3>1 DEF Called
        <3>3. last \in plain /\ \A j \in plain : j <= last
            BY <3>2
        <3>4. last = l
            BY <2>1, <3>2, <3>3
        <3>5. l # 1 => engines[l - 1].storageAddress = Executing(l - 1)
            BY <2>1, <2>2 DEF StorageOfExecuting
        <3> HIDE DEF plain
        <3>6. EvmCaller(i) = IF last = 1 THEN Outside ELSE Executing(last - 1)
            BY DEF EvmCaller, plain
        <3> HIDE DEF last
        <3> QED
            BY <3>1, <3>4, <3>5, <3>6
    <2>4. CallerIsCaller
        BY <2>3, Zenon DEF CallerIsCaller, Followed
    <2> QED
        BY <2>2, <2>4 DEF ContextIsEvms
<1>2. TypesHold /\ ContextInvariant /\ [Next]_vars => TypesHold' /\ ContextInvariant'
    BY NextKeepsTypes, NextKeepsContext
<1> QED
    BY <1>1, <1>2, InitTypes, InitContext, PTL DEF Spec

----------------------------------------------------------------------------
(* What the first engine records *)

SeenRecord == [loaded : SUBSET Words, written : Caches, called : Seq(Accounts)]

\* The first engine waits for a contract it has delegated to.
Pending == Depth > 1 /\ engines[2].kind = "DELEGATECALL"

\* Its list has every delegatecall it has made but the one it waits for.
ListedButPending ==
    LET made == engines[1].delegates
    IN  /\ Len(seen.called) = Len(made) + (IF Pending THEN 1 ELSE 0)
        /\ \A i \in 1..Len(made) : made[i].address = seen.called[i]
        /\ Pending => seen.called[Len(made) + 1] = engines[2].address

\* Its cache has what was loaded, as long as nothing was written, and what was
\* written.
Remembered(word) == \E s \in DOMAIN engines[1].cache : engines[1].cache[s] = word

LoadsRemembered ==
    DOMAIN seen.written = {} => \A word \in seen.loaded \ {Zero} : Remembered(word)

SavesRemembered ==
    \A s \in DOMAIN seen.written : seen.written[s] # Zero =>
        s \in DOMAIN engines[1].cache /\ engines[1].cache[s] = seen.written[s]

RecordInvariant ==
    /\ seen \in SeenRecord
    /\ outcome = "halted" => Depth = 1
    /\ ListedButPending /\ LoadsRemembered /\ SavesRemembered

LEMMA InitRecord == Init => RecordInvariant
<1> SUFFICES ASSUME Init
             PROVE  RecordInvariant
    OBVIOUS
<1> DEFINE e == Engine("transaction", Self, Self, Outside, Input)
<1>1. e.delegates = <<>>
    BY DEF Engine
<1> HIDE DEF e
<1>2. engines = <<e>> /\ engines[1] = e /\ Depth = 1 /\ outcome = "running"
    BY DEF Init, e, Depth
<1>3. /\ seen.loaded = {} /\ DOMAIN seen.written = {} /\ seen.called = <<>>
      /\ seen = [loaded |-> {}, written |-> [s \in {} |-> Zero], called |-> <<>>]
    BY DEF Init
<1>4. [s \in {} |-> Zero] \in Caches
    <2>1. [s \in {} |-> Zero] \in [{} -> Words] /\ {} \in SUBSET Slots
        OBVIOUS
    <2> QED
        BY <2>1 DEF Caches
<1>5. seen \in SeenRecord
    BY <1>3, <1>4, EmptySeq DEF SeenRecord
<1>6. Len(seen.called) = 0 /\ Len(engines[1].delegates) = 0
    BY <1>1, <1>2, <1>3
<1>7. ListedButPending
    BY <1>2, <1>6 DEF ListedButPending, Pending
<1> QED
    BY <1>2, <1>3, <1>5, <1>7 DEF RecordInvariant, LoadsRemembered, SavesRemembered

\* The list when the first two engines stay what they are.
LEMMA ListKept ==
    ASSUME TypesHold, RecordInvariant, seen'.called = seen.called,
           engines'[1].delegates = engines[1].delegates, Pending' <=> Pending,
           Pending => engines'[2].address = engines[2].address
    PROVE  ListedButPending'
BY Zenon DEF RecordInvariant, ListedButPending

\* What is remembered when the storage is left alone.
LEMMA CacheKept ==
    ASSUME RecordInvariant, engines'[1].cache = engines[1].cache,
           seen'.loaded = seen.loaded, seen'.written = seen.written
    PROVE  LoadsRemembered' /\ SavesRemembered'
BY DEF RecordInvariant, LoadsRemembered, SavesRemembered, Remembered

\* An instruction keeps the list, and in a callee all of the record.
LEMMA RunsKeepList ==
    ASSUME TypesHold, RecordInvariant, NEW d, Runs(d), seen'.called = seen.called
    PROVE  ListedButPending' /\ (outcome' = "halted" => Depth' = 1)
<1>1. /\ Depth \in Nat \ {0} /\ Top = engines[Depth] /\ Depth' = Depth
      /\ \A i \in 1..Depth : engines'[i] = IF i = Depth THEN d ELSE engines[i]
    BY TopTyped, RunsShape DEF Top
<1>2. Stays(Top, d) /\ outcome' = outcome
    BY DEF Runs
<1>3. engines'[1].delegates = engines[1].delegates
    BY <1>1, <1>2 DEF Stays
<1>4. Depth > 1 => engines'[2].kind = engines[2].kind /\ engines'[2].address = engines[2].address
    BY <1>1, <1>2 DEF Stays
<1>5. (Pending' <=> Pending) /\ (Pending => engines'[2].address = engines[2].address)
    BY <1>1, <1>4 DEF Pending
<1> QED
    BY <1>1, <1>2, <1>3, <1>5, ListKept DEF RecordInvariant

LEMMA PlainKeepsRecord ==
    ASSUME TypesHold, RecordInvariant, Plain
    PROVE  RecordInvariant'
<1>1. PICK d : Runs(d) /\ d.cache = Top.cache /\ seen' = seen
    BY DEF Plain
<1>2. engines'[1].cache = engines[1].cache
    BY <1>1, TopTyped, RunsShape DEF Top
<1>3. LoadsRemembered' /\ SavesRemembered'
    BY <1>1, <1>2, CacheKept
<1>4. ListedButPending' /\ (outcome' = "halted" => Depth' = 1)
    BY <1>1, RunsKeepList
<1> QED
    BY <1>1, <1>3, <1>4 DEF RecordInvariant

\* Only a word that is not in the cache, or is there as 0, is replaced by a load.
LEMMA LoadKeepsRecord ==
    ASSUME TypesHold, RecordInvariant, Load
    PROVE  RecordInvariant'
<1> DEFINE slot == Instr.slot
           word == Loaded(slot)
           old == engines[1].cache
<1>1. PICK d : /\ Runs(d) /\ slot \in Slots /\ word \in Words
               /\ d.cache = [s \in (DOMAIN Top.cache) \cup {slot} |->
                                IF s = slot THEN word ELSE Top.cache[s]]
               /\ seen' = IF Depth = 1 THEN [seen EXCEPT !.loaded = @ \cup {word}] ELSE seen
    BY LoadRuns, Zenon
<1>2. seen \in SeenRecord
    BY DEF RecordInvariant
<1>3. /\ Depth \in Nat \ {0} /\ Top = engines[Depth]
      /\ \A i \in 1..Depth : engines'[i] = IF i = Depth THEN d ELSE engines[i]
    BY <1>1, TopTyped, RunsShape DEF Top
<1>4. CASE Depth # 1
    <2>1. seen' = seen /\ engines'[1].cache = engines[1].cache
        BY <1>1, <1>3, <1>4
    <2> QED
        BY <1>1, <1>2, <2>1, CacheKept, RunsKeepList DEF RecordInvariant
<1>5. CASE Depth = 1
    <2>1. InCache(slot) => word = Top.cache[slot]
        BY DEF Loaded
    <2>2. slot \in DOMAIN Top.cache => (Top.cache[slot] = Zero \/ word = Top.cache[slot])
        BY <2>1 DEF InCache
    <2>3. Top.cache = old /\ engines'[1].cache = d.cache
        BY <1>3, <1>5
    <2> HIDE DEF old, slot, word
    <2>4. /\ seen' \in SeenRecord /\ seen'.loaded = seen.loaded \cup {word}
          /\ seen'.written = seen.written /\ seen'.called = seen.called
        BY <1>1, <1>2, <1>5 DEF SeenRecord
    <2>5. \A s \in DOMAIN old : old[s] # Zero =>
                s \in DOMAIN engines'[1].cache /\ engines'[1].cache[s] = old[s]
        BY <1>1, <2>2, <2>3
    <2>6. slot \in DOMAIN engines'[1].cache /\ engines'[1].cache[slot] = word
        BY <1>1, <2>3
    <2>7. LoadsRemembered'
        <3>1. ASSUME DOMAIN seen.written = {}, NEW w \in seen.loaded \ {Zero}
              PROVE  \E s \in DOMAIN engines'[1].cache : engines'[1].cache[s] = w
            <4>1. PICK s \in DOMAIN old : old[s] = w
                BY <3>1 DEF RecordInvariant, LoadsRemembered, Remembered, old
            <4> QED
                BY <2>5, <4>1
        <3> QED
            BY <2>4, <2>6, <3>1 DEF LoadsRemembered, Remembered
    <2>8. SavesRemembered'
        <3>1. \A s \in DOMAIN seen.written : seen.written[s] # Zero =>
                    s \in DOMAIN old /\ old[s] = seen.written[s]
            BY DEF RecordInvariant, SavesRemembered, old
        <3> QED
            BY <2>4, <2>5, <3>1 DEF SavesRemembered
    <2> QED
        BY <1>1, <2>4, <2>7, <2>8, RunsKeepList DEF RecordInvariant
<1> QED
    BY <1>4, <1>5

LEMMA SaveKeepsRecord ==
    ASSUME TypesHold, RecordInvariant, Save
    PROVE  RecordInvariant'
<1> DEFINE slot == Instr.slot
           word == Head(Top.stack)
           old == engines[1].cache
           saved == [s \in (DOMAIN seen.written) \cup {slot} |->
                        IF s = slot THEN word ELSE seen.written[s]]
<1>1. PICK d : /\ Runs(d) /\ slot \in Slots /\ word \in Words
               /\ d.cache = [s \in (DOMAIN Top.cache) \cup {slot} |->
                                IF s = slot THEN word ELSE Top.cache[s]]
               /\ seen' = IF Depth = 1 THEN [seen EXCEPT !.written = saved] ELSE seen
    BY SaveRuns, Zenon
<1>2. seen \in SeenRecord
    BY DEF RecordInvariant
<1>3. /\ Depth \in Nat \ {0} /\ Top = engines[Depth]
      /\ \A i \in 1..Depth : engines'[i] = IF i = Depth THEN d ELSE engines[i]
    BY <1>1, TopTyped, RunsShape DEF Top
<1>4. CASE Depth # 1
    <2>1. seen' = seen /\ engines'[1].cache = engines[1].cache
        BY <1>1, <1>3, <1>4
    <2> QED
        BY <1>1, <1>2, <2>1, CacheKept, RunsKeepList DEF RecordInvariant
<1>5. CASE Depth = 1
    <2>1. Top.cache = old /\ engines'[1].cache = d.cache
        BY <1>3, <1>5
    <2>2. saved \in Caches
        <3>1. PICK S \in SUBSET Slots : seen.written \in [S -> Words]
            BY <1>2 DEF SeenRecord, Caches
        <3>2. saved \in [S \cup {slot} -> Words] /\ S \cup {slot} \in SUBSET Slots
            BY <1>1, <3>1
        <3> QED
            BY <3>2 DEF Caches
    <2>3. /\ slot \in DOMAIN saved /\ saved[slot] = word
          /\ \A s \in DOMAIN saved : s # slot =>
                s \in DOMAIN seen.written /\ saved[s] = seen.written[s]
        OBVIOUS
    <2> HIDE DEF saved, old, slot, word
    <2>4. /\ seen' \in SeenRecord /\ seen'.written = saved /\ seen'.called = seen.called
        BY <1>1, <1>2, <1>5, <2>2 DEF SeenRecord
    <2>5. LoadsRemembered'
        BY <2>3, <2>4 DEF LoadsRemembered
    <2>6. SavesRemembered'
        <3>1. \A s \in DOMAIN seen.written : seen.written[s] # Zero =>
                    s \in DOMAIN old /\ old[s] = seen.written[s]
            BY DEF RecordInvariant, SavesRemembered, old
        <3>2. \A s \in DOMAIN saved : saved[s] # Zero =>
                    s \in DOMAIN d.cache /\ d.cache[s] = saved[s]
            BY <1>1, <2>1, <2>3, <3>1
        <3> QED
            BY <2>1, <2>4, <3>2 DEF SavesRemembered
    <2> QED
        BY <1>1, <2>4, <2>5, <2>6, RunsKeepList DEF RecordInvariant
<1> QED
    BY <1>4, <1>5

LEMMA CallKeepsRecord ==
    ASSUME TypesHold, RecordInvariant, Call
    PROVE  RecordInvariant'
<1>1. PICK d, e \in EngineRecord :
                /\ Stays(Top, d) /\ d.cache = Top.cache
                /\ engines' = Append([engines EXCEPT ![Depth] = d], e)
                /\ Depth < MaxDepth
                /\ seen' = IF Depth = 1 /\ e.kind = "DELEGATECALL"
                           THEN [seen EXCEPT !.called = Append(@, e.address)] ELSE seen
                /\ outcome = "running" /\ UNCHANGED <<code, storage, changes, outcome>>
    BY CallStarts
<1>2. /\ Depth' = Depth + 1 /\ engines'[Depth + 1] = e
      /\ \A i \in 1..Depth : engines'[i] = IF i = Depth THEN d ELSE engines[i]
    BY <1>1, CallShape
<1>3. Depth \in Nat \ {0} /\ Top = engines[Depth] /\ seen \in SeenRecord
    BY TopTyped DEF Top, RecordInvariant
<1>4. engines'[1].cache = engines[1].cache /\ engines'[1].delegates = engines[1].delegates
    BY <1>1, <1>2, <1>3 DEF Stays
<1>5. seen.called \in Seq(Accounts) /\ e.address \in Accounts
    BY <1>1, <1>3 DEF SeenRecord, EngineRecord
<1>6. /\ Append(seen.called, e.address) \in Seq(Accounts)
      /\ Len(Append(seen.called, e.address)) = Len(seen.called) + 1
      /\ \A i \in 1..Len(seen.called) : Append(seen.called, e.address)[i] = seen.called[i]
      /\ Append(seen.called, e.address)[Len(seen.called) + 1] = e.address
    BY <1>5, AppendProperties
<1>7. /\ seen' \in SeenRecord /\ seen'.loaded = seen.loaded /\ seen'.written = seen.written
      /\ seen'.called = IF Depth = 1 /\ e.kind = "DELEGATECALL"
                        THEN Append(seen.called, e.address) ELSE seen.called
    BY <1>1, <1>3, <1>6 DEF SeenRecord
<1>8. LoadsRemembered' /\ SavesRemembered'
    BY <1>4, <1>7, CacheKept
<1>9. ListedButPending'
    <2>1. CASE Depth # 1
        <3>1. engines'[2].kind = engines[2].kind /\ engines'[2].address = engines[2].address
            <4>1. engines'[2] = IF 2 = Depth THEN d ELSE engines[2]
                BY <1>2, <1>3, <2>1
            <4> QED
                BY <1>1, <1>3, <4>1 DEF Stays
        <3>2. (Pending' <=> Pending) /\ (Pending => engines'[2].address = engines[2].address)
            BY <1>2, <1>3, <2>1, <3>1 DEF Pending
        <3> QED
            BY <1>4, <1>7, <2>1, <3>2, ListKept
    <2>2. CASE Depth = 1
        <3>1. ~ Pending /\ (Pending' <=> e.kind = "DELEGATECALL") /\ engines'[2] = e
            BY <1>2, <2>2 DEF Pending
        <3>2. /\ Len(seen.called) = Len(engines[1].delegates)
              /\ \A i \in 1..Len(seen.called) : engines[1].delegates[i].address = seen.called[i]
            <4>1. Len(engines[1].delegates) \in Nat
                <5>1. engines[1] \in EngineRecord
                    BY <1>3, TopTyped
                <5>2. engines[1].delegates \in Seq(Delegated)
                    BY <5>1 DEF EngineRecord
                <5> QED
                    BY <5>2, LenProperties
            <4> QED
                BY <3>1, <4>1 DEF RecordInvariant, ListedButPending
        <3> DEFINE made == engines'[1].delegates
        <3>3. Len(made) = Len(seen.called) /\ Len(made) \in Nat
            BY <1>4, <1>5, <3>2, LenProperties
        <3>4. \A i \in 1..Len(made) : made[i].address = seen'.called[i]
            BY <1>4, <1>6, <1>7, <3>2, <3>3
        <3>5. Len(seen'.called) = Len(made) + (IF Pending' THEN 1 ELSE 0)
            <4>1. CASE e.kind = "DELEGATECALL"
                BY <1>6, <1>7, <2>2, <3>1, <3>3, <4>1
            <4>2. CASE e.kind # "DELEGATECALL"
                <5>1. ~ Pending' /\ seen'.called = seen.called
                    BY <1>7, <3>1, <4>2
                <5>2. Len(made) = Len(seen.called) + 0
                    BY <3>3
                <5> HIDE DEF made
                <5> QED
                    BY <3>3, <5>1, <5>2
            <4> QED
                BY <4>1, <4>2
        <3>6. Pending' => seen'.called[Len(made) + 1] = engines'[2].address
            BY <1>6, <1>7, <2>2, <3>1, <3>3
        <3> QED
            BY <3>4, <3>5, <3>6 DEF ListedButPending
    <2> QED
        BY <2>1, <2>2
<1>10. outcome' = "running"
    BY <1>1
<1> QED
    BY <1>7, <1>8, <1>9, <1>10 DEF RecordInvariant

\* The engine the first one waits for ends, and enters its list.
LEMMA ReturnKeepsRecord ==
    ASSUME TypesHold, RecordInvariant, Return
    PROVE  RecordInvariant'
<1>1. /\ Depth > 1 /\ outcome = "running" /\ seen' = seen /\ outcome' = outcome
    BY ReturnResumes
<1>2. PICK d \in EngineRecord :
                /\ engines' = [SubSeq(engines, 1, Depth - 1) EXCEPT ![Depth - 1] = d]
                /\ d.kind = engines[Depth - 1].kind /\ d.address = engines[Depth - 1].address
                /\ d.cache = engines[Depth - 1].cache
                /\ d.delegates =
                    IF Top.kind = "DELEGATECALL"
                    THEN Append(engines[Depth - 1].delegates,
                                [address |-> Top.address, calldata |-> Top.calldata])
                    ELSE engines[Depth - 1].delegates
    BY ReturnResumes
<1>3. /\ Depth' = Depth - 1
      /\ \A i \in 1..(Depth - 1) : engines'[i] = IF i = Depth - 1 THEN d ELSE engines[i]
    BY <1>1, <1>2, ReturnResumes, ReturnShape
<1>4. Depth \in Nat \ {0} /\ Top = engines[Depth]
    BY TopTyped DEF Top
<1>5. engines'[1].cache = engines[1].cache
    BY <1>1, <1>2, <1>3, <1>4
<1>6. LoadsRemembered' /\ SavesRemembered'
    BY <1>1, <1>5, CacheKept
<1>7. CASE Depth # 2
    <2>1. /\ engines'[1] = engines[1]
          /\ engines'[2].kind = engines[2].kind /\ engines'[2].address = engines[2].address
        BY <1>1, <1>2, <1>3, <1>4, <1>7
    <2>2. (Pending' <=> Pending) /\ (Pending => engines'[2].address = engines[2].address)
        BY <1>1, <1>3, <1>4, <1>7, <2>1 DEF Pending
    <2>3. ListedButPending'
        BY <1>1, <2>1, <2>2, ListKept
    <2> QED
        BY <1>1, <1>6, <2>3 DEF RecordInvariant
<1>8. CASE Depth = 2
    <2>1. engines'[1] = d /\ Top = engines[2] /\ ~ Pending'
        BY <1>3, <1>4, <1>8 DEF Pending
    <2> DEFINE made == engines[1].delegates
               entry == [address |-> Top.address, calldata |-> Top.calldata]
    <2>2. made \in Seq(Delegated) /\ entry \in Delegated /\ entry.address = Top.address
        <3>1. engines[1] \in EngineRecord /\ Top \in EngineRecord
            BY <1>4, TopTyped
        <3>2. made \in Seq(Delegated) /\ Top.address \in Accounts /\ Top.calldata \in Blobs
            BY <3>1 DEF EngineRecord
        <3> QED
            BY <3>2 DEF Delegated
    <2>3. Pending <=> Top.kind = "DELEGATECALL"
        BY <1>8, <2>1 DEF Pending
    <2>4. /\ Len(seen.called) = Len(made) + (IF Pending THEN 1 ELSE 0)
          /\ \A i \in 1..Len(made) : made[i].address = seen.called[i]
          /\ Pending => seen.called[Len(made) + 1] = Top.address
        BY <2>1 DEF RecordInvariant, ListedButPending
    <2>5. d.delegates = IF Pending THEN Append(made, entry) ELSE made
        BY <1>2, <1>8, <2>3
    <2> HIDE DEF made, entry
    <2>6. /\ Len(Append(made, entry)) = Len(made) + 1 /\ Len(made) \in Nat
          /\ \A i \in 1..Len(made) : Append(made, entry)[i] = made[i]
          /\ Append(made, entry)[Len(made) + 1] = entry
        BY <2>2, AppendProperties, LenProperties
    <2>7. /\ Len(seen.called) = Len(d.delegates)
          /\ \A i \in 1..Len(d.delegates) : d.delegates[i].address = seen.called[i]
        <3>1. CASE Pending
            BY <2>2, <2>4, <2>5, <2>6, <3>1
        <3>2. CASE ~ Pending
            BY <2>4, <2>5, <2>6, <3>2
        <3> QED
            BY <3>1, <3>2
    <2>8. ListedButPending'
        <3>1. Len(d.delegates) \in Nat
            BY <2>5, <2>6
        <3> QED
            BY <1>1, <2>1, <2>7, <3>1 DEF ListedButPending
    <2> QED
        BY <1>1, <1>6, <2>8 DEF RecordInvariant
<1> QED
    BY <1>7, <1>8

LEMMA NextKeepsRecord ==
    ASSUME TypesHold, RecordInvariant, [Next]_vars
    PROVE  RecordInvariant'
<1>1. CASE Idle
    <2>1. engines' = engines /\ seen' = seen /\ Depth' = Depth
        BY <1>1, IdleShape DEF Idle
    <2>2. outcome' = "halted" => Depth' = 1
        BY <1>1, <2>1 DEF Idle, RecordInvariant
    <2>3. ListedButPending' /\ LoadsRemembered' /\ SavesRemembered'
        BY <2>1 DEF RecordInvariant, ListedButPending, Pending, LoadsRemembered,
                    SavesRemembered, Remembered
    <2> QED
        BY <2>1, <2>2, <2>3 DEF RecordInvariant
<1> QED
    BY <1>1, Steps, PlainKeepsRecord, LoadKeepsRecord, SaveKeepsRecord, CallKeepsRecord,
       ReturnKeepsRecord

LEMMA RecordAlways == Spec => [](TypesHold /\ RecordInvariant)
BY InitTypes, InitRecord, NextKeepsTypes, NextKeepsRecord, PTL DEF Spec

\* emulator.py, inst_delegatecall: the delegatecalls that proxy_check gets to
\* judge are those the contract made, in their order, however they ended.
THEOREM DelegatesCorrect == Spec => []DelegatesRecorded
<1>1. TypesHold /\ RecordInvariant => DelegatesRecorded
    <2> SUFFICES ASSUME TypesHold, RecordInvariant, outcome = "halted"
                 PROVE  /\ Len(engines[1].delegates) = Len(seen.called)
                        /\ \A i \in DOMAIN engines[1].delegates :
                                engines[1].delegates[i].address = seen.called[i]
        BY DEF DelegatesRecorded
    <2>1. engines[1].delegates \in Seq(Delegated)
        BY TopTyped DEF EngineRecord
    <2>2. ~ Pending
        BY DEF RecordInvariant, Pending
    <2> QED
        BY <2>1, <2>2, LenProperties DEF RecordInvariant, ListedButPending
<1> QED
    BY <1>1, RecordAlways, PTL

\* emulator.py, Storage: a slot with the address delegated to is found although
\* the node's answer may have changed, and what was saved is what is loaded.
THEOREM StorageCorrect == Spec => []StorageRemembered
<1>1. TypesHold /\ RecordInvariant => StorageRemembered
    BY DEF RecordInvariant, StorageRemembered, SlotFound, SavedIsKept, LoadsRemembered,
           SavesRemembered, Remembered
<1> QED
    BY <1>1, RecordAlways, PTL

=============================================================================
