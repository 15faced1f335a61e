----------------------------- MODULE MCEmulator -----------------------------
(* Small instances of Emulator for TLC. *)
EXTENDS Emulator

CONSTANTS logic, beacon, sl

I(op) == [op |-> op]
PushOf(w) == [op |-> "PUSH", word |-> w]
LoadSlot == [op |-> "SLOAD", slot |-> sl]
SaveSlot == [op |-> "SSTORE", slot |-> sl]
JumpTo(op, n) == [op |-> op, to |-> n]

\* A fallback that asks a beacon for the logic contract.
BeaconProxy(op) ==
    <<PushOf(beacon), I(op), I("RETURNDATACOPY"), I("MLOAD"), I("CALLDATACOPY"),
      I("DELEGATECALL"), JumpTo("JUMPI", 8), I("JUMPDEST"), I("REVERT")>>

\* One that takes it from its storage, and goes on as the callee did.
StorageProxy ==
    <<I("CALLDATACOPY"), LoadSlot, I("DELEGATECALL"), I("RETURNDATACOPY"),
      JumpTo("JUMPI", 7), I("REVERT"), I("JUMPDEST"), I("RETURN")>>

\* Jumps that halt: to no JUMPDEST, and out of the program.
Strays == {<<PushOf(Junk), JumpTo("JUMPI", 3), I("STOP")>>, <<JumpTo("JUMP", 5)>>,
           <<PushOf(Zero), JumpTo("JUMPI", 4), I("STOP"), I("RETURN")>>,
           <<JumpTo("JUMP", 2), I("JUMPDEST"), I("STOP")>>}

\* Loops: one that nothing ends, one that goes on while its slot is not zero,
\* and one that any answer of the node may end.
Loops == {<<I("JUMPDEST"), I("CALLDATACOPY"), JumpTo("JUMP", 1)>>,
          <<I("JUMPDEST"), LoadSlot, JumpTo("JUMPI", 1), I("STOP")>>,
          <<I("JUMPDEST"), I("NUMBER"), JumpTo("JUMPI", 1), I("STOP")>>}

\* Words from a memory that holds nothing yet, or the calldata.
Loads == {<<I("MLOAD"), SaveSlot, LoadSlot, I("DELEGATECALL"), I("STOP")>>,
          <<I("CALLDATACOPY"), I("MLOAD"), I("CALLCODE"), I("STOP")>>}

\* All fallbacks of up to three of these instructions.
Alphabet == {LoadSlot, SaveSlot, PushOf(Zero), PushOf(logic), I("DELEGATECALL"), I("CALLCODE"),
             I("NUMBER"), I("CALLDATACOPY")}
Short == UNION {[1..n -> Alphabet] : n \in 1..3}
Closed == {p \o <<I("STOP")>> : p \in Short}

Fallbacks ==
    Closed \cup Strays \cup Loops \cup Loads
        \cup {StorageProxy, BeaconProxy("STATICCALL"), BeaconProxy("CALL")}

\* A logic contract returns, reverts or stops, asks who called it, calls back
\* on the storage of its caller, or is a proxy itself.
LogicCodes ==
    {<<I("RETURN")>>, <<I("INVALID")>>, <<I("NUMBER"), I("MSTORE"), I("RETURN")>>,
     <<LoadSlot, I("DELEGATECALL"), I("REVERT")>>, <<I("JUMPDEST"), JumpTo("JUMP", 1)>>,
     <<I("ADDRESS"), I("MSTORE"), PushOf(beacon), I("CALLCODE"), I("RETURN")>>}

BeaconCodes ==
    {<<PushOf(logic), I("MSTORE"), I("RETURN")>>, <<I("CALLER"), I("MSTORE"), I("REVERT")>>}

MCWorlds ==
    {[a \in {Self, logic, beacon} |->
        IF a = Self THEN f ELSE IF a = logic THEN l ELSE b] :
        f \in Fallbacks, l \in LogicCodes, b \in BeaconCodes}

MCStorages ==
    {[a \in {Self, logic, beacon} |-> [s \in {sl} |-> IF a = Self THEN w ELSE Zero]] :
        w \in {Zero, logic}}

============================================================================
