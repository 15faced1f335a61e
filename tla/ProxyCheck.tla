----------------------------- MODULE ProxyCheck -----------------------------
(***************************************************************************)
(* proxy_check of src/proxion/__main__.py: whether a contract is a proxy,  *)
(* which logic contract it uses now and which it used before.  It reads    *)
(* the standard slots, emulates the fallback function against the latest   *)
(* state and, when the logic address came out of a storage slot, searches  *)
(* the slot's history with binary_search (module ImplementationHistory,    *)
(* whose chain and search variables it extends by its own).                *)
(* Every read is a separate RPC call and the chain moves on between them.  *)
(***************************************************************************)
EXTENDS ImplementationHistory

CONSTANTS
    Proxies,      \* the contracts considered, a subset of Contract
    LatestTag,    \* the block tag "latest"
    AdminWord,    \* a word of a standard slot that names no logic contract
    Elsewhere,    \* a logic address that is in the code or in another contract
    Unset         \* Python's None

(* The contract under analysis, as far as the outcome depends on it: how many
   delegatecalls the fallback makes, whether the last forwards the calldata,
   where its target comes from, which standard slots are in use, and whether
   an opcode is met whose value is not concrete. *)
Contract ==
    [delegates : 0..2, forwards : BOOLEAN, target : {"slot", "code", "beacon"},
     standard : BOOLEAN, admin : BOOLEAN, opaque : BOOLEAN]

ASSUME ProxiesAssumption == Proxies \subseteq Contract

ASSUME WordsAssumption ==
    /\ {AdminWord, Elsewhere, Unset} \cap (Logics \cup {None, ZeroWord, EmptyReply}) = {}
    /\ AdminWord # Elsewhere /\ Unset \notin BOOLEAN

VARIABLES
    contract,   \* the contract's facts, constant
    block,      \* the block argument
    pc,         \* where proxy_check is; "silent" when it waits for good
    unread,     \* the standard slots the loop has still to read, in order
    report,     \* the ProxyCheckResult
    readAt      \* the block whose state the emulation saw (0 before)

checkVars == <<contract, block, pc, unread, report, readAt>>
allVars == <<vars, checkVars>>

NoBlocks == [b \in {} |-> None]

EmptyReport ==
    [success |-> TRUE, isProxy |-> Unset, current |-> Unset, slot |-> FALSE,
     old |-> NoBlocks]

----------------------------------------------------------------------------
(* Actions *)

\* Blocks are mined at any time.
ChainGrows ==
    /\ \E w \in Words : Mine(w)
    /\ UNCHANGED <<checkVars, searchVars>>

\* Mistake: the try block ends before the history is searched.
ReadsOnly == pc \in {"code", "slots"}

\* The try block goes around all of proxy_check: any call of the node may
\* raise, a call of the search only by ending the search.
InTry == pc \in {"code", "slots"} \/ (pc = "history" /\ status = "failed")

\* The bare except: whatever was found stays in the report.
Raise ==
    /\ InTry
    /\ pc' = "done"
    /\ report' = [report EXCEPT !.success = FALSE]
    /\ UNCHANGED <<chain, contract, block, unread, readAt, searchVars>>

\* A call of the node is never answered, which nothing limits (octopus/engine/
\* explorer.py:43), or the emulated fallback loops, which has no limit either
\* (module Emulator); the search's calls are its own affair.
Hang ==
    /\ pc \in {"code", "slots"}
    /\ pc' = "silent"
    /\ UNCHANGED <<chain, contract, block, unread, report, readAt, searchVars>>

\* eth_getCode at the given block: "0x" ends the check, "No bytecode!".
GetCode(present) ==
    /\ pc = "code"
    /\ pc' = IF present THEN "slots" ELSE "done"
    /\ report' = IF present THEN report ELSE [report EXCEPT !.success = FALSE]
    /\ UNCHANGED <<chain, contract, block, unread, readAt, searchVars>>

\* What a standard slot holds at the latest block.
StandardWord(slot) ==
    CASE slot = "implementation" ->
            IF contract.standard THEN chain[Height] ELSE ZeroWord
      [] slot = "admin" ->
            IF contract.admin THEN AdminWord ELSE ZeroWord

\* Mistake: a standard slot in use is taken for the verdict.
TakenForProxy(word) == [report EXCEPT !.current = word, !.isProxy = TRUE]

\* A standard slot in use: the last one wins.
SlotInUse(word) == [report EXCEPT !.current = word]

\* One round of the loop over SLOTS.
ReadSlot ==
    /\ pc = "slots" /\ unread # <<>>
    /\ LET word == StandardWord(Head(unread))
       IN  report' = IF word \in {ZeroWord, EmptyReply} THEN report
                     ELSE SlotInUse(word)
    /\ unread' = Tail(unread)
    /\ UNCHANGED <<chain, contract, block, pc, readAt, searchVars>>

\* The target of the last delegatecall, as the emulator computes it from the
\* latest state.  A slot that is zero or not there leads to an address without
\* code, on which the emulator raises.
Target == IF contract.target = "slot" THEN SlotValue(Height) ELSE Elsewhere

\* Mistake: what a standard slot holds is trusted more than the emulation.
StandardFirst(r) ==
    [r EXCEPT !.isProxy = TRUE, !.slot = contract.target = "slot",
              !.current = IF @ = Unset THEN Target ELSE @]

\* The last delegatecall forwards the calldata.
Forwarded(r) ==
    [r EXCEPT !.isProxy = TRUE, !.slot = contract.target = "slot", !.current = Target]

\* emulate runs, and its delegatecalls are judged.
Emulate ==
    /\ pc = "slots" /\ unread = <<>>
    /\ contract.delegates > 0 => Target # None
    /\ readAt' = Height
    /\ LET concrete == [report EXCEPT !.success = ~ contract.opaque]
           proxy == contract.delegates > 0 /\ contract.forwards
       IN  /\ report' =
                IF proxy THEN Forwarded(concrete)
                ELSE [concrete EXCEPT !.isProxy = FALSE]
           /\ pc' = IF proxy /\ contract.target = "slot" THEN "history" ELSE "done"
    /\ UNCHANGED <<chain, contract, block, unread, searchVars>>

\* binary_search is called; "latest" is resolved by eth_blockNumber only now.
BeginHistory ==
    /\ pc = "history"
    /\ Begin(IF block = LatestTag THEN Height ELSE block)
    /\ UNCHANGED checkVars

SearchHistory ==
    /\ pc = "history"
    /\ SearchStep
    /\ UNCHANGED checkVars

LastFound == Latest(DOMAIN result)

\* Mistakes: the newest entry goes without a look at it, or stays.
WithoutNewest == (DOMAIN result) \ {LastFound}
WithNewest == DOMAIN result

\* The entries left when the current logic contract is taken off the end.
Older ==
    IF result[LastFound] = report.current THEN (DOMAIN result) \ {LastFound}
    ELSE DOMAIN result

\* The list becomes old_implementations; an empty one raises IndexError.
DropCurrent ==
    /\ pc = "history" /\ status = "done"
    /\ report' = IF DOMAIN result = {} THEN [report EXCEPT !.success = FALSE]
                 ELSE [report EXCEPT !.old = [b \in Older |-> result[b]]]
    /\ pc' = "done"
    /\ UNCHANGED <<chain, contract, block, unread, readAt, searchVars>>

CheckStep ==
    \/ \E present \in BOOLEAN : GetCode(present)
    \/ ReadSlot
    \/ Emulate
    \/ BeginHistory
    \/ SearchHistory
    \/ DropCurrent
    \/ Raise
    \/ Hang

CheckInit ==
    /\ Init
    /\ contract \in Proxies
    /\ block \in Block \cup {LatestTag}
    /\ pc = "code"
    /\ unread = <<"implementation", "admin">>
    /\ report = EmptyReport
    /\ readAt = 0

CheckNext == ChainGrows \/ CheckStep

\* One thread of control, which goes on unless it hangs.
CheckSpec == CheckInit /\ [][CheckNext]_allVars /\ WF_allVars(CheckStep)

----------------------------------------------------------------------------
(* Properties *)

Addresses == Values \cup {AdminWord, Elsewhere, Unset}

\* Type invariant: also, a verdict is given by the emulation only.
CheckTypeOK ==
    /\ TypeOK
    /\ contract \in Proxies /\ block \in Block \cup {LatestTag}
    /\ pc \in {"code", "slots", "history", "done", "silent"}
    /\ readAt \in 0..Height
    /\ report.isProxy \in BOOLEAN \cup {Unset}
    /\ report.current \in Addresses
    /\ report.isProxy # Unset => readAt > 0

Reported == {report.old[b] : b \in DOMAIN report.old} \cup {report.current}

\* A successful check of a proxy that never went back to an earlier logic
\* contract reports every logic contract up to the last block that was
\* searched, although the slot is read at several moments and the one the
\* emulation saw is taken off the list.
NothingLost ==
    pc = "done" /\ report.success /\ report.slot /\ NeverReused(right)
    => \A b \in Upgrades(right) : SlotValue(b) \in Reported

\* If the slot did not change between the emulation and the last block that
\* was searched, the list and the current logic contract are disjoint and all
\* that is listed is older.
OldIsOld ==
    /\ pc = "done" /\ report.success /\ report.slot
    /\ NeverReused(right) /\ SlotValue(right) = SlotValue(readAt)
    => /\ \A b \in DOMAIN report.old : report.old[b] # report.current
       /\ DOMAIN report.old \subseteq 1..readAt

\* The logic contract reported for a proxy is the target of its fallback's last
\* delegatecall in the block that the emulation saw, also if the check fails
\* later on: not what a standard slot held, whichever was read last, and not
\* what the slot held when the loop read it or when its history was searched.
CurrentIsTarget ==
    pc = "done" /\ report.isProxy = TRUE =>
        report.current = IF contract.target = "slot" THEN SlotValue(readAt) ELSE Elsewhere

\* The check returns, whatever the node answers and raises, unless it leaves a
\* call unanswered or the fallback it emulates loops.
Returns == <>(pc \in {"done", "silent"} \/ status = "silent")

\* README.md:13: "Identifying the current and previous logic (a.k.a.
\* implementation) contracts."  What is listed as old was in use before the
\* contract that is reported as the current one.
PreviousArePrevious ==
    pc = "done" /\ report.success /\ report.slot /\ block = LatestTag =>
        DOMAIN report.old \subseteq 1..readAt

============================================================================
