---------------------------- MODULE LogicHistory ----------------------------
(***************************************************************************)
(* What binary_search of src/proxion/__main__.py promises its caller,      *)
(* without saying how: in one step it answers with upgrades that really    *)
(* happened, the last of which is the value at the end of the search, and  *)
(* with all of them if the proxy never went back to an earlier value.      *)
(*                                                                         *)
(* An answer is a function from block numbers to values: the Python list   *)
(* is its values in block order.                                           *)
(***************************************************************************)
EXTENDS ProxyChain

VARIABLES
    right,    \* the last block of the search
    status,   \* "idle" | "searching" | "done" | "failed" | "silent"
    answer    \* the empty function until there is one

vars == <<chain, right, status, answer>>

NoAnswer == [b \in {} |-> None]

\* The value the slot has at the end of an answer.
FinalValue(values) ==
    IF DOMAIN values = {} THEN None
    ELSE values[CHOOSE b \in DOMAIN values : \A a \in DOMAIN values : a <= b]

Acceptable(values) ==
    /\ DOMAIN values \subseteq Upgrades(right)
    /\ NeverReused(right) => DOMAIN values = Upgrades(right)
    /\ \A b \in DOMAIN values : values[b] = SlotValue(b)
    /\ FinalValue(values) = SlotValue(right)

Begin(b) ==
    /\ status = "idle"
    /\ status' = "searching"
    /\ right' = b
    /\ UNCHANGED <<chain, answer>>

\* Only blocks that are mined can be reported on.
Answer ==
    /\ status = "searching"
    /\ right <= Height
    /\ status' = "done"
    /\ \E reported \in SUBSET (1..right) :
            /\ answer' = [b \in reported |-> SlotValue(b)]
            /\ Acceptable(answer')
    /\ UNCHANGED <<chain, right>>

\* What it asks is never answered.
Wait ==
    /\ status \in {"idle", "searching"}
    /\ status' = "silent"
    /\ UNCHANGED <<chain, right, answer>>

Fail ==
    /\ status \in {"idle", "searching"}
    /\ status' = "failed"
    /\ UNCHANGED <<chain, right, answer>>

Init ==
    /\ ChainInit
    /\ right = 1
    /\ status = "idle"
    /\ answer = NoAnswer

Next ==
    \/ \E w \in Words : Mine(w) /\ UNCHANGED <<right, status, answer>>
    \/ \E b \in Block : Begin(b)
    \/ Answer
    \/ Wait
    \/ Fail

\* Every search that was begun ends, with an answer or an exception, or waits
\* for a call that is never answered.
Spec == Init /\ [][Next]_vars /\ WF_vars(Answer \/ Wait \/ Fail)

============================================================================
