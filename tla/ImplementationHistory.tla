----------------------- MODULE ImplementationHistory -----------------------
(***************************************************************************)
(* How proxion recovers the logic contracts a proxy has used: the function *)
(* binary_search of src/proxion/__main__.py reads the implementation slot  *)
(* of the proxy at chosen blocks and bisects every interval whose two ends *)
(* hold different values.  The recursion is a stack of search_diff         *)
(* activations; one step is one storage query to the archive node or one   *)
(* decision of the topmost activation, and blocks keep being mined while   *)
(* the search runs.                                                        *)
(***************************************************************************)
EXTENDS ProxyChain, FiniteSets

VARIABLES
    right,    \* the last block of the search (parameter right, resolved)
    table,    \* get_val's memo: the blocks read so far, with their values
    calls,    \* the live search_diff activations, innermost first
    status,   \* "idle" | "searching" | "done" | "failed" | "silent"
    result    \* the list that is returned: its blocks, with their values

searchVars == <<right, table, calls, status, result>>
vars == <<chain, right, table, calls, status, result>>

----------------------------------------------------------------------------
(* get_val *)

Known(b) == b \in DOMAIN table

Remember(b, v) ==
    [k \in (DOMAIN table) \cup {b} |-> IF k = b THEN v ELSE table[k]]

(* search_diff *)

Top == Head(calls)
Mid(c) == (c.l + c.r) \div 2
Differ(a, b) == table[a] # table[b]

\* Mistakes a change of the early return could make: dropping the comparison of
\* the ends, stopping one block too early, recursing once too often.
SettledByLength(c) == c.r - c.l <= 1
SettledEarly(c) == ~ Differ(c.l, c.r) \/ c.r - c.l <= 2
SettledLate(c) == ~ Differ(c.l, c.r) \/ c.r - c.l <= 0

\* The early return of search_diff, once both ends have been read.
Settled(c) == ~ Differ(c.l, c.r) \/ c.r - c.l <= 1

\* The activation c calls get_val for b next and misses the memo: the left
\* end, then the right end, then the middle if it has to go on.
Asks(c, b) ==
    /\ ~ Known(b)
    /\ \/ b = c.l
       \/ b = c.r /\ Known(c.l)
       \/ b = Mid(c) /\ Known(c.l) /\ Known(c.r) /\ ~ Settled(c)

\* Mistakes in the recursion: only one half, the upper half first.
OneHalf(c) ==
    IF Differ(Mid(c), c.l) THEN <<[l |-> c.l, r |-> Mid(c)]>>
    ELSE <<[l |-> Mid(c), r |-> c.r]>>
UpperFirst(c) ==
    (IF Differ(Mid(c), c.r) THEN <<[l |-> Mid(c), r |-> c.r]>> ELSE <<>>)
    \o (IF Differ(Mid(c), c.l) THEN <<[l |-> c.l, r |-> Mid(c)]>> ELSE <<>>)

\* What an unsettled activation calls, in the order it calls it.
Halves(c) ==
    (IF Differ(Mid(c), c.l) THEN <<[l |-> c.l, r |-> Mid(c)]>> ELSE <<>>)
    \o (IF Differ(Mid(c), c.r) THEN <<[l |-> Mid(c), r |-> c.r]>> ELSE <<>>)

(* The loop over sorted(table) appends a value that differs from the last one
   appended, which is the value of the preceding known block. *)

Latest(S) == CHOOSE b \in S : \A a \in S : a <= b

PrecedingValue(t, b) ==
    LET earlier == {a \in DOMAIN t : a < b}
    IN  IF earlier = {} THEN None ELSE t[Latest(earlier)]

\* Mistakes in building the list: zero values skipped, nothing merged.
NonZeroBlocks(t) == {b \in DOMAIN t : t[b] \notin {None, PrecedingValue(t, b)}}
AllBlocks(t) == DOMAIN t

LogicBlocks(t) == {b \in DOMAIN t : t[b] # PrecedingValue(t, b)}

Listed(t) == [b \in LogicBlocks(t) |-> t[b]]

----------------------------------------------------------------------------
(* Actions *)

\* binary_search is entered for an explicit block, or for "latest", which
\* eth_blockNumber resolves to the block the chain has reached.
Begin(b) ==
    /\ status = "idle"
    /\ status' = "searching"
    /\ right' = b
    /\ calls' = <<[l |-> 1, r |-> b]>>
    /\ UNCHANGED <<chain, table, result>>

Running == status = "searching" /\ calls # <<>>

\* A cache miss of get_val that the node answers: it knows only mined blocks.
Query(b) ==
    /\ Running
    /\ Asks(Top, b)
    /\ b \in DOMAIN chain
    /\ table' = Remember(b, SlotValue(b))
    /\ UNCHANGED <<chain, right, calls, status, result>>

\* The topmost activation returns early.
Return ==
    /\ Running
    /\ Known(Top.l) /\ Known(Top.r)
    /\ Settled(Top)
    /\ calls' = Tail(calls)
    /\ UNCHANGED <<chain, right, table, status, result>>

\* The topmost activation recurses into the halves whose ends differ.  The
\* values it compares are in the memo already, so its own frame can go.
Split ==
    /\ Running
    /\ Known(Top.l) /\ Known(Top.r)
    /\ ~ Settled(Top)
    /\ Known(Mid(Top))
    /\ calls' = Halves(Top) \o Tail(calls)
    /\ UNCHANGED <<chain, right, table, status, result>>

\* The recursion is over: the list of logic contracts is built from the memo.
Finish ==
    /\ status = "searching" /\ calls = <<>>
    /\ status' = "done"
    /\ result' = Listed(table)
    /\ UNCHANGED <<chain, right, table, calls>>

\* A call of the node is next: eth_blockNumber or a storage query.
Calling ==
    \/ status = "idle"
    \/ Running /\ \E b \in 1..right : Asks(Top, b)

\* The call is never answered: there is no time limit (octopus/engine/
\* explorer.py:43), so the search waits where it is for good.
Unanswered ==
    /\ Calling
    /\ status' = "silent"
    /\ UNCHANGED <<chain, right, table, calls, result>>

\* The call raises: nothing of the search survives the exception, which
\* proxy_check catches.
RpcError ==
    /\ Calling
    /\ status' = "failed"
    /\ calls' = <<>>
    /\ UNCHANGED <<chain, right, table, result>>

SearchStep ==
    \/ \E b \in 1..right : Query(b)
    \/ Return
    \/ Split
    \/ Finish
    \/ Unanswered
    \/ RpcError

Init ==
    /\ ChainInit
    /\ right = 1
    /\ table = [b \in {} |-> None]
    /\ calls = <<>>
    /\ status = "idle"
    /\ result = [b \in {} |-> None]

Next ==
    \/ \E w \in Words : Mine(w) /\ UNCHANGED searchVars
    \/ \E b \in Block : Begin(b)
    \/ SearchStep

\* The search is one thread of control, which goes on unless a call of the node
\* is left unanswered.
Spec == Init /\ [][Next]_vars /\ WF_vars(SearchStep)

----------------------------------------------------------------------------
(* Properties *)

\* Type invariant: the memo and the activations stay within the search range.
TypeOK ==
    /\ ChainTypeOK
    /\ right \in Block
    /\ DOMAIN table \subseteq 1..right
    /\ \A b \in DOMAIN table : table[b] \in Values
    /\ calls \in Seq([l : 1..right, r : 1..right])
    /\ status \in {"idle", "searching", "done", "failed", "silent"}
    /\ DOMAIN result \subseteq DOMAIN table

\* Every logic contract in the returned list is reported at the very block in
\* which the proxy was upgraded to it: bisection left no gap around a change.
ChangesAreReal ==
    status = "done" => DOMAIN result \subseteq Upgrades(right)

\* If the proxy never went back to an earlier logic contract, the list is the
\* whole history of its implementation slot.
CompleteUnlessReused ==
    status = "done" /\ NeverReused(right) => DOMAIN result = Upgrades(right)

\* The list ends with the value at the last block searched, although blocks
\* are mined meanwhile: proxy_check relies on it when it compares the last
\* entry with the current logic contract.
EndsWithCurrent ==
    status = "done" =>
        SlotValue(right) =
            IF DOMAIN result = {} THEN None ELSE result[Latest(DOMAIN result)]

\* How often n blocks are halved, rounding up, until one is left.
Halvings[n \in Nat] == IF n <= 1 THEN 0 ELSE 1 + Halvings[(n + 1) \div 2]

\* The search costs the two ends, and per upgrade at most one query for each
\* halving of the range: it never degenerates to a scan of the chain.
QueriesBounded ==
    right \in DOMAIN chain =>
        Cardinality(DOMAIN table) <=
            2 + Cardinality(Upgrades(right) \ {1}) * Halvings[right - 1]

\* A search that was entered ends, unless the node leaves one of its calls
\* unanswered: every activation returns.
Terminates == status = "searching" ~> status \in {"done", "failed", "silent"}

\* binary_search keeps the promise of LogicHistory: its list is the answer.
Promise == INSTANCE LogicHistory WITH answer <- result
KeepsPromise == Promise!Spec
PromisedSteps == Promise!Init /\ [][Promise!Next]_(Promise!vars)

\* The comment at the call (src/proxion/__main__.py:194) says "get all
\* historical logic contracts": with no condition on the history.
AllHistoricalLogics ==
    status = "done" => DOMAIN result = Upgrades(right)

----------------------------------------------------------------------------
(* Why the bisection works: the inductive invariant *)

\* The memo holds what the chain held, and still holds, at the blocks read.
MemoTrue == \A b \in DOMAIN table : b \in DOMAIN chain /\ table[b] = SlotValue(b)

\* An activation that has not returned has both blocks in its range.
Pending(a, b) == \E i \in DOMAIN calls : calls[i].l <= a /\ b <= calls[i].r

\* The activations cover disjoint stretches of the chain, leftmost on top.
StackOrdered ==
    \A i \in DOMAIN calls :
        /\ calls[i].l <= calls[i].r
        /\ \A j \in DOMAIN calls : i < j => calls[i].r <= calls[j].l

\* Only the outermost activation ever reads its ends itself.
EndsRead ==
    \/ /\ calls = <<[l |-> 1, r |-> right]>>
       /\ DOMAIN table \subseteq {1, right}
    \/ /\ Known(1) /\ Known(right)
       /\ \A i \in DOMAIN calls : Known(calls[i].l) /\ Known(calls[i].r)

\* Nothing inside an activation's range has been read, but the middle of the
\* topmost one.
InteriorUnread ==
    \A i \in DOMAIN calls, b \in DOMAIN table :
        calls[i].l < b /\ b < calls[i].r =>
            /\ i = 1 /\ b = Mid(calls[i])
            /\ Known(calls[i].l) /\ Known(calls[i].r)
            /\ ~ Settled(calls[i])

Neighbours(a, b) ==
    a < b /\ \A k \in DOMAIN table : ~ (a < k /\ k < b)

\* Neighbours in the memo with different values are consecutive blocks or
\* still to be bisected.
ChangesLocated ==
    \A a, b \in DOMAIN table :
        Neighbours(a, b) /\ Differ(a, b) => b = a + 1 \/ Pending(a, b)

\* Two consecutive blocks are still to be searched, or both read, or between
\* two blocks at which the slot has the same value.
NothingSkipped ==
    \A k \in 2..right :
        \/ Pending(k - 1, k)
        \/ Known(k - 1) /\ Known(k)
        \/ \E a, b \in DOMAIN table : a < k /\ k <= b /\ ~ Differ(a, b)

\* The inductive invariant of the search, from which its safety follows.
SearchInvariant ==
    /\ TypeOK
    /\ MemoTrue
    /\ status = "idle" => DOMAIN table = {}
    /\ status \in {"idle", "done", "failed"} => calls = <<>>
    /\ status = "searching" => StackOrdered /\ EndsRead /\ InteriorUnread
    /\ status \in {"searching", "done"} => ChangesLocated /\ NothingSkipped
    /\ status = "done" => Known(1) /\ Known(right) /\ result = Listed(table)

============================================================================
