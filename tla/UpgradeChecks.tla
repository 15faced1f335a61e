---------------------------- MODULE UpgradeChecks ----------------------------
(***************************************************************************)
(* The checks of slither-check-upgradeability that walk along the state    *)
(* variables of two versions (constant.py), and those that compare the ids *)
(* of a contract's functions with the proxy's (functions_ids.py).          *)
(***************************************************************************)
EXTENDS Integers, Sequences

\* A state variable, declared by a contract; kept in storage, constant or
\* immutable.
Variable(name, type, kept, contract) ==
    [name |-> name, type |-> type, kept |-> kept, contract |-> contract]

----------------------------------------------------------------------------
(* constant.py.  equal has the pairs of types, one of each version, that compare
   as equal. *)

Fixed(v) == v.kept \in {"constant", "immutable"}

Other(v1, v2, equal) == v1.name # v2.name \/ <<v1.type, v2.type>> \notin equal

\* The two indices and how many variables of the new version may be skipped.
Positions(n1, n2, additional) == [n1 |-> n1, n2 |-> n2, additional |-> additional]

\* Counted for the whole contract.
Start(vars1, vars2) ==
    Positions(1, 1, IF Len(vars2) > Len(vars1) THEN Len(vars2) - Len(vars1) ELSE 0)

\* The loop goes on.
Within(vars1, vars2, at) == at.n1 <= Len(vars1) /\ at.n2 <= Len(vars2)

\* The new version's variable is skipped as an additional one.
Skips(vars1, vars2, equal, at) ==
    LET v1 == vars1[at.n1]
        v2 == vars2[at.n2]
    IN  Fixed(v1) /\ ~ Fixed(v2) /\ Other(v1, v2, equal) /\ at.additional > 0

\* The old version's variable is passed over because of a constant that it does
\* not have; what became immutable is not looked at.
PassesOver(vars1, vars2, equal, at) ==
    LET v1 == vars1[at.n1]
        v2 == vars2[at.n2]
    IN  ~ Fixed(v1) /\ v2.kept = "constant" /\ Other(v1, v2, equal)

SkipNew(at) == Positions(at.n1, at.n2 + 1, at.additional - 1)
SkipOld(at) == Positions(at.n1 + 1, at.n2, at.additional)
SkipBoth(at) == Positions(at.n1 + 1, at.n2 + 1, at.additional)

\* Each iteration takes a variable from one list at least.
Iterations(vars1, vars2) == Len(vars1) + Len(vars2)

\* An iteration of the loop of WereConstant._check.
AfterWere(vars1, vars2, equal, at) ==
    IF ~ Within(vars1, vars2, at) THEN at
    ELSE IF Skips(vars1, vars2, equal, at) THEN SkipNew(at)
    ELSE SkipBoth(at)

\* The same for BecameConstant._check.
AfterBecame(vars1, vars2, equal, at) ==
    IF ~ Within(vars1, vars2, at) THEN at
    ELSE IF Skips(vars1, vars2, equal, at) THEN SkipNew(at)
    ELSE IF PassesOver(vars1, vars2, equal, at) THEN SkipOld(at)
    ELSE SkipBoth(at)

\* Where the loops are before each iteration.
WerePositions(vars1, vars2, equal) ==
    LET at[k \in 0..Iterations(vars1, vars2)] ==
            IF k = 0 THEN Start(vars1, vars2)
            ELSE AfterWere(vars1, vars2, equal, at[k - 1])
    IN  at

BecamePositions(vars1, vars2, equal) ==
    LET at[k \in 0..Iterations(vars1, vars2)] ==
            IF k = 0 THEN Start(vars1, vars2)
            ELSE AfterBecame(vars1, vars2, equal, at[k - 1])
    IN  at

\* The pairs that an iteration at one of the positions gets to compare.
Compared(vars1, vars2, equal, positions) ==
    {<<vars1[at.n1], vars2[at.n2]>> : at \in
        {p \in positions : Within(vars1, vars2, p) /\ ~ Skips(vars1, vars2, equal, p)}}

WereConstant(vars1, vars2, equal) ==
    LET at == WerePositions(vars1, vars2, equal)
    IN  {p \in Compared(vars1, vars2, equal, {at[k] : k \in DOMAIN at}) :
            Fixed(p[1]) /\ ~ Fixed(p[2])}

BecameConstant(vars1, vars2, equal) ==
    LET at == BecamePositions(vars1, vars2, equal)
    IN  {p \in Compared(vars1, vars2, equal, {at[k] : k \in DOMAIN at}) :
            ~ Fixed(p[1]) /\ p[2].kept = "constant" /\ ~ Other(p[1], p[2], equal)}

----------------------------------------------------------------------------
(* functions_ids.py.  A member of a contract is a function or a state variable:
   its parameters as they are written, and as the compiler's signature has them. *)

Member(kind, name, types, canonical) ==
    [kind |-> kind, name |-> name, types |-> types, canonical |-> canonical]

Variables(members) == {m \in members : m.kind = "variable"}

\* get_signatures: neither constructors nor the fallback; the getter of a
\* variable is taken for one without parameters.
GetSignatures(members) ==
    {<<f.name, f.types>> : f \in {m \in members : m.kind \in {"external", "receive"}}}
        \cup {<<v.name, <<>>>> : v \in Variables(members)}

\* One signature for each id: that of the last one in the order of a set.
BySignature(members, id) ==
    LET signatures == GetSignatures(members)
        ids == {id[s] : s \in signatures}
    IN  {d \in [ids -> signatures] : \A k \in ids : id[d[k]] = k}

\* The ids that IDCollision._check reports.
Collisions(implem, proxy) ==
    {k \in DOMAIN implem \cap DOMAIN proxy : implem[k] # proxy[k]}

\* The ids that FunctionShadowing._check reports.
Shadowings(implem, proxy) ==
    {k \in DOMAIN implem \cap DOMAIN proxy : implem[k] = proxy[k]}

----------------------------------------------------------------------------
(* Properties *)

\* The new version has the old one's variables in the same order, the n-th as
\* its match[n]-th, perhaps with others between them, which are kept in storage.
\* Names are those of a dictionary.
Matches(vars1, vars2, equal, match) ==
    /\ \A n, k \in DOMAIN vars1 : n < k => match[n] < match[k]
    /\ \A n \in DOMAIN vars1 : ~ Other(vars1[n], vars2[match[n]], equal)
    /\ \A n \in DOMAIN vars2 :
            vars2[n].kept = "storage" \/ \E k \in DOMAIN vars1 : match[k] = n
    /\ \A n, k \in DOMAIN vars2 : vars2[n].name = vars2[k].name => n = k

BecameFixed(p) == ~ Fixed(p[1]) /\ Fixed(p[2])

\* constant.py:66, "we need to have them out of sync if v2 has additional non
\* constant variables": wherever these are, what was constant is found, and
\* nothing else, as long as no variable has become constant.  What has become
\* constant is found in the part that has no additional variables.
ConstantsReported(vars1, vars2, equal) ==
    \A match \in [DOMAIN vars1 -> DOMAIN vars2] : Matches(vars1, vars2, equal, match) =>
        LET pairs == {<<vars1[n], vars2[match[n]]>> : n \in DOMAIN vars1}
            aligned == \A n \in DOMAIN vars1 : match[n] = n
        IN  /\ (\A p \in pairs : ~ BecameFixed(p)) \/ aligned =>
                    WereConstant(vars1, vars2, equal)
                        = {p \in pairs : Fixed(p[1]) /\ ~ Fixed(p[2])}
            /\ aligned => BecameConstant(vars1, vars2, equal)
                        = {p \in pairs : ~ Fixed(p[1]) /\ p[2].kept = "constant"}

\* The calls that a contract answers by a function of its own.
Answered(members) ==
    {<<m.name, m.canonical>> : m \in {n \in members : n.kind \in {"external", "variable"}}}

\* The calls of the logic contract that do not get to it as the proxy has a
\* function with the same number.
Taken(contract, proxy, number) ==
    {s \in Answered(contract) : \E t \in Answered(proxy) : number[s] = number[t]}

\* What one numbering of the signatures takes for the same, the other does.
Follows(contract, proxy, id, selector) ==
    \A s, t \in Answered(contract) \cup Answered(proxy) : selector[s] = selector[t] => id[s] = id[t]

\* The EVM goes by the selector, four bytes of keccak256, and the checks by an id
\* of their own, four bytes of sha3_256 (slither/utils/function.py:12).  Of two
\* contracts whose signatures are the compiler's, a call that the proxy takes is
\* reported if it is a call of the same function in both, and if not as far as
\* the ids are equal where the selectors are.  What is reported are calls that
\* the ids tell to be taken, and receive functions; the EVM takes them as far as
\* the selectors are equal where the ids are.  And of functions with ids of
\* their own no collision is reported, whatever their selectors are: the check
\* finds none between gsf() and tgeo(), its example (functions_ids.py:71).
IdsReported(contract, proxy, id, selector) ==
    (\A m \in contract \cup proxy :
        IF m.kind = "variable" THEN m.canonical = <<>> ELSE m.types = m.canonical) =>
        \A implem \in BySignature(contract, id), own \in BySignature(proxy, id) :
            LET reported == Collisions(implem, own) \cup Shadowings(implem, own)
                receives == {id[<<m.name, m.types>>] : m \in {n \in contract \cup proxy : n.kind = "receive"}}
                of(calls) == {id[s] : s \in calls}
                taken == Taken(contract, proxy, selector)
                unique == \A s, t \in Answered(contract) \cup Answered(proxy) : id[s] = id[t] => s = t
            IN  /\ of(taken \cap Answered(proxy)) \subseteq reported
                /\ Follows(contract, proxy, id, selector) => of(taken) \subseteq reported
                /\ reported \subseteq of(Taken(contract, proxy, id)) \cup receives
                /\ Follows(contract, proxy, selector, id) => reported \subseteq of(taken) \cup receives
                /\ unique /\ receives = {} => Collisions(implem, own) = {}

=============================================================================
