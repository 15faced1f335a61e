---------------------------- MODULE Upgradeability ----------------------------
(***************************************************************************)
(* The checks of slither-check-upgradeability                              *)
(* (src/slither/slither/tools/upgradeability/checks) on the state          *)
(* variables, functions and initializers of two contracts, and what they   *)
(* take from slither: the variables of a contract with its bases, and      *)
(* their place in storage.                                                 *)
(***************************************************************************)
EXTENDS SlotLayout, UpgradeChecks, FiniteSets, SequencesExt, FiniteSetsExt

(* A type by its name in the source and what it is. *)
Elementary(name, bytes) == [name |-> name, kind |-> "elementary", bytes |-> bytes]
Dynamic(name) == [name |-> name, kind |-> "dynamic"]
Array(name, elem, length) == [name |-> name, kind |-> "array", elem |-> elem, length |-> length]
Struct(name, elems) == [name |-> name, kind |-> "struct", elems |-> elems]
Contract(name) == [name |-> name, kind |-> "contract"]
Enum(name, members) == [name |-> name, kind |-> "enum", members |-> members]

----------------------------------------------------------------------------
(* storage_size *)

RECURSIVE StorageSize(_)

Places(types) == PlacesOf([n \in DOMAIN types |-> StorageSize(types[n])])

\* math.ceil(math.log2(n) / 8)
EnumBytes(n) == IF n = 1 THEN 0 ELSE IF n <= 256 THEN 1 ELSE 2

\* The elements of an array are laid out without regard to slots.
StorageSize(t) ==
    CASE t.kind = "elementary" -> Size(t.bytes, FALSE)
      [] t.kind = "contract" -> Size(20, FALSE)
      [] t.kind = "dynamic" -> Size(SlotBytes, TRUE)
      [] t.kind = "array" -> Size(StorageSize(t.elem).bytes * t.length, TRUE)
      [] t.kind = "enum" -> Size(EnumBytes(t.members), FALSE)
      [] t.kind = "struct" ->
            Size(StructBytes(Places(t.elems).end), TRUE)

----------------------------------------------------------------------------
(* The variables of a contract *)

\* dict.update: a name that is there keeps its position.
Updated(dict, vars) ==
    FoldLeft(LAMBDA d, v :
                IF \E n \in DOMAIN d : d[n].name = v.name
                THEN [n \in DOMAIN d |-> IF d[n].name = v.name THEN v ELSE d[n]]
                ELSE Append(d, v),
             dict, vars)

Added(list, vars) == list \o SelectSeq(vars, LAMBDA v : v \notin ToSet(list))

RECURSIVE StateVariables(_, _), VariablesOrdered(_, _)

\* parse_state_variables, for the dictionary behind state_variables: h has for
\* each contract its bases, in the order of inheritance_reverse, and the
\* variables it declares.
StateVariables(h, c) ==
    Updated(FoldLeft(LAMBDA d, base : Updated(d, StateVariables(h, base)), <<>>, h[c].bases),
            h[c].declares)

\* The same for state_variables_ordered.
VariablesOrdered(h, c) ==
    FoldLeft(LAMBDA l, base : Added(l, VariablesOrdered(h, base)), <<>>, h[c].bases)
        \o h[c].declares

InStorage(vars) == SelectSeq(vars, LAMBDA v : v.kept = "storage")

TypesOf(vars) == [n \in DOMAIN vars |-> vars[n].type]

\* compute_storage_layout
StorageLayout(h, c) == Places(TypesOf(InStorage(VariablesOrdered(h, c)))).place

----------------------------------------------------------------------------
(* variables_order.py: each check is given the variables of two contracts. *)

MissingVariable(vars1, vars2) == MissingFrom(InStorage(vars1), InStorage(vars2))

DifferentVariables(vars1, vars2) == DifferentBetween(InStorage(vars1), InStorage(vars2))

ExtraVariables(vars1, vars2) == ExtraIn(InStorage(vars1), InStorage(vars2))

(* constant.py *)

RECURSIVE EqualTypes(_, _)

\* The types' objects are compared: those the source defines are different
\* ones, as the two versions are compiled each by itself.
EqualTypes(t1, t2) ==
    /\ t1.kind = t2.kind
    /\ CASE t1.kind \in {"elementary", "dynamic"} -> t1.name = t2.name
         [] t1.kind = "array" -> t1.length = t2.length /\ EqualTypes(t1.elem, t2.elem)
         [] OTHER -> FALSE

EqualPairs(vars1, vars2) ==
    {p \in ToSet(TypesOf(vars1)) \X ToSet(TypesOf(vars2)) : EqualTypes(p[1], p[2])}

----------------------------------------------------------------------------
(* initialization.py.  fs has the functions of a contract with its bases: name,
   the contract that declares it, whether it is overridden and implemented,
   whether it has a modifier called initializer, and its internal calls. *)

InitFunctions(fs) ==
    {f \in DOMAIN fs : (fs[f].name = "initialize" \/ fs[f].modified) /\ fs[f].implemented}

RECURSIVE Explored(_, _)

\* _explore_functions
Explored(fs, found) ==
    LET next == UNION {ToSet(fs[f].calls) : f \in found}
    IN  IF next \subseteq found THEN found ELSE Explored(fs, found \cup next)

Occurrences(s, x) == Cardinality({n \in DOMAIN s : s[n] = x})

\* Mistake: only the calls of the function itself are counted.
DirectCallsOf(fs, f, target) == Occurrences(fs[f].calls, target)

\* How often _get_all_internal_calls(f) has the target: each explored function's
\* calls are counted once.
CallsOf(fs, f, target) ==
    IF fs[target].name # "initialize" THEN 0
    ELSE MapThenSumSet(LAMBDA g : Occurrences(fs[g].calls, target), Explored(fs, {f}))

\* _get_most_derived_init; more than one candidate raises MultipleInitTarget
\* unless c declares one.
MostDerivedInit(fs, c) ==
    LET inits == {f \in DOMAIN fs : fs[f].name = "initialize" /\ ~ fs[f].shadowed}
        own == {f \in inits : fs[f].contract = c}
    IN  IF Cardinality(inits) > 1 THEN own ELSE inits

\* Both checks report nothing when there is no such function.
HasInit(fs, c) == Cardinality(MostDerivedInit(fs, c)) = 1

Called(fs, c, f) ==
    \E init \in MostDerivedInit(fs, c) : f = init \/ CallsOf(fs, init, f) > 0

MissingCalls(fs, c) ==
    IF HasInit(fs, c) THEN {f \in InitFunctions(fs) : ~ Called(fs, c, f)} ELSE {}

MultipleCalls(fs, c) ==
    IF HasInit(fs, c)
    THEN LET init == CHOOSE f \in MostDerivedInit(fs, c) : TRUE
         IN  {f \in DOMAIN fs : CallsOf(fs, init, f) + (IF f = init THEN 1 ELSE 0) > 1}
    ELSE {}

----------------------------------------------------------------------------
(* Properties *)

\* Solidity's layout: an array has as many elements in a slot as fit.
RECURSIVE SoliditySize(_)

SolidityPlaces(types) == SolidityPlacesOf([n \in DOMAIN types |-> SoliditySize(types[n])])

SoliditySize(t) ==
    CASE t.kind = "enum" -> Size(IF t.members <= 256 THEN 1 ELSE 2, FALSE)
      [] t.kind = "struct" -> Size(AtSlot(SolidityPlaces(t.elems).end), TRUE)
      [] t.kind = "array" ->
            LET elem == SoliditySize(t.elem)
                perSlot == SlotBytes \div elem.bytes
            IN  IF elem.newSlot \/ perSlot = 0 THEN Size(elem.bytes * t.length, TRUE)
                ELSE Size(SlotBytes * ((t.length + perSlot - 1) \div perSlot), TRUE)
      [] OTHER -> StorageSize(t)

\* The types whose size slither has: no array of elements that leave a part of a
\* slot unused, and no enum with a single member.
RECURSIVE Sized(_)
Sized(t) ==
    CASE t.kind = "array" ->
            Sized(t.elem) /\ (SoliditySize(t.elem).newSlot \/ SlotBytes % SoliditySize(t.elem).bytes = 0)
      [] t.kind = "struct" -> \A n \in DOMAIN t.elems : Sized(t.elems[n])
      [] t.kind = "enum" -> t.members > 1
      [] OTHER -> TRUE

\* Variables, elements of structs and arrays of any mixture of sized types are
\* where the compiler puts them (compilation_unit.py:247).
LayoutRight(types) ==
    (\A n \in DOMAIN types : Sized(types[n])) =>
        LET code == Places(types)
            sol == SolidityPlaces(types)
        IN  \A n \in DOMAIN types :
                SlotBytes * code.place[n].slot + code.place[n].offset = sol.place[n]

\* Every base's variables have names of their own.
NamesDiffer(h, c) ==
    \A v, w \in ToSet(VariablesOrdered(h, c)) : v.name = w.name => v = w

\* A variable that both versions have, by its name.
Shared(vars1, vars2, v, w) ==
    v \in ToSet(vars1) /\ w \in ToSet(vars2) /\ v.name = w.name

PlaceOf(vars, v) ==
    SolidityPlaces(TypesOf(vars)).place[CHOOSE n \in DOMAIN vars : vars[n] = v]

\* When neither MissingVariable nor DifferentVariables reports anything, all
\* variables of the old version are in the new one and at the same place in
\* storage.
KeepsStorage(h1, c1, h2, c2) ==
    LET vars1 == InStorage(VariablesOrdered(h1, c1))
        vars2 == InStorage(VariablesOrdered(h2, c2))
        silent == MissingVariable(StateVariables(h1, c1), StateVariables(h2, c2)) = {}
                    /\ DifferentVariables(StateVariables(h1, c1), StateVariables(h2, c2)) = {}
    IN  silent => \A n \in DOMAIN vars1 :
            /\ n \in DOMAIN vars2 /\ vars1[n].name = vars2[n].name
            /\ PlaceOf(vars1, vars1[n]) = PlaceOf(vars2, vars2[n])

\* The structs and enums of one name are the same.
TypesAgree(h1, c1, h2, c2) ==
    \A v \in ToSet(VariablesOrdered(h1, c1)), w \in ToSet(VariablesOrdered(h2, c2)) :
        v.type.name = w.type.name => v.type = w.type

\* An upgrade about which the checks on the order of variables say nothing keeps
\* the storage, when no base shadows another's variable and types keep their
\* definitions.
SilentUpgradeKeeps(h1, c1, h2, c2) ==
    NamesDiffer(h1, c1) /\ NamesDiffer(h2, c2) /\ TypesAgree(h1, c1, h2, c2) =>
        KeepsStorage(h1, c1, h2, c2)

\* The variables "in the proxy and not in the contract" (variables_order.py:207)
\* of a proxy that has the contract's in front: as the first index is
\* len(order2) - len(order1) (:253), they are what is reported only if the proxy
\* has twice as many.  If it has fewer, shared ones are reported besides; if it
\* has more, some are missing.
ExtraReported(vars1, vars2) ==
    LET order1 == InStorage(vars1)
        order2 == InStorage(vars2)
        extra == {order2[n] : n \in (Len(order1) + 1)..Len(order2)}
        reported == ExtraVariables(vars1, vars2)
        prefix == Len(order1) < Len(order2) /\ DifferentVariables(vars1, vars2) = {}
    IN  prefix =>
            /\ extra \subseteq reported <=> Len(order2) <= 2 * Len(order1)
            /\ reported \subseteq extra <=> Len(order2) >= 2 * Len(order1)

RECURSIVE Executions(_, _, _)

\* How often f runs when root runs, and every call in it.
Executions(fs, root, f) ==
    (IF f = root THEN 1 ELSE 0)
        + FoldLeft(LAMBDA n, g : n + Executions(fs, g, f), 0, fs[root].calls)

\* What MissingCalls does not report runs when the contract is initialized; what
\* MultipleCalls reports runs more than once; and if it reports nothing no
\* initialize runs twice, unless a function of another name is called from two
\* places.
InitializersRight(fs, c) ==
    HasInit(fs, c) =>
        LET init == CHOOSE f \in MostDerivedInit(fs, c) : TRUE
            times(f) == Executions(fs, init, f)
            helpers == {f \in DOMAIN fs : fs[f].name # "initialize"}
            places(f) == MapThenSumSet(LAMBDA g : Occurrences(fs[g].calls, f), DOMAIN fs)
        IN  /\ \A f \in InitFunctions(fs) \ MissingCalls(fs, c) : times(f) > 0
            /\ \A f \in MultipleCalls(fs, c) : times(f) > 1
            /\ (MultipleCalls(fs, c) = {} /\ \A f \in helpers : places(f) <= 1)
                    => \A f \in DOMAIN fs \ helpers : times(f) <= 1

=============================================================================
