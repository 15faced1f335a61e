---------------------------- MODULE MCAlgorithms ----------------------------
(* The sequential parts, one at a time: Algorithms on small inputs, EvmMemory,
   ControlFlow, BackwardAnalyzer, Dominators, SourceTree and CommandLine. *)
EXTENDS Algorithms, EvmMemory, ControlFlow, BackwardAnalyzer, Dominators, SourceTree,
        CommandLine, TLC

MCSources == {<<1>>, <<1, 0, 1>>}

SeqsUpTo(elems, n) == UNION {[1..k -> elems] : k \in 0..n}

----------------------------------------------------------------------------
Entry(name, operand) == [name |-> name, operand |-> operand]

MCTable ==
    0 :> Entry("STOP", 0) @@ 1 :> Entry("PUSH", 1) @@ 2 :> Entry("PC", 0)
        @@ 3 :> Entry("JUMPDEST", 0) @@ 4 :> Entry("JUMPI", 0) @@ 5 :> Entry("JUMP", 0)
        @@ 6 :> Entry("PUSH", 2)

\* All codes of up to five bytes; and those that push a condition and an
\* address, behind a JUMPDEST or before one.
MCCodes ==
    (SeqsUpTo(DOMAIN MCTable, 5) \ {<<>>})
        \cup UNION {{<<3, 1, c, 1, a, b>>, <<1, c, 1, a, b, 3>>} :
                        c \in {0, 1}, a \in DOMAIN MCTable, b \in DOMAIN MCTable}

----------------------------------------------------------------------------
Push(v) == Instr("PUSH", 1, v)
Bare(name) == Instr(name, 0, 0)

Copies == {Instr(name, n, 0) : name \in {"DUP", "SWAP"}, n \in {1, 2}}
Few == {Push(1), Push(2), Bare("POP"), Bare("SLOAD")} \cup Copies
Many == Few \cup {Bare("SHA3"), Bare("CALLER"), Bare("ADD"), Bare("JUMPDEST")}

NoBlocks(c) == [code |-> c, incoming |-> [pc \in DOMAIN c |-> {}]]

\* Codes of up to three instructions, or four of the plainer ones, and an access,
\* where no block leads to a JUMPDEST; those of three and an SLOAD in which any
\* block leads to each; and a proxy with one or two logic contracts.
MCChecks ==
    {<<NoBlocks(Append(c, Bare(access)))>> :
        c \in SeqsUpTo(Many, 3) \cup [1..4 -> Few], access \in Accesses}
    \cup {<<[code |-> Append(c, Bare("SLOAD")),
             incoming |-> [pc \in 1..4 |-> IF pc <= 3 /\ c[pc].name = "JUMPDEST" THEN leading ELSE {}]]>> :
                c \in [1..3 -> {Push(1), Bare("POP"), Bare("JUMPDEST")}], leading \in SUBSET (1..3)}
    \cup {[n \in 1..k |-> NoBlocks(<<Instr("PUSH", 4, v[n]), Push(n), Bare("SLOAD")>>)] :
                k \in {2, 3}, v \in [1..3 -> {1, 2, MaxSelector}]}

----------------------------------------------------------------------------
MCNames == {"@", "k", "m", "n", "p", "X", "Y"}

MCRemappings ==
    {Remapping(f, slash, t) :
        f \in {<<"@">>, <<"@", "k">>, <<"m">>}, slash \in BOOLEAN,
        t \in {<<"n">>, <<"n", "k">>, <<"m">>, <<"p">>}}

MCPaths ==
    {<<"n", "X">>, <<"n", "k", "X">>, <<"m", "Y">>, <<"p", "k", "X">>, <<"@", "X">>}

MCDownloads ==
    [names |-> {"Y"},
     sources |-> {s \in SeqsUpTo(MCPaths, 2) \ {<<>>} : IsInjective(s)},
     remappings |-> SeqsUpTo({r \in MCRemappings : r.slash \/ r.from = <<"@">>}, 2)]

----------------------------------------------------------------------------
Lines(tokens, n) == SeqsUpTo(SeqsUpTo(tokens, 2), n) \cup SeqsUpTo(SeqsUpTo(tokens, 3), n - 1)

\* A contract has no base, one or two.
MCContracts ==
    LET names == {"A", "B", "C"}
        bases == {F!Base(n, FALSE) : n \in names}
    IN  {F!Contract(c, brace, <<>>) : c \in names, brace \in BOOLEAN}
        \cup {F!Contract(c, FALSE, <<F!Base(n, args)>>) : c \in names, n \in names, args \in BOOLEAN}
        \cup {F!Contract(c, FALSE, <<b, d>>) : c \in names, b \in bases, d \in bases}

MCFiles ==
    [comments |-> Lines({"/*", "*/", "//", F!Quote}, 3)
                    \cup {<<l, <<"w">>>> : l \in SeqsUpTo({"/*", "*/", "//", F!Quote, F!Blank, "w"}, 5)},
     code |-> Lines({"{", "}", ";", F!Blank}, 3),
     contracts |-> SeqsUpTo(MCContracts, 3)]

----------------------------------------------------------------------------
Word32 == U!Elementary("uint256", 32)
Half == U!Elementary("uint128", 16)
AddressType == U!Elementary("address", 20)
Third == U!Elementary("uint96", 12)

MCTypes ==
    {Word32, Half, AddressType, U!Dynamic("string"), U!Contract("Token"), U!Enum("One", 1),
     U!Enum("Two", 2), U!Enum("Many", 300), U!Array("address[3]", AddressType, 3),
     U!Array("uint128[3]", Half, 3), U!Struct("Pair", <<AddressType, Half>>),
     U!Array("Pair[2]", U!Struct("Pair", <<AddressType, Half>>), 2),
     U!Struct("Mixed", <<U!Enum("Two", 2), U!Array("uint128[3]", Half, 3), Third>>)}

MCTypeLists == SeqsUpTo(MCTypes, 3)

----------------------------------------------------------------------------
\* C's variables, and those of its base A.
OwnPool ==
    {U!Variable("x", AddressType, "storage", "C"), U!Variable("y", Half, "storage", "C"),
     U!Variable("x", Half, "storage", "C"), U!Variable("k", AddressType, "constant", "C"),
     U!Variable("y", Half, "constant", "C"), U!Variable("x", AddressType, "immutable", "C"),
     U!Variable("gap", Word32, "storage", "C")}

BasePool == {U!Variable("gap", Word32, "storage", "A"), U!Variable("a", Half, "storage", "A")}

Unique(s) == \A i, k \in DOMAIN s : i # k => s[i].name # s[k].name

Own(n) == {s \in SeqsUpTo(OwnPool, n) : Unique(s)}

Hierarchies(n) ==
    {"A" :> [bases |-> <<>>, declares |-> base] @@ "C" :> [bases |-> <<"A">>, declares |-> own] :
        base \in SeqsUpTo(BasePool, 1), own \in Own(n)}

MCUpgrades == [old |-> Hierarchies(2), new |-> Hierarchies(3)]

----------------------------------------------------------------------------
\* C's initialize may call those of its bases A and B and another function h;
\* B's may call A's and h, and h may call A's.
Function(name, contract, shadowed, modified, callees) ==
    [name |-> name, contract |-> contract, shadowed |-> shadowed, modified |-> modified,
     implemented |-> TRUE, calls |-> callees]

MCInitializers ==
    {"c" :> Function("initialize", c, FALSE, TRUE, cCalls)
        @@ "b" :> Function("initialize", "B", b, FALSE, bCalls)
        @@ "a" :> Function("initialize", "A", TRUE, FALSE, <<>>)
        @@ "h" :> Function("setUp", "B", FALSE, h, hCalls) :
            c \in {"C", "D"}, b \in BOOLEAN, h \in BOOLEAN,
            cCalls \in SeqsUpTo({"a", "b", "h"}, 3), bCalls \in SeqsUpTo({"a", "h"}, 2),
            hCalls \in SeqsUpTo({"a"}, 2)}

----------------------------------------------------------------------------
\* Three functions, a getter and the special functions.
MCMembers ==
    {U!Member("external", "f", <<>>, <<>>), U!Member("external", "g", <<"T">>, <<"T">>),
     U!Member("external", "h", <<>>, <<>>), U!Member("variable", "f", <<>>, <<>>),
     U!Member("internal", "h", <<>>, <<>>), U!Member("fallback", "", <<>>, <<>>),
     U!Member("receive", "receive", <<>>, <<>>)}

\* Any of the three functions have the same number.
MCNumbers ==
    {[s \in {<<m.name, m.types>> : m \in MCMembers} |->
        IF s[1] \in DOMAIN n THEN n[s[1]] ELSE 4] :
            n \in {n \in [{"f", "g", "h"} -> 1..3] : n["f"] = 1 /\ n["g"] <= 2}}

\* That of receive() may be f's, for the ids.
MCIdentified ==
    [contracts |-> {c \in SUBSET MCMembers : Cardinality(c) <= 3},
     proxies |-> {c \in SUBSET MCMembers : Cardinality(c) <= 2},
     ids |-> MCNumbers \cup {[n EXCEPT ![<<"receive", <<>>>>] = 1] : n \in MCNumbers},
     selectors |-> MCNumbers]

----------------------------------------------------------------------------
Step(kind) == G!Plain(kind)

\* Statements with blocks of at most one statement, and with blocks of two.
Simple(kinds) == {Step(k) : k \in kinds}

Branches(parts) ==
    {G!Compound(k, <<b>>) : k \in {"if", "while", "do"}, b \in parts}
        \cup {G!For(c, p, b) : c \in BOOLEAN, p \in BOOLEAN, b \in parts}
        \cup {G!Compound(k, <<<<Step("expression")>>, b>>) : k \in {"if", "try"}, b \in parts}

Jumps == {"break", "continue", "return"}

Inner == Simple(Jumps \cup {"expression"}) \cup Branches(SeqsUpTo(Simple(Jumps), 1))

Outer == Branches(SeqsUpTo(Inner, 1) \cup {<<i, s>> : i \in Inner, s \in Simple(Jumps)})
            \cup Branches(SeqsUpTo(Simple({"choice", "break"}), 2))

RECURSIVE InLoops(_, _)

\* The compiler accepts break and continue in loops only.
InLoops(block, loop) ==
    \A n \in DOMAIN block :
        /\ block[n].kind \in {"break", "continue"} => loop
        /\ \A b \in DOMAIN block[n].blocks :
                InLoops(block[n].blocks[b], loop \/ block[n].kind \in {"for", "while", "do"})

MCFunctions ==
    {[body |-> b, modifiers |-> <<>>] :
        b \in {<<s, Step("expression")>> : s \in {t \in Outer : InLoops(<<t>>, FALSE)}}}
    \cup {[body |-> b, modifiers |-> m] :
        b \in SeqsUpTo(Simple({"expression", "return", "choice", "returnChoice"}), 2),
        m \in SeqsUpTo({"base", "modifier"}, 3)}

----------------------------------------------------------------------------
\* The nodes that are left of a function's graph, numbered anew; only IF and
\* ENDIF are told apart.
FlowGraph(g) ==
    LET left == G!Kept(g)
        number == [n \in ToSet(left) |-> CHOOSE k \in DOMAIN left : left[k] = n]
        type(n) == IF g.type[n] \in {"IF", "ENDIF"} THEN g.type[n] ELSE "OTHER"
    IN  [type |-> [k \in DOMAIN left |-> type(left[k])],
         fathers |-> [k \in DOMAIN left |->
                        [j \in DOMAIN g.fathers[left[k]] |-> number[g.fathers[left[k]][j]]]]]

\* The smaller graphs of the functions, and all graphs of four nodes with an
\* entry, loops and nodes that cannot be reached included.
MCFlowGraphs ==
    {g \in {FlowGraph(h) : h \in {i \in {G!Analyzed(f) : f \in MCFunctions} : ~ G!HasRaised(i)}} :
        Len(g.type) <= 7}
    \cup {[type |-> <<"OTHER", "IF", "OTHER", "ENDIF">>,
            fathers |-> [n \in 1..4 |-> SetToSortSeq(f[n], <)]] :
                f \in {h \in [1..4 -> SUBSET (1..4)] : h[1] = {}}}

----------------------------------------------------------------------------
\* For the runs that ask one question.
NothingIdentified == [contracts |-> {}, proxies |-> {}, ids |-> {}, selectors |-> {}]
NoDownloads == [names |-> {}, sources |-> {}, remappings |-> {}]
NoFiles == [comments |-> {}, code |-> {}, contracts |-> {}]
NoUpgrades == [old |-> {}, new |-> {}]

\* CommandLine treats all addresses alike, and nothing else has any.
Symmetry == Permutations(Address)

MCInit == Init /\ RunInit /\ SearchInit /\ DomInit /\ SaveInit /\ task = Waiting /\ CommandInit

\* Which of them nothing has happened in yet.
Idle(others) ==
    /\ "memory" \in others => instr.op = "none"
    /\ "run" \in others => stage = "idle"
    /\ "search" \in others => contracts = <<>>
    /\ "dominators" \in others => phase = "idle"
    /\ "save" \in others => saving = "idle"
    /\ "task" \in others => task = Waiting
    /\ "command" \in others => step = "idle"

Parts == {"memory", "run", "search", "dominators", "save", "task", "command"}

MCNext ==
    \/ /\ Idle(Parts \ {"memory"}) /\ Next
       /\ UNCHANGED <<runVars, searchVars, domVars, saveVars, task, commandVars>>
    \/ /\ Idle(Parts \ {"run"}) /\ RunNext
       /\ UNCHANGED <<vars, searchVars, domVars, saveVars, task, commandVars>>
    \/ /\ Idle(Parts \ {"search"}) /\ SearchNext
       /\ UNCHANGED <<vars, runVars, domVars, saveVars, task, commandVars>>
    \/ /\ Idle(Parts \ {"dominators"}) /\ DomNext
       /\ UNCHANGED <<vars, runVars, searchVars, saveVars, task, commandVars>>
    \/ /\ Idle(Parts \ {"save"}) /\ SaveNext
       /\ UNCHANGED <<vars, runVars, searchVars, domVars, task, commandVars>>
    \/ /\ Idle(Parts \ {"task"}) /\ Algorithm
       /\ UNCHANGED <<vars, runVars, searchVars, domVars, saveVars, commandVars>>
    \/ /\ Idle(Parts \ {"command"}) /\ CommandNext
       /\ UNCHANGED <<vars, runVars, searchVars, domVars, saveVars, task>>

MCSpec == MCInit /\ [][MCNext]_<<vars, runVars, searchVars, domVars, saveVars, task, commandVars>>

=============================================================================
