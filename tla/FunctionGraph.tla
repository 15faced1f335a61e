---------------------------- MODULE FunctionGraph ----------------------------
(***************************************************************************)
(* The control flow graph that slither makes of a function's statements    *)
(* (FunctionSolc).  All that its checks say about a function is said about *)
(* the nodes of this graph.                                                *)
(* A node is a number, in the order of creation; sons and fathers are      *)
(* sequences, because the searches depend on their order.                  *)
(***************************************************************************)
EXTENDS Integers, Sequences, FiniteSets, SequencesExt

(* Statements: a "choice" is an expression with ?:, a "returnChoice" returns one.
   The statements of a function are told apart by their paths, which alternate
   between the number of a block and that of a statement. *)
Plain(kind) == [kind |-> kind, blocks |-> <<>>, condition |-> FALSE, post |-> FALSE]
Compound(kind, blocks) == [Plain(kind) EXCEPT !.blocks = blocks]
For(condition, post, body) ==
    [kind |-> "for", blocks |-> <<body>>, condition |-> condition, post |-> post]

----------------------------------------------------------------------------
(* Nodes and edges *)

\* at: the node that what is parsed next is linked to; ternary: the nodes with ?:.
Empty == [type |-> <<"ENTRYPOINT">>, path |-> <<<<>>>>, sons |-> <<<<>>>>, fathers |-> <<<<>>>>,
          at |-> 1, ternary |-> {}]

Nodes(g) == DOMAIN g.type

NewNode(g, type, path) ==
    [type |-> Append(g.type, type), path |-> Append(g.path, path), ternary |-> g.ternary,
     sons |-> Append(g.sons, <<>>), fathers |-> Append(g.fathers, <<>>), at |-> Len(g.type) + 1]

Link(g, a, b) ==
    [g EXCEPT !.sons[a] = Append(@, b), !.fathers[b] = Append(@, a)]

\* A node behind the last one.
Behind(g, type, path) == LET h == NewNode(g, type, path) IN Link(h, g.at, h.at)

RemoveFather(g, node, father) ==
    [g EXCEPT !.fathers[node] = SelectSeq(@, LAMBDA f : f # father)]

\* The node's edges are replaced by edges to sons.
Redirected(g, node, sons) ==
    LET cut == FoldLeft(LAMBDA h, s : RemoveFather(h, s, node), g, g.sons[node])
    IN  FoldLeft(LAMBDA h, s : Link(h, node, s), [cut EXCEPT !.sons[node] = <<>>], sons)

----------------------------------------------------------------------------
(* _parse_statement and what it calls: at of the result is the node that the
   next statement is linked to. *)

RECURSIVE ParseBlock(_, _, _, _)

\* _parse_if
ParseIf(g, s, path) ==
    LET if == Behind(g, "IF", path)
        then == ParseBlock(if, s.blocks[1], path, 1)
        else == IF Len(s.blocks) = 2
                THEN ParseBlock([then EXCEPT !.at = if.at], s.blocks[2], path, 2)
                ELSE [then EXCEPT !.at = if.at]
        end == NewNode(else, "ENDIF", path)
    IN  Link(Link(end, then.at, end.at), else.at, end.at)

\* _parse_while
ParseWhile(g, s, path) ==
    LET start == NewNode(g, "STARTLOOP", path)
        condition == NewNode(start, "IFLOOP", path)
        body == ParseBlock(condition, s.blocks[1], path, 1)
        end == NewNode(body, "ENDLOOP", path)
        entered == Link(Link(end, g.at, start.at), start.at, condition.at)
    IN  Link(Link(entered, body.at, condition.at), condition.at, end.at)

\* _parse_for, whose initialization is a statement before it: the end is made
\* before the condition.
ParseFor(g, s, path) ==
    LET start == NewNode(g, "STARTLOOP", path)
        made == NewNode(start, "ENDLOOP", path)
        end == made.at
        entered == Link(made, g.at, start.at)
        condition == IF s.condition
                     THEN Behind([entered EXCEPT !.at = start.at], "IFLOOP", path)
                     ELSE [entered EXCEPT !.at = start.at]
        body == ParseBlock(condition, s.blocks[1], path, 1)
        post == IF s.post THEN Behind(body, "EXPRESSION", Append(path, 0)) ELSE body
        closed == Link(post, post.at, condition.at)
    IN  [Link(closed, condition.at, end) EXCEPT !.at = end]

\* _parse_dowhile: the body is parsed behind the condition, and the start is
\* linked to the condition's first son.
ParseDoWhile(g, s, path) ==
    LET start == NewNode(g, "STARTLOOP", path)
        condition == NewNode(start, "IFLOOP", path)
        body == ParseBlock(condition, s.blocks[1], path, 1)
        end == NewNode(body, "ENDLOOP", path)
        first == IF end.sons[condition.at] = <<>> THEN condition.at ELSE end.sons[condition.at][1]
        entered == Link(Link(end, g.at, start.at), start.at, first)
    IN  Link(Link(entered, body.at, condition.at), condition.at, end.at)

\* _parse_try_catch: the clauses' ends are not linked to anything.
ParseTry(g, s, path) ==
    LET try == Behind(g, "TRY", path)
        clause(h, n) == ParseBlock(Behind([h EXCEPT !.at = try.at], "CATCH", Append(path, n)),
                                   s.blocks[n], path, n)
    IN  [FoldLeft(clause, try, [n \in DOMAIN s.blocks |-> n]) EXCEPT !.at = try.at]

WithTernary(g) == [g EXCEPT !.ternary = @ \cup {g.at}]

ParseStatement(g, s, path) ==
    CASE s.kind = "if" -> ParseIf(g, s, path)
      [] s.kind = "while" -> ParseWhile(g, s, path)
      [] s.kind = "for" -> ParseFor(g, s, path)
      [] s.kind = "do" -> ParseDoWhile(g, s, path)
      [] s.kind = "try" -> ParseTry(g, s, path)
      [] s.kind = "continue" -> Behind(g, "CONTINUE", path)
      [] s.kind = "break" -> Behind(g, "BREAK", path)
      [] s.kind = "return" -> Behind(g, "RETURN", path)
      [] s.kind = "expression" -> Behind(g, "EXPRESSION", path)
      [] s.kind = "choice" -> WithTernary(Behind(g, "EXPRESSION", path))
      [] s.kind = "returnChoice" -> WithTernary(Behind(g, "RETURN", path))

\* _parse_block: the n-th block of the statement at path.
ParseBlock(g, block, path, n) ==
    FoldLeft(LAMBDA h, k : ParseStatement(h, block[k], path \o <<n, k>>), g,
             [k \in DOMAIN block |-> k])

----------------------------------------------------------------------------
(* _remove_incorrect_edges *)

NoNode == 0
FirstFound(found) == IF \E k \in DOMAIN found : found[k] # NoNode
                     THEN found[CHOOSE k \in DOMAIN found :
                                    found[k] # NoNode /\ \A j \in 1..(k - 1) : found[j] = NoNode]
                     ELSE NoNode

RECURSIVE FindEndLoop(_, _, _, _)

\* counter: the loops entered on the way.
FindEndLoop(g, node, visited, counter) ==
    LET type == g.type[node]
        deeper == CASE type = "ENDLOOP" -> counter - 1
                    [] type = "STARTLOOP" -> counter + 1
                    [] OTHER -> counter
    IN  IF node \in visited THEN NoNode
        ELSE IF type = "ENDLOOP" /\ counter = 0 THEN node
        ELSE FirstFound([k \in DOMAIN g.sons[node] |->
                            FindEndLoop(g, g.sons[node][k], visited \cup {node}, deeper)])

RECURSIVE FindStartLoop(_, _, _)
FindStartLoop(g, node, visited) ==
    IF node \in visited THEN NoNode
    ELSE IF g.type[node] = "STARTLOOP" THEN node
    ELSE FirstFound([k \in DOMAIN g.fathers[node] |->
                        FindStartLoop(g, g.fathers[node][k], visited \cup {node})])

\* Mistake: a loop whose start is met first has no end.
BreaksToFirst(g, node) == FindEndLoop(g, node, {}, 0)

\* A second search is for loops whose start is met first.
BreaksTo(g, node) ==
    LET end == FindEndLoop(g, node, {}, 0)
    IN  IF end # NoNode THEN end ELSE FindEndLoop(g, node, {}, -1)

ContinuesAt(g, node) == FindStartLoop(g, node, {})

\* The nodes of the clause at node, as _fix_catch goes through them.
RECURSIVE Reached(_, _, _)
Reached(g, nodes, avoided) ==
    LET more == nodes \cup (UNION {ToSet(g.sons[n]) : n \in nodes} \ {avoided})
    IN  IF more = nodes THEN nodes ELSE Reached(g, more, avoided)

\* _fix_catch follows a loop in a clause without end: RecursionError.
Endless(g, node, end) ==
    \E n \in Reached(g, {node}, end) :
        n \in Reached(g, ToSet(g.sons[n]) \ {end}, end)

RECURSIVE FixCatch(_, _, _)
FixCatch(g, node, end) ==
    IF g.sons[node] = <<>> THEN Link(g, node, end)
    ELSE FoldLeft(LAMBDA h, s : IF s = end THEN h ELSE FixCatch(h, s, end), g, g.sons[node])

Raised == [Empty EXCEPT !.type = <<"RAISED">>]
HasRaised(g) == g.type = <<"RAISED">>

\* _fix_try: the statement behind is the first son that is no CATCH.
FixTry(g, node) ==
    LET behind == SelectSeq(g.sons[node], LAMBDA s : g.type[s] # "CATCH")
        clauses == SelectSeq(g.sons[node], LAMBDA s : g.type[s] = "CATCH")
    IN  IF behind = <<>> THEN g
        ELSE IF \E k \in DOMAIN clauses : Endless(g, clauses[k], behind[1]) THEN Raised
        ELSE FoldLeft(LAMBDA h, c : FixCatch(h, c, behind[1]), g, clauses)

FixedNode(g, node) ==
    IF HasRaised(g) THEN g
    ELSE CASE g.type[node] = "RETURN" -> Redirected(g, node, <<>>)
           [] g.type[node] = "BREAK" ->
                LET end == BreaksTo(g, node)
                IN  IF end = NoNode THEN Raised ELSE Redirected(g, node, <<end>>)
           [] g.type[node] = "CONTINUE" ->
                LET start == ContinuesAt(g, node)
                IN  IF start = NoNode THEN Raised ELSE Redirected(g, node, <<start>>)
           [] g.type[node] = "TRY" -> FixTry(g, node)
           [] OTHER -> g

\* An edge from the start of a loop to its end is dropped unless nothing but
\* the start itself is left.
Pruned(g, node) ==
    LET kept == SelectSeq(g.sons[node], LAMBDA s : g.type[s] # "ENDLOOP")
    IN  IF HasRaised(g) \/ g.type[node] # "STARTLOOP" \/ ToSet(kept) \subseteq {node} THEN g
        ELSE LET cut == FoldLeft(LAMBDA h, s : IF g.type[s] = "ENDLOOP" THEN RemoveFather(h, s, node) ELSE h,
                                 g, g.sons[node])
             IN  [cut EXCEPT !.sons[node] = kept]

----------------------------------------------------------------------------
(* _remove_alone_endif goes through the nodes once: the view of the dictionary
   it compares with is always up to date.  Inner ENDIFs are made first. *)

RemovedAlone(g, node) ==
    IF g.type[node] = "ENDIF" /\ g.fathers[node] = <<>>
    THEN [Redirected(g, node, <<>>) EXCEPT !.type[node] = "REMOVED"]
    ELSE g

Creation(g) == [n \in Nodes(g) |-> n]

\* All nodes, in the order of creation.
ForEach(Do(_, _), g) == FoldLeft(Do, g, Creation(g))

WithoutAlone(g) == ForEach(RemovedAlone, g)

\* function.nodes
Kept(g) == SelectSeq(Creation(g), LAMBDA n : g.type[n] # "REMOVED")

\* _parse_cfg
ParseCfg(body) == WithoutAlone(ForEach(Pruned, ForEach(FixedNode, ParseBlock(Empty, body, <<>>, 1))))

----------------------------------------------------------------------------
(* Modifiers and calls of base constructors, and ?: *)

\* insert_node
Inserted(g, origin, node) ==
    LET linked == Link([g EXCEPT !.sons[origin] = <<>>], origin, node)
    IN  FoldLeft(LAMBDA h, s : Link(RemoveFather(h, s, origin), node, s), linked, g.sons[origin])

\* _parse_modifier: behind the entry point, or the last one of its kind.
ParseModifier(m, k, kinds) ==
    LET h == NewNode(m.graph, "EXPRESSION", <<0, k>>)
        origin == m.latest[kinds[k]]
    IN  [graph |-> Inserted(h, origin, h.at), latest |-> [m.latest EXCEPT ![kinds[k]] = h.at]]

ParseModifiers(g, kinds) ==
    FoldLeft(LAMBDA m, k : ParseModifier(m, k, kinds),
             [graph |-> g, latest |-> [kind \in {"modifier", "base"} |-> 1]],
             [k \in DOMAIN kinds |-> k]).graph

\* _split_ternary_node: an IF with the two expressions takes the node's place.
SplitTernary(g, node) ==
    LET type == g.type[node]
        path == g.path[node]
        if == NewNode(g, "IF", path)
        true == NewNode(if, type, Append(path, 1))
        false == NewNode(true, type, Append(path, 2))
        end == NewNode(false, "ENDIF", path)
        entered == FoldLeft(LAMBDA h, f : Link([h EXCEPT !.sons[f] = SelectSeq(@, LAMBDA n : n # node)],
                                               f, if.at),
                            end, g.fathers[node])
        left == FoldLeft(LAMBDA h, n : Link(RemoveFather(h, n, node), end.at, n), entered, g.sons[node])
        split == Link(Link(left, if.at, true.at), if.at, false.at)
        joined == IF type = "RETURN" THEN split
                  ELSE Link(Link(split, true.at, end.at), false.at, end.at)
    IN  [joined EXCEPT !.type[node] = "REMOVED", !.sons[node] = <<>>, !.fathers[node] = <<>>]

FilterTernary(g) ==
    ForEach(LAMBDA h, n : IF n \in g.ternary THEN SplitTernary(h, n) ELSE h, g)

WithModifiers(cfg, modifiers) ==
    IF HasRaised(cfg) THEN cfg ELSE WithoutAlone(FilterTernary(ParseModifiers(cfg, modifiers)))

\* analyze_content
Analyzed(function) == WithModifiers(ParseCfg(function.body), function.modifiers)

----------------------------------------------------------------------------
(* What the statements mean: which statement or condition may be next.  next,
   break and continue are the labels of what follows. *)

Exit == <<0>>

RECURSIVE FirstOfBlock(_, _, _, _, _, _)

\* What a statement begins with.
FirstOf(s, path, next, break, continue) ==
    LET body(after, leave, again) == FirstOfBlock(s.blocks[1], Append(path, 1), 1, after, leave, again)
        post == {Append(path, 0)}
    IN  CASE s.kind = "break" -> break
          [] s.kind = "continue" -> continue
          [] s.kind = "do" -> body({path}, next, {path})
          [] s.kind = "for" /\ ~ s.condition ->
                IF s.post THEN body(post, next, post) ELSE body({}, next, {})
          [] OTHER -> {path}

\* path ends with the number of the block.
FirstOfBlock(block, path, n, next, break, continue) ==
    IF n > Len(block) THEN next
    ELSE FirstOf(block[n], Append(path, n),
                 FirstOfBlock(block, path, n + 1, next, break, continue), break, continue)

RECURSIVE FlowOfBlock(_, _, _, _, _, _)

FlowOf(s, path, next, break, continue) ==
    LET block(k, after, leave, again) ==
            FlowOfBlock(s.blocks[k], Append(path, k), 1, after, leave, again)
        first(k, after, leave, again) ==
            FirstOfBlock(s.blocks[k], Append(path, k), 1, after, leave, again)
        all == UNION {block(k, next, break, continue) : k \in DOMAIN s.blocks}
        firsts == UNION {first(k, next, break, continue) : k \in DOMAIN s.blocks}
        begin == FirstOf(s, path, next, break, continue)
        again == IF s.post THEN {Append(path, 0)} ELSE begin
    IN  CASE s.kind \in {"break", "continue"} -> {}
          [] s.kind = "return" -> {<<path, Exit>>}
          [] s.kind = "expression" -> {path} \X next
          [] s.kind \in {"choice", "returnChoice"} ->
                LET ends == {Append(path, 1), Append(path, 2)}
                IN  ({path} \X ends) \cup (ends \X (IF s.kind = "choice" THEN next ELSE {Exit}))
          [] s.kind = "if" ->
                all \cup ({path} \X (firsts \cup (IF Len(s.blocks) = 1 THEN next ELSE {})))
          [] s.kind = "try" -> all \cup ({path} \X firsts)
          [] s.kind = "while" ->
                block(1, {path}, next, {path})
                    \cup ({path} \X (next \cup first(1, {path}, next, {path})))
          [] s.kind = "do" ->
                block(1, {path}, next, {path}) \cup ({path} \X (next \cup begin))
          [] s.kind = "for" ->
                block(1, again, next, again)
                    \cup (IF s.post THEN {Append(path, 0)} \X begin ELSE {})
                    \cup (IF s.condition THEN {path} \X (next \cup first(1, again, next, again)) ELSE {})

FlowOfBlock(block, path, n, next, break, continue) ==
    IF n > Len(block) THEN {}
    ELSE FlowOf(block[n], Append(path, n),
                FirstOfBlock(block, path, n + 1, next, break, continue), break, continue)
         \cup FlowOfBlock(block, path, n + 1, next, break, continue)

RECURSIVE Closure(_, _)
Closure(labels, flow) ==
    LET more == labels \cup {e[2] : e \in {f \in flow : f[1] \in labels}}
    IN  IF more = labels THEN labels ELSE Closure(more, flow)

\* The part of a flow that can be reached from first.
Reachable(flow, first) ==
    LET labels == Closure(first, flow) IN {e \in flow : e[1] \in labels}

\* The base constructor, then the modifiers in their order.
Before(modifiers) ==
    LET of(kind) == SelectSeq([k \in DOMAIN modifiers |-> k], LAMBDA k : modifiers[k] = kind)
        order == of("base") \o of("modifier")
    IN  <<<<>>>> \o [n \in DOMAIN order |-> <<0, order[n]>>]

FunctionFlow(function) ==
    LET before == Before(function.modifiers)
        first == FirstOfBlock(function.body, <<1>>, 1, {Exit}, {}, {})
    IN  Reachable(FlowOfBlock(function.body, <<1>>, 1, {Exit}, {}, {})
                    \cup {<<before[n], before[n + 1]>> : n \in 1..(Len(before) - 1)}
                    \cup ({Last(before)} \X first), {<<>>})

\* The nodes that stand for something executed.
Visible(g) == {n \in Nodes(g) : g.type[n] \in {"EXPRESSION", "IF", "IFLOOP", "RETURN", "TRY"}}

RECURSIVE Followers(_, _, _)
\* The visible nodes behind a set of nodes, and Exit.
Followers(g, nodes, seen) ==
    LET hidden == nodes \ (Visible(g) \cup seen)
        here == {g.path[n] : n \in nodes \cap Visible(g)}
                    \cup (IF \E n \in hidden : g.sons[n] = <<>> THEN {Exit} ELSE {})
    IN  IF hidden = {} THEN here
        ELSE here \cup Followers(g, UNION {ToSet(g.sons[n]) : n \in hidden}, seen \cup hidden)

GraphFlow(g) ==
    LET behind(n) == IF g.sons[n] = <<>> THEN {Exit} ELSE Followers(g, ToSet(g.sons[n]), {})
    IN  Reachable(UNION {{g.path[n]} \X behind(n) : n \in Visible(g) \cup {1}}, {<<>>})

----------------------------------------------------------------------------
(* Properties *)

LoopKinds == {"while", "do", "for"}

\* The statements of a block at all depths, or those that are in no inner loop.
RECURSIVE Within(_, _)
Within(block, entered) ==
    ToSet(block) \cup UNION {UNION {Within(b, entered) : b \in ToSet(s.blocks)} :
                                s \in {t \in ToSet(block) : t.kind \in entered}}

Kinds == LoopKinds \cup {"if", "try"}
All(block) == Within(block, Kinds)
HasKind(statements, kinds) == \E s \in statements : s.kind \in kinds
Jumps(loop, kind) == HasKind(Within(loop.blocks[1], {"if", "try"}), {kind})
Nests(s, kinds) == \E b \in ToSet(s.blocks) : HasKind(All(b), kinds)
Unbounded(s) == s.kind = "for" /\ ~ s.condition

RECURSIVE Completes(_)
\* What follows the block may be executed.
Completes(block) ==
    \A s \in ToSet(block) :
        CASE s.kind \in {"break", "continue", "return", "returnChoice"} -> FALSE
          [] s.kind \in {"if", "try"} ->
                (s.kind = "if" /\ Len(s.blocks) = 1) \/ \E b \in ToSet(s.blocks) : Completes(b)
          [] s.kind = "do" -> Completes(s.blocks[1]) \/ Jumps(s, "break") \/ Jumps(s, "continue")
          [] s.kind = "for" -> s.condition \/ Jumps(s, "break")
          [] OTHER -> TRUE

\* No statement stands where it is never reached.
NoDeadCode(body) ==
    \A b \in {body} \cup UNION {ToSet(s.blocks) : s \in All(body)} :
        b # <<>> => Completes(Front(b))

\* Jumps that slither's searches for the ends of a loop resolve: continue in
\* loops without inner loops whose condition is what follows; break, but not
\* in or around an inner loop if the loop has no condition.  No catch clause
\* has a loop, which _fix_catch would follow for ever, or another try.
Supported(body) ==
    \A s \in All(body) :
        /\ s.kind = "try" => ~ Nests(s, LoopKinds \cup {"try"})
        /\ s.kind \in LoopKinds =>
            /\ Jumps(s, "continue") => s.kind # "do" /\ ~ s.post /\ ~ Nests(s, LoopKinds)
            /\ Unbounded(s) /\ Jumps(s, "break") => ~ Nests(s, LoopKinds)
            /\ \A t \in All(s.blocks[1]) : Unbounded(t) => ~ Jumps(t, "break")

\* A call of a base constructor that is written before the modifiers is put
\* behind them; and several are run in the order of inheritance, which the
\* function does not show.
Ordered(modifiers) ==
    LET bases == {k \in DOMAIN modifiers : modifiers[k] = "base"}
    IN  \/ bases = {}
        \/ Cardinality(bases) = 1 /\ (Len(modifiers) = 1 \/ modifiers[1] = "modifier")

\* The function's flow is in that of its graph g, or is all of it.
Covers(g, function) == ~ HasRaised(g) /\ FunctionFlow(function) \subseteq GraphFlow(g)
Matches(g, function) == ~ HasRaised(g) /\ FunctionFlow(function) = GraphFlow(g)

\* Whatever a function does, it does along the edges of its graph; and what the
\* graph has besides is that a try goes on without a clause and that a loop
\* without an end is left.
FlowRight(function) ==
    LET body == function.body
        exact == /\ ~ HasKind(All(body), {"try"})
                 /\ \A s \in All(body) : s.kind \in LoopKinds => Completes(<<s>>)
    IN  NoDeadCode(body) /\ Supported(body) /\ Ordered(function.modifiers) =>
            IF exact THEN Matches(Analyzed(function), function)
            ELSE Covers(Analyzed(function), function)

\* solc_parsing/declarations/function.py:1083: "counter allows to explore nested
\* loop".  The same of every function with breaks but no other jump.
BreaksRight(function) ==
    (NoDeadCode(function.body) /\ ~ HasKind(All(function.body), {"try", "continue"})
        /\ function.modifiers = <<>>) =>
        Covers(Analyzed(function), function)

=============================================================================
