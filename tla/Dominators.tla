------------------------------ MODULE Dominators ------------------------------
(***************************************************************************)
(* The dominators, immediate dominators and dominance frontiers that       *)
(* slither computes on the graph of a function before it brings it into    *)
(* SSA form (src/slither/slither/core/dominators/utils.py), a round of     *)
(* each loop at a time.  Nodes are the numbers from 1, the entry, in the   *)
(* order of creation.                                                      *)
(***************************************************************************)
EXTENDS Integers, Sequences, FiniteSets

CONSTANT FlowGraphs  \* [type |-> the nodes' types, fathers |-> their lists of fathers]

ASSUME FlowGraphAssumption ==
    \A g \in FlowGraphs :
        /\ g.type \in Seq(STRING) /\ Len(g.type) > 0
        /\ DOMAIN g.fathers = 1..Len(g.type)
        /\ \A n \in 1..Len(g.type) : g.fathers[n] \in Seq(1..Len(g.type))

VARIABLES
    graph,
    dominators,   \* per node, a set
    immediate,    \* per node, a set of one node, or empty for None
    frontier,     \* per node, a set
    phase,        \* the loop that runs, "done", or "raised" by a failed assertion or None
    node,         \* the loop's node
    changed,      \* whether a node's dominators have changed in this round
    pending,      \* the candidates that the inner loop has not looked at
    above,        \* all_dominators
    father,       \* which father of the node
    runner        \* a set, as immediate

domVars == <<graph, dominators, immediate, frontier, phase, node, changed, pending, above, father, runner>>
foundVars == <<dominators, immediate, frontier>>
innerVars == <<pending, above, father, runner>>

Nodes == 1..Len(graph.type)
FathersOf(n) == {graph.fathers[n][k] : k \in DOMAIN graph.fathers[n]}

ComputeDominators(g) ==
    /\ graph' = g
    /\ dominators' = [n \in 1..Len(g.type) |-> 1..Len(g.type)]
    /\ immediate' = [n \in 1..Len(g.type) |-> {}]
    /\ frontier' = [n \in 1..Len(g.type) |-> {}]
    /\ phase' = "dominators" /\ node' = 1 /\ changed' = FALSE
    /\ UNCHANGED innerVars

----------------------------------------------------------------------------
(* _compute_dominators *)

\* Mistake: the other fathers are not looked at.
OfFirstFather(n) ==
    {d \in Nodes : FathersOf(n) # {} /\ d \in dominators[graph.fathers[n][1]]}

\* intersection_predecessor
IntersectionPredecessor(n) ==
    {d \in Nodes : FathersOf(n) # {} /\ \A f \in FathersOf(n) : d \in dominators[f]}

NewSet(n) == IntersectionPredecessor(n) \cup {n}

Visit ==
    /\ phase = "dominators" /\ node \in Nodes
    /\ dominators' = [dominators EXCEPT ![node] = NewSet(node)]
    /\ changed' = (changed \/ NewSet(node) # dominators[node])
    /\ node' = node + 1
    /\ UNCHANGED <<graph, immediate, frontier, phase, innerVars>>

\* The loop's next node, whose candidates are its dominators but itself.
GoesTo(n) ==
    /\ node' = n
    /\ pending' = IF n \in Nodes THEN dominators[n] \ {n} ELSE {}
    /\ above' = {}

\* while changed
EndRound ==
    /\ phase = "dominators" /\ node \notin Nodes
    /\ \/ /\ changed
          /\ changed' = FALSE /\ node' = 1
          /\ UNCHANGED <<phase, pending, above>>
       \/ /\ ~ changed
          /\ phase' = "immediate" /\ GoesTo(1)
          /\ UNCHANGED changed
    /\ UNCHANGED <<graph, foundVars, father, runner>>

----------------------------------------------------------------------------
(* _compute_immediate_dominators *)

Candidates == dominators[node] \ {node}

Single == Cardinality(Candidates) = 1

\* A candidate that is already known to be above another is passed over: those
\* above it are known as well.
Gather ==
    /\ phase = "immediate" /\ node \in Nodes /\ ~ Single
    /\ \E d \in pending :
        /\ pending' = pending \ {d}
        /\ above' = IF d \in above THEN above ELSE above \cup (dominators[d] \ {d})
    /\ UNCHANGED <<graph, foundVars, phase, node, changed, father, runner>>

\* symmetric_difference
Nearest == IF Single THEN Candidates ELSE (above \ Candidates) \cup (Candidates \ above)

\* The assertion is that there is at most one.
Choose ==
    /\ phase = "immediate" /\ node \in Nodes
    /\ Single \/ pending = {}
    /\ IF Cardinality(Nearest) <= 1
       THEN /\ immediate' = [immediate EXCEPT ![node] = Nearest]
            /\ GoesTo(node + 1)
            /\ UNCHANGED phase
       ELSE /\ phase' = "raised"
            /\ UNCHANGED <<immediate, node, pending, above>>
    /\ UNCHANGED <<graph, dominators, frontier, changed, father, runner>>

AllChosen ==
    /\ phase = "immediate" /\ node \notin Nodes
    /\ phase' = "frontier" /\ node' = 1 /\ father' = 1
    /\ UNCHANGED <<graph, foundVars, changed, pending, above, runner>>

----------------------------------------------------------------------------
(* compute_dominance_frontier *)

\* An if without else is put in the frontier's place itself.
Corner(f, n) == immediate[n] = {f} /\ graph.type[f] = "IF" /\ graph.type[n] = "ENDIF"

\* The next father of a node that has several.
Enter ==
    /\ phase = "frontier" /\ node \in Nodes
    /\ Len(graph.fathers[node]) >= 2 /\ father <= Len(graph.fathers[node])
    /\ LET f == graph.fathers[node][father]
       IN  /\ runner' = {f}
           /\ frontier' = IF Corner(f, node) THEN [frontier EXCEPT ![f] = @ \cup {node}] ELSE frontier
    /\ phase' = "climb"
    /\ UNCHANGED <<graph, dominators, immediate, node, changed, pending, above, father>>

\* None has no frontier.
Climb ==
    /\ phase = "climb" /\ runner # immediate[node]
    /\ \/ /\ runner = {} /\ phase' = "raised"
          /\ UNCHANGED <<frontier, runner>>
       \/ \E r \in runner :
            /\ frontier' = [frontier EXCEPT ![r] = @ \cup {node}]
            /\ runner' = immediate[r]
            /\ UNCHANGED phase
    /\ UNCHANGED <<graph, dominators, immediate, node, changed, pending, above, father>>

Arrive ==
    /\ phase = "climb" /\ runner = immediate[node]
    /\ phase' = "frontier" /\ father' = father + 1
    /\ UNCHANGED <<graph, foundVars, node, changed, pending, above, runner>>

NextNode ==
    /\ phase = "frontier" /\ node \in Nodes
    /\ Len(graph.fathers[node]) < 2 \/ father > Len(graph.fathers[node])
    /\ node' = node + 1 /\ father' = 1
    /\ UNCHANGED <<graph, foundVars, phase, changed, pending, above, runner>>

AllEntered ==
    /\ phase = "frontier" /\ node \notin Nodes
    /\ phase' = "done"
    /\ UNCHANGED <<graph, foundVars, node, changed, innerVars>>

----------------------------------------------------------------------------
DomInit ==
    /\ graph = [type |-> <<>>, fathers |-> <<>>]
    /\ dominators = <<>> /\ immediate = <<>> /\ frontier = <<>>
    /\ phase = "idle" /\ node = 1 /\ changed = FALSE
    /\ pending = {} /\ above = {} /\ father = 1 /\ runner = {}

DomNext ==
    \/ phase = "idle" /\ \E g \in FlowGraphs : ComputeDominators(g)
    \/ Visit \/ EndRound
    \/ Gather \/ Choose \/ AllChosen
    \/ Enter \/ Climb \/ Arrive \/ NextNode \/ AllEntered

DomSpec == DomInit /\ [][DomNext]_domVars

----------------------------------------------------------------------------
(* Properties *)

\* Paths from the entry that do not pass d stay in S.
Encloses(S, d) ==
    /\ 1 \in S \/ d = 1
    /\ \A n \in Nodes \ {d} : FathersOf(n) \cap S # {} => n \in S

\* d is on every path from the entry to n.
OnEveryPath(d, n) == \E S \in SUBSET Nodes : Encloses(S, d) /\ n \notin S

\* Every node can be reached from the entry, which is nobody's son.
Rooted ==
    /\ FathersOf(1) = {}
    /\ \A S \in SUBSET Nodes : Encloses(S, 0) => S = Nodes

DominatorsByPaths(n) == {d \in Nodes : OnEveryPath(d, n)}

\* m dominates a father of n, but not n.
Borders(m, n) == \E f \in FathersOf(n) : m \in dominators[f] \ (dominators[n] \ {n})

\* The frontier ends where the dominance does; and an if without else has its
\* end in the frontier.
InFrontier(m, n) ==
    \/ Borders(m, n)
    \/ Len(graph.fathers[n]) >= 2 /\ m \in FathersOf(n) /\ Corner(m, n)

\* Dominators, immediate dominators and dominance frontiers are those of the
\* graph's paths, and no assertion fails on the way, if all nodes can be reached
\* from the entry.
DominatorsRight ==
    phase \in {"done", "raised"} /\ Rooted =>
        /\ phase = "done"
        /\ \A n \in Nodes :
            /\ dominators[n] = DominatorsByPaths(n)
            /\ n = 1 => immediate[n] = {}
            /\ n # 1 => \E m \in dominators[n] \ {n} :
                            immediate[n] = {m} /\ dominators[n] = dominators[m] \cup {n}
            /\ frontier[n] = {m \in Nodes : InFrontier(n, m)}

=============================================================================
