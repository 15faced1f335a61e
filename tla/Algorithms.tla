------------------------------ MODULE Algorithms ------------------------------
(***************************************************************************)
(* Sequential algorithms of the system that are functions of their input,  *)
(* each applied to inputs from given sets: the emulator's arithmetic, the  *)
(* formatter, and slither's control flow graphs, layouts, and              *)
(* upgradeability and initialization checks.                               *)
(***************************************************************************)
EXTENDS Arithmetic

CONSTANTS
    TypeLists,    \* lists of types to lay out
    Files,        \* [comments |-> lines, code |-> lines, contracts |-> contracts]
    Upgrades,     \* [old |-> hierarchies, new |-> hierarchies] with the contract "C"
    Identified,   \* [contracts |-> sets of functions and variables, proxies |-> the same,
                  \*  ids |-> functions of signatures, selectors |-> the same]
    Initializers, \* the functions of a contract "C"
    Functions     \* [body |-> statements, modifiers |-> kinds]

VARIABLE task     \* the algorithm and its input

U == INSTANCE Upgradeability
F == INSTANCE SourceFormat
G == INSTANCE FunctionGraph

Waiting == [kind |-> "waiting"]

Calculate ==
    \E op \in ValueOps \cup BitOps, x \in WordValues, y \in WordValues, m \in WordValues :
        /\ op \notin {"ADDMOD", "MULMOD"} => m = 0
        /\ task' = [kind |-> "calculate", op |-> op, x |-> x, y |-> y, m |-> m]

LayOut == \E l \in TypeLists : task' = [kind |-> "layout", types |-> l]

Format ==
    \/ \E l \in Files.comments : task' = [kind |-> "uncomment", lines |-> l]
    \/ \E l \in Files.code : task' = [kind |-> "compress", lines |-> l]
    \/ \E c \in Files.contracts : task' = [kind |-> "order", contracts |-> c]

Compare ==
    \E h1 \in Upgrades.old, h2 \in Upgrades.new :
        task' = [kind |-> "compare", old |-> h1, new |-> h2]

Initialize == \E fs \in Initializers : task' = [kind |-> "initialize", fs |-> fs]

Identify ==
    \E c \in Identified.contracts, p \in Identified.proxies,
       id \in Identified.ids, selector \in Identified.selectors :
        task' = [kind |-> "identify", contract |-> c, proxy |-> p, id |-> id, selector |-> selector]

Parse == \E f \in Functions : task' = [kind |-> "parse", function |-> f]

Algorithm ==
    /\ task = Waiting
    /\ \/ Calculate \/ Format
       \/ LayOut \/ Compare \/ Initialize \/ Identify \/ Parse

----------------------------------------------------------------------------
(* Properties *)

\* An instruction's result is the word the EVM has, or an exception ends the
\* emulation: no word is wrong at a limit of the signed or the unsigned range.
InstructionsRight ==
    task.kind = "calculate" =>
        IF task.op \in ValueOps THEN ValueRight(task.op, task.x, task.y, task.m)
        ELSE BitsRight(task.op, task.x, task.y)

\* The formatter removes the comments, and code only where it misreads a mark:
\* of a comment in a string or in a comment of the other kind, or a blank in
\* front.  It keeps definitions whole, unless a line is left blank between
\* them, which raises.  It writes every contract once, and behind those it
\* inherits from if no base has arguments, unless a contract waits for itself,
\* which it never gets past.
FormattedRight ==
    /\ task.kind = "uncomment" => F!CommentsRight(task.lines)
    /\ task.kind = "compress" => F!LinesRight(task.lines)
    /\ task.kind = "order" => F!OrderRight(task.contracts)

\* Storage layouts are the compiler's.
LayoutsRight == task.kind = "layout" => U!LayoutRight(task.types)

OldVariables == U!StateVariables(task.old, "C")
NewVariables == U!StateVariables(task.new, "C")

\* An upgrade that no check on the variables' order reports keeps the storage;
\* ExtraVariablesProxy and ExtraVariablesNewContract report the additional
\* variables alone only if these are as many as the others; WereConstant and
\* BecameConstant compare each variable with its counterpart, whatever the new
\* version adds behind them; and a call that the proxy answers although the
\* logic contract could is reported if the function is in both, and otherwise
\* if the ids of slither, which are not the EVM's selectors, collide too.
UpgradesReported ==
    /\ task.kind = "compare" =>
        /\ U!SilentUpgradeKeeps(task.old, "C", task.new, "C")
        /\ U!ExtraReported(OldVariables, NewVariables)
        /\ U!ConstantsReported(OldVariables, NewVariables,
                               U!EqualPairs(OldVariables, NewVariables))
    /\ task.kind = "identify" =>
        U!IdsReported(task.contract, task.proxy, task.id, task.selector)

\* The checks on initialize calls say of each function whether it runs, and
\* whether it runs twice.
InitializersChecked == task.kind = "initialize" => U!InitializersRight(task.fs, "C")

\* Whatever a function does, it does along the edges of its graph.
FlowRight == task.kind = "parse" => G!FlowRight(task.function)

\* solc_parsing/declarations/function.py:1083: "counter allows to explore nested
\* loop".  A break leaves the innermost loop.
BreaksRight == task.kind = "parse" => G!BreaksRight(task.function)

=============================================================================
